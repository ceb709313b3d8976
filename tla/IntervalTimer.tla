---------------------------- MODULE IntervalTimer ----------------------------
(***************************************************************************)
(* One interval timer of the Linux shim: _ccgo_setitimer of libc_linux.go  *)
(* and the function its Go timers run.  time.AfterFunc runs that function  *)
(* in a goroutine of its own, which sends the signal before it takes       *)
(* linuxIntervalMu, and Stop does nothing to a timer that has run out: a   *)
(* call of setitimer can find a fire of the timer before it under way.     *)
(*                                                                         *)
(* A timer that repeats is a chain of Go timers, each armed by the fire of *)
(* the one before.  A chain has the number of the call that started it.    *)
(***************************************************************************)
EXTENDS Naturals

CONSTANT MaxSets  \* how many times setitimer is called

ASSUME IntervalTimerAssumption == MaxSets \in Nat

Chains == 1..MaxSets

VARIABLES
  sets,    \* how many calls there have been
  chain,   \* where each chain is: its timer armed, or its fire under way
  timer,   \* state.timer: the chain whose Go timer it holds; 0 is nil
  repeat,  \* state.repeat is not zero
  asked,   \* history: the value and the interval of the last call, not zero
  raced    \* history: a call found a fire under way

timerVars == <<sets, chain, timer, repeat, asked, raced>>

Firing == {"signal", "note", "lock"}

TimerTypeOK ==
  /\ sets \in 0..MaxSets
  /\ chain \in [Chains -> {"none", "armed", "over"} \cup Firing]
  /\ timer \in 0..MaxSets
  /\ repeat \in BOOLEAN
  /\ raced \in BOOLEAN
  /\ asked \in [initial : BOOLEAN, interval : BOOLEAN]

TimerInit ==
  /\ sets = 0
  /\ chain = [n \in Chains |-> "none"]
  /\ timer = 0
  /\ repeat = FALSE /\ raced = FALSE
  /\ asked = [initial |-> FALSE, interval |-> FALSE]

-----------------------------------------------------------------------------
(* Mistakes these actions could make; the runs show that their properties   *)
(* would notice.                                                            *)

SetNoStop(initial, interval) ==  \* the timer before is not stopped
  /\ sets < MaxSets
  /\ sets' = sets + 1
  /\ chain' = [chain EXCEPT ![sets + 1] = IF initial THEN "armed" ELSE "none"]
  /\ timer' = IF initial THEN sets + 1 ELSE 0
  /\ repeat' = interval
  /\ asked' = [initial |-> initial, interval |-> interval]
  /\ raced' = (raced \/ \E n \in Chains : chain[n] \in Firing)

SetKeepsRepeat(initial, interval) ==  \* repeat is stored after the early return
  /\ sets < MaxSets
  /\ sets' = sets + 1
  /\ chain' = [n \in Chains |->
       CASE n = sets + 1 /\ initial -> "armed"
         [] n = timer /\ chain[n] = "armed" -> "over"
         [] OTHER -> chain[n]]
  /\ timer' = IF initial THEN sets + 1 ELSE 0
  /\ repeat' = IF initial THEN interval ELSE repeat
  /\ asked' = [initial |-> initial, interval |-> interval]
  /\ raced' = (raced \/ \E n \in Chains : chain[n] \in Firing)

FireEndOnce(n) ==  \* a fire does not arm the next timer
  /\ chain[n] = "lock"
  /\ chain' = [chain EXCEPT ![n] = "over"]
  /\ timer' = 0
  /\ UNCHANGED <<sets, repeat, asked, raced>>

-----------------------------------------------------------------------------

(* setitimer, under linuxIntervalMu: the timer that state knows is stopped, *)
(* if it has not run out, and another one is armed unless its value is zero *)
(* (the interval is stored even then).                                      *)
SetItimer(initial, interval) ==
  /\ sets < MaxSets
  /\ sets' = sets + 1
  /\ chain' = [n \in Chains |->
       CASE n = sets + 1 /\ initial -> "armed"
         [] n = timer /\ chain[n] = "armed" -> "over"
         [] OTHER -> chain[n]]
  /\ timer' = IF initial THEN sets + 1 ELSE 0
  /\ repeat' = interval
  /\ asked' = [initial |-> initial, interval |-> interval]
  /\ raced' = (raced \/ \E n \in Chains : chain[n] \in Firing)

(* A step of a fire, from one place to the next. *)
FireAt(n, from, to) ==
  /\ chain[n] = from
  /\ chain' = [chain EXCEPT ![n] = to]
  /\ UNCHANGED <<sets, repeat, asked, raced>>

Expire(n) == FireAt(n, "armed", "signal") /\ UNCHANGED timer
SelfSignal(n) == FireAt(n, "signal", "note") /\ UNCHANGED timer
NoteDelivery(n) == FireAt(n, "note", "lock") /\ UNCHANGED timer

(* The fire ends under linuxIntervalMu.  It does not know whether setitimer *)
(* has been called since its timer was armed.                               *)
FireEnd(n) ==
  /\ FireAt(n, "lock", IF repeat THEN "armed" ELSE "over")
  /\ timer' = IF repeat THEN n ELSE 0

Fire(n) == Expire(n) \/ SelfSignal(n) \/ NoteDelivery(n) \/ FireEnd(n)

TimerNext ==
  \/ \E initial, interval \in BOOLEAN : SetItimer(initial, interval)
  \/ \E n \in Chains : Fire(n)

TimerSpec == TimerInit /\ [][TimerNext]_timerVars

(* Time passes, and Go runs the goroutine of a timer that ran out.          *)
TimerFairSpec == TimerSpec /\ \A n \in Chains : WF_timerVars(Fire(n))

-----------------------------------------------------------------------------

Alive(n) == chain[n] \in {"armed"} \cup Firing

(* The timer that state.timer holds is the only one: getitimer reports it   *)
(* and the next setitimer stops it.  Only a fire that was under way when    *)
(* setitimer was called can leave a second one, or one nobody can stop.     *)
OneTimerUnlessRaced == ~raced => \A n \in Chains : Alive(n) => timer = n

(* A timer set to zero sends its last signal, if one was under way; unless  *)
(* the call gave an interval, which that fire takes up at its end.          *)
DisarmedQuiets ==
  ~asked.initial ~>
    (asked.initial \/ (raced /\ asked.interval) \/ \A n \in Chains : ~Alive(n))

(* A timer with an interval never stops sending, whatever setitimer meets   *)
(* under way when it is called.                                             *)
KeepsTicking ==
  []<>(asked.initial /\ asked.interval => \E n \in Chains : chain[n] = "note")

=============================================================================
