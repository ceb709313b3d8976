---------------------------- MODULE BlockingCalls ----------------------------
(***************************************************************************)
(* How the blocking calls of the libc shims notice signals (libc_common.go *)
(* and, of libc_linux.go, clock_nanosleep and pause).  "Signals delivered  *)
(* through os/signal do not interrupt a Go goroutine blocked in a          *)
(* syscall", so a handler that has run counts one generation up, and the   *)
(* calls poll for 10 ms at a time and compare it with the one observed     *)
(* last.  To poll, read and write switch their descriptor to non-blocking  *)
(* and back.                                                               *)
(*                                                                         *)
(* Threads make calls on one descriptor, which is also read and written at *)
(* its other end.                                                          *)
(***************************************************************************)
EXTENDS Naturals

CONSTANTS
  Threads,       \* threads with a call in progress or not
  Calls,         \* the calls each makes
  MaxDelivered   \* how many handlers run

OnDescriptor == {"read", "write", "recv"}

ASSUME BlockingCallsAssumption ==
  /\ Calls \in [Threads -> SUBSET (OnDescriptor \cup {"sleep", "pause"})]
  /\ MaxDelivered \in Nat

VARIABLES
  delivered, observed,  \* the two generations
  nonblock,  \* O_NONBLOCK of the descriptor
  wish,      \* what the application set it to
  data,      \* there is something to read
  room,      \* and something can be written
  pc, call,  \* where each thread is, in which call
  loaded,    \* the generation it has loaded
  done,      \* whose probe has transferred something
  result,    \* what its last call returned
  interrupts,  \* history: how many calls have consumed a delivery
  told,        \* history: the latest generation a call was ended for
  back,        \* history: the observed generation has gone back
  shared       \* history: two calls were on the descriptor at once

counters == <<delivered, observed>>
descriptor == <<nonblock, wish, data, room>>
history == <<interrupts, told, back>>
vars == <<counters, descriptor, pc, call, loaded, done, result, history, shared>>

TypeOK ==
  /\ delivered \in 0..MaxDelivered /\ observed \in 0..MaxDelivered /\ told \in 0..MaxDelivered
  /\ nonblock \in BOOLEAN /\ wish \in BOOLEAN /\ data \in BOOLEAN /\ room \in BOOLEAN
  /\ back \in BOOLEAN /\ shared \in BOOLEAN
  /\ pc \in [Threads -> {"out", "direct", "start", "startSwap", "poll", "load", "swap",
                         "set", "io", "probe", "restore", "pause", "pauseStore"}]
  /\ call \in [Threads -> OnDescriptor \cup {"none", "sleep", "pause"}]
  /\ loaded \in [Threads -> 0..MaxDelivered]
  /\ done \subseteq Threads
  /\ result \in [Threads -> {"ok", "EINTR", "EAGAIN"}]
  /\ interrupts \in Nat

Init ==
  /\ delivered = 0 /\ observed = 0
  /\ nonblock = FALSE /\ wish = FALSE
  /\ data = FALSE /\ room = FALSE
  /\ pc = [t \in Threads |-> "out"]
  /\ call = [t \in Threads |-> "none"]
  /\ loaded = [t \in Threads |-> 0]
  /\ done = {}
  /\ result = [t \in Threads |-> "ok"]
  /\ interrupts = 0 /\ told = 0 /\ back = FALSE
  /\ shared = FALSE

-----------------------------------------------------------------------------

Goto(t, l) == pc' = [pc EXCEPT ![t] = l]

(* The call of t returns r; its locals are gone. *)
Return(t, r) ==
  /\ Goto(t, "out")
  /\ result' = [result EXCEPT ![t] = r]
  /\ call' = [call EXCEPT ![t] = "none"]
  /\ loaded' = [loaded EXCEPT ![t] = 0]
  /\ done' = done \ {t}

(* Or it goes on at l. *)
Continue(t, l) == Goto(t, l) /\ UNCHANGED <<call, loaded, done, result>>

UsesDescriptor(t) == pc[t] # "out" /\ call[t] \in OnDescriptor

(* Thread t comes to the descriptor. *)
Share(t) == shared' = (shared \/ \E u \in Threads \ {t} : UsesDescriptor(u))

(* The system call of t would transfer something, and does. *)
Ready(t) == IF call[t] = "write" THEN room ELSE data
Transfer(t) ==
  IF call[t] = "write" THEN room' = FALSE /\ UNCHANGED data
  ELSE data' = FALSE /\ UNCHANGED room

(* It returns at once: O_NONBLOCK, or MSG_DONTWAIT once poll has returned.  *)
AtOnce(t) == nonblock \/ (call[t] = "recv" /\ pc[t] = "io")

(* Mistakes these actions could make; the runs show that their properties   *)
(* would notice.                                                            *)

InterruptUnobserved(t) ==  \* the generation is compared and left
  /\ UNCHANGED observed
  /\ Return(t, "EINTR")
  /\ interrupts' = interrupts + (IF call[t] = "pause" THEN 0 ELSE 1)
  /\ told' = IF loaded[t] > told THEN loaded[t] ELSE told
  /\ back' = (back \/ loaded[t] < observed)

RestoreIfDone(t) ==  \* a probe that finds nothing does not restore the flags
  /\ pc[t] = "restore"
  /\ nonblock' = (nonblock /\ t \notin done)
  /\ IF t \in done THEN Return(t, "ok") ELSE Continue(t, "poll")
  /\ UNCHANGED <<counters, wish, data, room, history, shared>>

RestoreReturns(t) ==  \* a probe's EAGAIN is returned
  /\ pc[t] = "restore"
  /\ nonblock' = FALSE
  /\ Return(t, IF t \in done THEN "ok" ELSE "EAGAIN")
  /\ UNCHANGED <<counters, wish, data, room, history, shared>>

PollNotAgain(t) ==  \* only the start of a call looks at the generations
  /\ pc[t] = "poll" /\ call[t] \in OnDescriptor /\ Ready(t)
  /\ Continue(t, IF call[t] = "write" THEN "set" ELSE "io")
  /\ UNCHANGED <<counters, descriptor, history, shared>>

-----------------------------------------------------------------------------

(* The observed generation becomes the loaded one, and t's call ends.       *)
Interrupt(t) ==
  /\ observed' = loaded[t]
  /\ Return(t, "EINTR")
  /\ interrupts' = interrupts + (IF call[t] = "pause" THEN 0 ELSE 1)
  /\ told' = IF loaded[t] > told THEN loaded[t] ELSE told
  /\ back' = (back \/ loaded[t] < observed)

(* A call begins: pause loads the generation, read and write the flags of   *)
(* the descriptor.                                                          *)
Begin(t, c) ==
  /\ pc[t] = "out"
  /\ call' = [call EXCEPT ![t] = c]
  /\ Goto(t, IF c = "pause" THEN "pause"
             ELSE IF c \in OnDescriptor /\ nonblock THEN "direct" ELSE "start")
  /\ loaded' = [loaded EXCEPT ![t] = IF c = "pause" THEN delivered ELSE @]
  /\ result' = [result EXCEPT ![t] = "ok"]
  /\ IF c \in OnDescriptor THEN Share(t) ELSE UNCHANGED shared
  /\ UNCHANGED <<counters, descriptor, done, history>>

(* The system call itself, for a non-blocking descriptor, or when poll has  *)
(* found something to read.  It blocks if the flag is no longer, or not,    *)
(* set and nothing is there; recv then polls again.                         *)
SystemCall(t) ==
  /\ pc[t] \in {"direct", "io"}
  /\ IF Ready(t) THEN Transfer(t) /\ Return(t, "ok")
     ELSE /\ AtOnce(t)
          /\ IF call[t] = "recv" /\ pc[t] = "io" THEN Continue(t, "poll")
             ELSE Return(t, "EAGAIN")
          /\ UNCHANGED <<data, room>>
  /\ UNCHANGED <<counters, nonblock, wish, history, shared>>

(* consumeSignalDelivery: one load, then compare and exchange.              *)
Load(t) ==
  /\ pc[t] \in {"start", "load"}
  /\ loaded' = [loaded EXCEPT ![t] = delivered]
  /\ Goto(t, IF pc[t] = "start" THEN "startSwap" ELSE "swap")
  /\ UNCHANGED <<counters, descriptor, call, done, result, history, shared>>

Swap(t) ==
  /\ pc[t] \in {"startSwap", "swap"}
  /\ IF observed = loaded[t]
     THEN /\ Continue(t, IF pc[t] = "swap" /\ call[t] = "read" THEN "set" ELSE "poll")
          /\ UNCHANGED <<observed, history>>
     ELSE Interrupt(t)
  /\ UNCHANGED <<delivered, descriptor, shared>>

(* 10 ms of poll: ready or not. *)
Poll(t) ==
  /\ pc[t] = "poll" /\ call[t] \in OnDescriptor
  /\ Continue(t, IF ~Ready(t) THEN "load" ELSE IF call[t] = "write" THEN "set" ELSE "io")
  /\ UNCHANGED <<counters, descriptor, history, shared>>

(* 10 ms of clock_nanosleep, or its time is over. *)
Nap(t) ==
  /\ pc[t] = "poll" /\ call[t] = "sleep"
  /\ Continue(t, "load") \/ Return(t, "ok")
  /\ UNCHANGED <<counters, descriptor, history, shared>>

(* F_SETFL with O_NONBLOCK, the probe, F_SETFL with the flags of the start. *)
SetNonblock(t) ==
  /\ pc[t] = "set"
  /\ nonblock' = TRUE
  /\ Continue(t, "probe")
  /\ UNCHANGED <<counters, wish, data, room, history, shared>>

Probe(t) ==
  /\ pc[t] = "probe"
  /\ IF Ready(t) THEN Transfer(t) ELSE nonblock /\ UNCHANGED <<data, room>>
  /\ done' = IF Ready(t) THEN done \cup {t} ELSE done \ {t}
  /\ Goto(t, "restore")
  /\ UNCHANGED <<counters, nonblock, wish, call, loaded, result, history, shared>>

Restore(t) ==
  /\ pc[t] = "restore"
  /\ nonblock' = FALSE
  /\ IF t \in done THEN Return(t, "ok") ELSE Continue(t, "poll")
  /\ UNCHANGED <<counters, wish, data, room, history, shared>>

(* pause sees a new generation, and stores the one it then loads.           *)
Pause(t) ==
  /\ pc[t] = "pause" /\ delivered # loaded[t]
  /\ loaded' = [loaded EXCEPT ![t] = delivered]
  /\ Goto(t, "pauseStore")
  /\ UNCHANGED <<counters, descriptor, call, done, result, history, shared>>

PauseStore(t) ==
  /\ pc[t] = "pauseStore"
  /\ Interrupt(t)
  /\ UNCHANGED <<delivered, descriptor, shared>>

-----------------------------------------------------------------------------

(* noteSignalDelivery: a handler has run. *)
NoteSignalDelivery ==
  /\ delivered < MaxDelivered
  /\ delivered' = delivered + 1
  /\ UNCHANGED <<observed, descriptor, pc, call, loaded, done, result, history, shared>>

(* The other end of the descriptor writes, or reads. *)
OtherEnd ==
  /\ \/ ~data /\ data' = TRUE /\ UNCHANGED room
     \/ ~room /\ room' = TRUE /\ UNCHANGED data
  /\ UNCHANGED <<counters, nonblock, wish, pc, call, loaded, done, result, history, shared>>

(* The application switches the descriptor, os.set_blocking. *)
SetBlocking(t) ==
  /\ pc[t] = "out"
  /\ \E b \in BOOLEAN : nonblock' = b /\ wish' = b
  /\ Share(t)
  /\ UNCHANGED <<counters, data, room, pc, call, loaded, done, result, history>>

-----------------------------------------------------------------------------

Step(t) ==
  \/ SystemCall(t) \/ Load(t) \/ Swap(t) \/ Poll(t) \/ Nap(t)
  \/ SetNonblock(t) \/ Probe(t) \/ Restore(t) \/ Pause(t) \/ PauseStore(t)

Next ==
  \/ \E t \in Threads : Step(t) \/ SetBlocking(t) \/ \E c \in Calls[t] : Begin(t, c)
  \/ NoteSignalDelivery
  \/ OtherEnd

Spec == Init /\ [][Next]_vars

(* Threads run; nobody need write to the other end, and no sleep need end.  *)
FairSpec == Spec /\ \A t \in Threads : WF_vars(Step(t))

-----------------------------------------------------------------------------

(* A delivery is consumed by one call: it ends no second one but a pause,   *)
(* which waits for a generation of its own.  More than one, only if a slow  *)
(* call has moved the observed generation back over what another had seen.  *)
OneInterruptEach == ~back => interrupts <= observed

(* While the descriptor has one call at a time, its flags are what the      *)
(* application set whenever there is none, however the call ended.          *)
FlagsKept ==
  ~shared /\ (\A t \in Threads : ~UsesDescriptor(t)) => nonblock = wish

(* "_ccgo_read preserves non-blocking reads, but makes blocking reads       *)
(* interruptible": EAGAIN is for descriptors that the application has made  *)
(* non-blocking, while they have one call at a time.                        *)
EAGAINIsMeant ==
  [][\A t \in Threads :
       pc[t] # "out" /\ pc'[t] = "out" /\ result'[t] = "EAGAIN" => wish \/ shared]_vars

(* The call of t can notice the n-th delivery: pause looks at those after   *)
(* its beginning.                                                           *)
Notices(t, n) == pc[t] # "out" /\ (pc[t] = "pause" => n > loaded[t])

(* "so CPython observes EINTR and can run its pending Python handler": a    *)
(* delivery ends some call that is in progress, if it does not end itself.  *)
DeliveryNoticed ==
  \A t \in Threads : \A n \in 1..MaxDelivered :
    Notices(t, n) /\ delivered >= n /\ told < n ~> pc[t] = "out" \/ told >= n \/ shared

=============================================================================
