------------------------------- MODULE Signals -------------------------------
(***************************************************************************)
(* Signals on Linux and macOS (signals_unix.go).  Go's os/signal hands an  *)
(* arriving signal to the goroutine of the handler installed last; that    *)
(* goroutine, or a thread that signals its own process, queues it for a    *)
(* thread that blocks it and otherwise runs the handler.  pthread_sigmask  *)
(* and sigwait take queued signals out again.                              *)
(*                                                                         *)
(* What happens under signalStateMu or sigactionMu is one step.  A channel *)
(* of os/signal holds one signal: one that finds it full is dropped, like  *)
(* one queued twice for a thread.                                          *)
(***************************************************************************)
EXTENDS Integers, FiniteSets

CONSTANTS
  Threads,      \* the libc.TLSs of C threads; only they have masks
  Dispatchers,  \* the goroutines of installed handlers; each starts once
  Nobody,       \* the owner of one that has not started
  Signals,      \* signal numbers
  MaxSent       \* how many signals are sent

Deliverers == Threads \cup Dispatchers
Dispositions == {"none", "dfl", "ign"}

ASSUME SignalsAssumption ==
  /\ Signals \subseteq Nat \ {0}
  /\ Threads \cap Dispatchers = {}
  /\ Nobody \notin Threads
  /\ MaxSent \in Nat
  /\ Dispositions \cap Dispatchers = {}

VARIABLES
  action,   \* sigactionTable: a C handler is named by its dispatcher
  open,     \* the dispatchers whose channel is not closed
  buffer,   \* those whose channel holds a signal
  owner,    \* the thread that installed each
  ended,    \* the threads that are over
  mask,     \* signalMasks
  pending,  \* pendingSignals
  fresh,    \* the sleepers whose channel is still signalWake
  pc, sig,  \* where each deliverer is, and with which signal
  todo,     \* what pthread_sigmask has yet to deliver
  want,     \* what sigwait waits for
  sent,     \* how many signals were sent
  owed      \* history: how many of each have been accepted and not answered

table == <<action, open, owner>>
state == <<mask, pending, fresh>>
vars == <<table, buffer, ended, state, pc, sig, todo, want, sent, owed>>

TypeOK ==
  /\ action \in [Signals -> Dispositions \cup Dispatchers]
  /\ open \subseteq Dispatchers
  /\ buffer \subseteq Dispatchers
  /\ owner \in [Dispatchers -> Threads \cup {Nobody}]
  /\ ended \subseteq Threads
  /\ mask \in [Threads -> SUBSET Signals]
  /\ pending \in [Threads -> SUBSET Signals]
  /\ fresh \subseteq Threads
  /\ pc \in [Deliverers -> {"idle", "dispatch", "lookup", "kernel", "handler", "wait", "gone"}]
  /\ sig \in [Deliverers -> Signals \cup {0}]
  /\ todo \in [Threads -> SUBSET Signals]
  /\ want \in [Threads -> SUBSET Signals]
  /\ sent \in 0..MaxSent
  /\ owed \in [Signals -> Int]

Init ==
  /\ action = [s \in Signals |-> "none"]
  /\ open = {} /\ buffer = {}
  /\ owner = [d \in Dispatchers |-> Nobody]
  /\ ended = {}
  /\ mask = [t \in Threads |-> {}]
  /\ pending = [t \in Threads |-> {}]
  /\ fresh = {}
  /\ pc = [x \in Deliverers |-> "idle"]
  /\ sig = [x \in Deliverers |-> 0]
  /\ todo = [t \in Threads |-> {}]
  /\ want = [t \in Threads |-> {}]
  /\ sent = 0
  /\ owed = [s \in Signals |-> 0]

-----------------------------------------------------------------------------

Goto(x, l) == pc' = [pc EXCEPT ![x] = l]

(* Sets of signals are gone through from the lowest number up. *)
First(s, set) == \A r \in set : s <= r

(* A thread between two calls of this file. *)
Free(t) == t \notin ended /\ pc[t] = "idle" /\ todo[t] = {}

Blocking(s) == {t \in Threads : s \in mask[t]}
Owner(x) == IF x \in Threads THEN x ELSE owner[x]

(* One signal more was accepted, or one was answered. *)
Accept(s) == owed' = [owed EXCEPT ![s] = @ + 1]
Answer(s) == owed' = [owed EXCEPT ![s] = @ - 1]

(* A thread has done with a signal; a dispatcher only ever has its own.     *)
Forget(x) == sig' = [sig EXCEPT ![x] = IF x \in Threads THEN 0 ELSE @]

(* Mistakes these actions could make; the runs show that their properties   *)
(* would notice.                                                            *)

NotRetired(s) == {}  \* signal.Stop, but the channel is not closed

OwnerIfBlocking(x, s) == Blocking(s) \cap {Owner(x)}  \* no other thread is looked for

QueueNoWake(t, s) ==  \* signalWake is not closed and replaced
  /\ pending' = [pending EXCEPT ![t] = @ \cup {s}]
  /\ UNCHANGED fresh

StillPending(t, new) == pending[t]  \* what is delivered stays queued

NoneKept(t, new) == {}  \* what is still blocked is dropped

DispatcherEndsAtOnce(d) ==  \* without what its channel still holds
  /\ pc[d] = "idle" /\ owner[d] # Nobody /\ d \notin open
  /\ Goto(d, "gone")
  /\ UNCHANGED <<table, buffer, ended, state, sig, todo, want, sent, owed>>

(* For whom dispatchSignalOn may queue s: the caller or the owner, if it    *)
(* blocks s, otherwise whichever thread the map yields first.               *)
Targets(x, s) == IF Owner(x) \in Blocking(s) THEN {Owner(x)} ELSE Blocking(s)

(* The channel that a new action for s stops and closes. *)
Retired(s) == {action[s]}

(* dispatchSignalOn queues s for t; everyone who sleeps on signalWake wakes *)
(* up.                                                                      *)
Queue(t, s) ==
  /\ pending' = [pending EXCEPT ![t] = @ \cup {s}]
  /\ fresh' = {}

(* What pthread_sigmask leaves queued for t under its new mask. *)
Kept(t, new) == pending[t] \cap new

-----------------------------------------------------------------------------
(* installSigaction and os/signal.                                          *)

(* sigaction of s with SIG_DFL or SIG_IGN.  (A signal that arrives between  *)
(* signal.Stop and signal.Notify takes its default action; that is left     *)
(* out.)                                                                    *)
Uninstall(t, s, a) ==
  /\ Free(t)
  /\ open' = open \ Retired(s)
  /\ action' = [action EXCEPT ![s] = a]
  /\ UNCHANGED <<owner, buffer, ended, state, pc, sig, todo, want, sent, owed>>

(* And with a handler: a channel, and a goroutine that ranges over it.      *)
Install(t, s) ==
  /\ Free(t)
  /\ \E d \in Dispatchers : owner[d] = Nobody
  /\ LET d == CHOOSE e \in Dispatchers : owner[e] = Nobody IN
       /\ open' = (open \ Retired(s)) \cup {d}
       /\ action' = [action EXCEPT ![s] = d]
       /\ owner' = [owner EXCEPT ![d] = t]
       /\ sig' = [sig EXCEPT ![d] = s]
  /\ UNCHANGED <<buffer, ended, state, pc, todo, want, sent, owed>>

(* A signal comes from outside; os/signal's send does not block.            *)
Arrive(s) ==
  /\ sent < MaxSent
  /\ sent' = sent + 1
  /\ action[s] \in Dispatchers
  /\ buffer' = buffer \cup {action[s]}
  /\ IF action[s] \in buffer THEN UNCHANGED owed ELSE Accept(s)
  /\ UNCHANGED <<table, ended, state, pc, sig, todo, want>>

(* The dispatcher's loop; it still gets what a closed channel holds.        *)
Receive(d) ==
  /\ pc[d] = "idle" /\ d \in buffer
  /\ buffer' = buffer \ {d}
  /\ Goto(d, "dispatch")
  /\ UNCHANGED <<table, ended, state, sig, todo, want, sent, owed>>

DispatcherEnds(d) ==
  /\ pc[d] = "idle" /\ owner[d] # Nobody /\ d \notin buffer \cup open
  /\ Goto(d, "gone")
  /\ UNCHANGED <<table, buffer, ended, state, sig, todo, want, sent, owed>>

-----------------------------------------------------------------------------
(* dispatchSignalOn and deliverSignal.                                      *)

(* Under signalStateMu: the signal is queued, or nobody blocks it.  It is   *)
(* one more that is owed an answer (n = 1) or was before (n = 0), and one   *)
(* less if it is merged with another in the queue.                          *)
Route(x, s, n) ==
  IF Targets(x, s) = {}
  THEN /\ Goto(x, "lookup")
       /\ sig' = [sig EXCEPT ![x] = s]
       /\ owed' = [owed EXCEPT ![s] = @ + n]
       /\ UNCHANGED <<pending, fresh>>
  ELSE /\ Goto(x, "idle")
       /\ UNCHANGED sig
       /\ \E t \in Targets(x, s) :
            /\ Queue(t, s)
            /\ owed' = [owed EXCEPT ![s] = @ + n - IF s \in pending[t] THEN 1 ELSE 0]

Dispatch(d) ==
  /\ pc[d] = "dispatch"
  /\ Route(d, sig[d], 0)
  /\ UNCHANGED <<table, buffer, ended, mask, todo, want, sent>>

(* kill or raise: the thread signals its own process. *)
Kill(t, s) ==
  /\ Free(t)
  /\ sent < MaxSent
  /\ sent' = sent + 1
  /\ Route(t, s, 1)
  /\ UNCHANGED <<table, buffer, ended, mask, todo, want>>

(* deliverSignal of s, under sigactionMu: without a handler the signal is   *)
(* ignored or nothing is done with it.  Nothing holds the handler in place  *)
(* until it runs.                                                           *)
Deliver(x, s) ==
  IF action[s] \in Dispatchers
  THEN Goto(x, "handler") /\ sig' = [sig EXCEPT ![x] = s] /\ UNCHANGED owed
  ELSE Goto(x, "idle") /\ Forget(x) /\ Answer(s)

Lookup(x) ==
  /\ pc[x] = "lookup"
  /\ IF x \in Threads /\ action[sig[x]] \in {"none", "dfl"}
     THEN Goto(x, "kernel") /\ UNCHANGED <<sig, owed>>
     ELSE Deliver(x, sig[x])
  /\ UNCHANGED <<table, buffer, ended, state, todo, want, sent>>

(* kill makes the system call after all; the signal comes back through      *)
(* os/signal if a handler was installed meanwhile.  (The default action of  *)
(* the kernel is left out.)                                                 *)
KillOutside(t) ==
  /\ pc[t] = "kernel"
  /\ Goto(t, "idle")
  /\ Forget(t)
  /\ buffer' = buffer \cup ({action[sig[t]]} \cap Dispatchers)
  /\ IF action[sig[t]] \in Dispatchers \ buffer THEN UNCHANGED owed ELSE Answer(sig[t])
  /\ UNCHANGED <<table, ended, state, todo, want, sent>>

(* The C handler, which sets flags, and noteSignalDelivery. *)
Handle(x) ==
  /\ pc[x] = "handler"
  /\ Goto(x, "idle")
  /\ Answer(sig[x])
  /\ Forget(x)
  /\ UNCHANGED <<table, buffer, ended, state, todo, want, sent>>

-----------------------------------------------------------------------------
(* The calls of threads.                                                    *)

NewMasks(old, set) == {old \cup set, old \ set, set}

(* pthread_sigmask, under signalStateMu ...                                 *)
SigMask(t) ==
  /\ Free(t)
  /\ \E set \in SUBSET Signals : \E new \in NewMasks(mask[t], set) :
       /\ mask' = [mask EXCEPT ![t] = new]
       /\ todo' = [todo EXCEPT ![t] = pending[t] \ new]
       /\ pending' = [pending EXCEPT ![t] = Kept(t, new)]
  /\ UNCHANGED <<table, buffer, ended, fresh, pc, sig, want, sent, owed>>

(* ... and after it: one signal after the other goes to deliverSignal.      *)
DeliverNext(t) ==
  /\ pc[t] = "idle" /\ todo[t] # {}
  /\ \E s \in todo[t] :
       /\ First(s, todo[t])
       /\ todo' = [todo EXCEPT ![t] = @ \ {s}]
       /\ Deliver(t, s)
  /\ UNCHANGED <<table, buffer, ended, state, want, sent>>

(* Under signalStateMu: a queued signal is taken, or the channel to sleep   *)
(* on.                                                                      *)
TakePending(t, set) ==
  LET available == pending[t] \cap set IN
  IF available # {}
  THEN /\ \E s \in available :
            /\ First(s, available)
            /\ pending' = [pending EXCEPT ![t] = @ \ {s}]
            /\ Answer(s)
       /\ Goto(t, "idle")
       /\ want' = [want EXCEPT ![t] = {}]
       /\ UNCHANGED fresh
  ELSE /\ fresh' = fresh \cup {t}
       /\ want' = [want EXCEPT ![t] = set]
       /\ Goto(t, "wait")
       /\ UNCHANGED <<pending, owed>>

(* sigwait, sigwaitinfo and sigtimedwait. *)
SigWait(t) ==
  /\ Free(t)
  /\ \E set \in SUBSET Signals \ {{}} : TakePending(t, set)
  /\ UNCHANGED <<table, buffer, ended, mask, sig, todo, sent>>

(* The channel is closed: look again. *)
Wake(t) ==
  /\ pc[t] = "wait" /\ t \notin fresh
  /\ TakePending(t, want[t])
  /\ UNCHANGED <<table, buffer, ended, mask, sig, todo, sent>>

(* sigtimedwait gives up, whether its channel was closed meanwhile or not.  *)
Timeout(t) ==
  /\ pc[t] = "wait"
  /\ fresh' = fresh \ {t}
  /\ want' = [want EXCEPT ![t] = {}]
  /\ Goto(t, "idle")
  /\ UNCHANGED <<table, buffer, ended, mask, pending, sig, todo, sent, owed>>

(* The thread is over; nothing removes its mask and its pending set.        *)
End(t) ==
  /\ Free(t)
  /\ ended' = ended \cup {t}
  /\ UNCHANGED <<table, buffer, state, pc, sig, todo, want, sent, owed>>

-----------------------------------------------------------------------------

Step(x) ==
  \/ Lookup(x) \/ Handle(x)
  \/ x \in Dispatchers /\ (Receive(x) \/ Dispatch(x) \/ DispatcherEnds(x))
  \/ x \in Threads /\ (KillOutside(x) \/ DeliverNext(x) \/ Wake(x))

Next ==
  \/ \E x \in Deliverers : Step(x)
  \/ \E s \in Signals : Arrive(s)
  \/ \E t \in Threads :
       \/ SigMask(t) \/ SigWait(t) \/ Timeout(t) \/ End(t)
       \/ \E s \in Signals :
            \/ Kill(t, s)
            \/ \E a \in {"dfl", "ign"} : Uninstall(t, s, a)
            \/ Install(t, s)

Spec == Init /\ [][Next]_vars

(* Go schedules every goroutine, and handlers return.  No thread need call  *)
(* anything, and sigwait need not time out.                                 *)
Fairness == \A x \in Deliverers : WF_vars(Step(x))

FairSpec == Spec /\ Fairness

-----------------------------------------------------------------------------

(* Where a signal that was accepted is; each holds one at most. *)
InHand(x, s) == pc[x] \in {"dispatch", "lookup", "kernel", "handler"} /\ sig[x] = s
Places(s) ==
  {d \in buffer : sig[d] = s} \X {"buffer"}
    \cup {x \in Deliverers : InHand(x, s)} \X {"hand"}
    \cup {t \in Threads : s \in pending[t]} \X {"pending"}
    \cup {t \in Threads : s \in todo[t]} \X {"todo"}

(* A signal that os/signal or kill handed over is answered once: by the     *)
(* handler, by sigwait, or because by then nobody wants it.  It is neither  *)
(* lost nor answered twice, however handlers and masks change on its way.   *)
AnsweredOnce == \A s \in Signals : owed[s] = Cardinality(Places(s))

(* No signal is queued for a thread that no longer blocks it: pthread_-     *)
(* sigmask delivers all it unblocks, and dispatch looks at the same mask.   *)
PendingIsBlocked == \A t \in Threads : pending[t] \subseteq mask[t]

(* sigwait takes the wake channel under the lock under which it has found   *)
(* nothing: nobody sleeps on a channel that is still to be closed while a   *)
(* signal he waits for is queued.                                           *)
NoSleepOverPending ==
  \A t \in fresh : pc[t] = "wait" /\ pending[t] \cap want[t] = {}

Waits(t, s) == pc[t] = "wait" /\ s \in want[t] /\ Blocking(s) = {t}

(* A signal on its way gets to the thread that waits for it, if no other    *)
(* thread blocks it.                                                        *)
SigwaitServed ==
  \A t \in Threads, s \in Signals :
    Waits(t, s) /\ s \in pending[t] \cup {sig[x] : x \in {y \in Deliverers : pc[y] = "dispatch"}}
      ~> ~Waits(t, s)

(* A signal that no thread blocks, not even one that is over, is answered.  *)
UnblockedAnswered ==
  \A s \in Signals : owed[s] > 0 ~> (owed[s] = 0 \/ Blocking(s) # {})

(* The goroutine of a replaced handler ends: closing its channel "lets the  *)
(* dispatcher goroutine exit".                                              *)
ReplacedEnds ==
  \A d \in Dispatchers : owner[d] # Nobody /\ sig[d] \in Signals /\ action[sig[d]] # d ~> pc[d] = "gone"

=============================================================================
