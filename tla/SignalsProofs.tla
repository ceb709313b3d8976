---------------------------- MODULE SignalsProofs ----------------------------
(***************************************************************************)
(* Theorems about two components of the Linux shim that share nothing: the *)
(* dispatch of signals, for any threads, handlers and signals, and the     *)
(* interval timers, for any number of calls of setitimer.                  *)
(***************************************************************************)
EXTENDS Signals, IntervalTimer, FiniteSetTheorems, TLAPS

(* TypeOK, in parts. *)
TableOK ==
  /\ action \in [Signals -> Dispositions \cup Dispatchers]
  /\ open \subseteq Dispatchers
  /\ buffer \subseteq Dispatchers
  /\ owner \in [Dispatchers -> Threads \cup {Nobody}]
  /\ ended \subseteq Threads

StateOK ==
  /\ mask \in [Threads -> SUBSET Signals]
  /\ pending \in [Threads -> SUBSET Signals]
  /\ fresh \subseteq Threads
  /\ todo \in [Threads -> SUBSET Signals]
  /\ want \in [Threads -> SUBSET Signals]

FlowOK ==
  /\ pc \in [Deliverers -> {"idle", "dispatch", "lookup", "kernel", "handler", "wait", "gone"}]
  /\ sig \in [Deliverers -> Signals \cup {0}]
  /\ sent \in 0..MaxSent
  /\ owed \in [Signals -> Int]

(* Whoever works on a signal has one. *)
HasSignal(x) == pc[x] \in {"dispatch", "lookup", "kernel", "handler"} => sig[x] \in Signals

(* Whoever has started has an owner, and nobody else gets a signal.         *)
Started(d) ==
  /\ owner[d] # Nobody => sig[d] \in Signals
  /\ owner[d] = Nobody => d \notin buffer /\ \A s \in Signals : action[s] # d

IInv ==
  /\ TableOK /\ StateOK /\ FlowOK
  /\ \A x \in Deliverers : HasSignal(x)
  /\ \A d \in Dispatchers : Started(d)
  /\ PendingIsBlocked
  /\ NoSleepOverPending

-----------------------------------------------------------------------------

(* The initial state satisfies the invariant. *)
LEMMA InitIInv == Init => IInv
BY SignalsAssumption
   DEF Init, IInv, TableOK, StateOK, FlowOK, HasSignal, Started, Deliverers, Dispositions,
       PendingIsBlocked, NoSleepOverPending

(* Every step keeps it, action by action. *)
LEMMA NextIInv == IInv /\ [Next]_vars => IInv'
<1> SUFFICES ASSUME IInv, [Next]_vars PROVE IInv'
  OBVIOUS
<1> USE SignalsAssumption DEF Deliverers, table, state
<1>1. CASE UNCHANGED vars
  BY <1>1 DEF vars, IInv, TableOK, StateOK, FlowOK, HasSignal, Started, PendingIsBlocked, NoSleepOverPending
<1>2. ASSUME NEW d \in Dispatchers, Receive(d) PROVE IInv'
  <2>1. TableOK'
    BY <1>2 DEF Receive, Goto, IInv, TableOK, FlowOK, HasSignal
  <2>2. StateOK'
    BY <1>2 DEF Receive, Goto, IInv, StateOK, TableOK, FlowOK
  <2>3. FlowOK'
    BY <1>2 DEF Receive, Goto, IInv, StateOK, TableOK, FlowOK, HasSignal
  <2>4. ASSUME NEW y \in Deliverers PROVE HasSignal(y)'
    BY <1>2 DEF Receive, Goto, IInv, TableOK, StateOK, FlowOK, HasSignal, Started
  <2>5. ASSUME NEW e \in Dispatchers PROVE Started(e)'
    BY <1>2 DEF Receive, Goto, IInv, TableOK, StateOK, FlowOK, HasSignal, Started
  <2>6. PendingIsBlocked'
    BY <1>2 DEF Receive, Goto, IInv, StateOK, TableOK, FlowOK, PendingIsBlocked
  <2>7. NoSleepOverPending'
    BY <1>2 DEF Receive, Goto, IInv, StateOK, FlowOK, NoSleepOverPending
  <2> QED
    BY <2>1, <2>2, <2>3, <2>4, <2>5, <2>6, <2>7 DEF IInv
<1>3. ASSUME NEW d \in Dispatchers, Dispatch(d) PROVE IInv'
  <2>1. TableOK'
    BY <1>3 DEF Dispatch, Route, Targets, Blocking, Owner, Queue, Goto, IInv, TableOK, FlowOK, HasSignal
  <2>2. StateOK'
    BY <1>3 DEF Dispatch, Route, Targets, Blocking, Owner, Queue, Goto, IInv, StateOK, TableOK, FlowOK
  <2>3. FlowOK'
    BY <1>3 DEF Dispatch, Route, Targets, Blocking, Owner, Queue, Goto, IInv, StateOK, TableOK, FlowOK, HasSignal
  <2>4. ASSUME NEW y \in Deliverers PROVE HasSignal(y)'
    BY <1>3 DEF Dispatch, Route, Targets, Blocking, Owner, Queue, Goto, IInv, TableOK, StateOK, FlowOK, HasSignal, Started
  <2>5. ASSUME NEW e \in Dispatchers PROVE Started(e)'
    BY <1>3 DEF Dispatch, Route, Targets, Blocking, Owner, Queue, Goto, IInv, TableOK, StateOK, FlowOK, HasSignal, Started
  <2>6. PendingIsBlocked'
    BY <1>3 DEF Dispatch, Route, Targets, Blocking, Owner, Queue, Goto, IInv, StateOK, TableOK, FlowOK, PendingIsBlocked
  <2>7. NoSleepOverPending'
    BY <1>3 DEF Dispatch, Route, Targets, Blocking, Owner, Queue, Goto, IInv, StateOK, FlowOK, NoSleepOverPending
  <2> QED
    BY <2>1, <2>2, <2>3, <2>4, <2>5, <2>6, <2>7 DEF IInv
<1>4. ASSUME NEW d \in Dispatchers, DispatcherEnds(d) PROVE IInv'
  <2>1. TableOK'
    BY <1>4 DEF DispatcherEnds, Goto, IInv, TableOK, FlowOK, HasSignal
  <2>2. StateOK'
    BY <1>4 DEF DispatcherEnds, Goto, IInv, StateOK, TableOK, FlowOK
  <2>3. FlowOK'
    BY <1>4 DEF DispatcherEnds, Goto, IInv, StateOK, TableOK, FlowOK, HasSignal
  <2>4. ASSUME NEW y \in Deliverers PROVE HasSignal(y)'
    BY <1>4 DEF DispatcherEnds, Goto, IInv, TableOK, StateOK, FlowOK, HasSignal, Started
  <2>5. ASSUME NEW e \in Dispatchers PROVE Started(e)'
    BY <1>4 DEF DispatcherEnds, Goto, IInv, TableOK, StateOK, FlowOK, HasSignal, Started
  <2>6. PendingIsBlocked'
    BY <1>4 DEF DispatcherEnds, Goto, IInv, StateOK, TableOK, FlowOK, PendingIsBlocked
  <2>7. NoSleepOverPending'
    BY <1>4 DEF DispatcherEnds, Goto, IInv, StateOK, FlowOK, NoSleepOverPending
  <2> QED
    BY <2>1, <2>2, <2>3, <2>4, <2>5, <2>6, <2>7 DEF IInv
<1>5. ASSUME NEW x \in Deliverers, Lookup(x) PROVE IInv'
  <2>1. TableOK'
    BY <1>5 DEF Lookup, Deliver, Forget, Answer, Goto, IInv, TableOK, FlowOK, HasSignal
  <2>2. StateOK'
    BY <1>5 DEF Lookup, Deliver, Forget, Answer, Goto, IInv, StateOK, TableOK, FlowOK
  <2>3. FlowOK'
    BY <1>5 DEF Lookup, Deliver, Forget, Answer, Goto, IInv, StateOK, TableOK, FlowOK, HasSignal
  <2>4. ASSUME NEW y \in Deliverers PROVE HasSignal(y)'
    BY <1>5 DEF Lookup, Deliver, Forget, Answer, Goto, IInv, TableOK, StateOK, FlowOK, HasSignal, Started
  <2>5. ASSUME NEW e \in Dispatchers PROVE Started(e)'
    BY <1>5 DEF Lookup, Deliver, Forget, Answer, Goto, IInv, TableOK, StateOK, FlowOK, HasSignal, Started
  <2>6. PendingIsBlocked'
    BY <1>5 DEF Lookup, Deliver, Forget, Answer, Goto, IInv, StateOK, TableOK, FlowOK, PendingIsBlocked
  <2>7. NoSleepOverPending'
    BY <1>5 DEF Lookup, Deliver, Forget, Answer, Goto, IInv, StateOK, FlowOK, NoSleepOverPending
  <2> QED
    BY <2>1, <2>2, <2>3, <2>4, <2>5, <2>6, <2>7 DEF IInv
<1>6. ASSUME NEW x \in Deliverers, Handle(x) PROVE IInv'
  <2>1. TableOK'
    BY <1>6 DEF Handle, Forget, Answer, Goto, IInv, TableOK, FlowOK, HasSignal
  <2>2. StateOK'
    BY <1>6 DEF Handle, Forget, Answer, Goto, IInv, StateOK, TableOK, FlowOK
  <2>3. FlowOK'
    <3>1. sig[x] \in Signals
      BY <1>6 DEF Handle, IInv, HasSignal
    <3>2. (sig \in [Deliverers -> Signals \cup {0}])'
      BY <1>6 DEF Handle, Forget, IInv, FlowOK
    <3>3. (owed \in [Signals -> Int])'
      <4>1. owed' = [owed EXCEPT ![sig[x]] = owed[sig[x]] - 1]
        BY <1>6 DEF Handle, Answer
      <4>2. owed[sig[x]] - 1 \in Int
        <5>1. owed[sig[x]] \in Int
          BY <3>1, Zenon DEF IInv, FlowOK
        <5> QED
          BY <5>1, SMT
      <4> QED
        BY <3>1, <4>1, <4>2 DEF IInv, FlowOK
    <3> QED
      BY <1>6, <3>2, <3>3 DEF Handle, Goto, IInv, FlowOK
  <2>4. ASSUME NEW y \in Deliverers PROVE HasSignal(y)'
    BY <1>6 DEF Handle, Forget, Answer, Goto, IInv, TableOK, StateOK, FlowOK, HasSignal, Started
  <2>5. ASSUME NEW e \in Dispatchers PROVE Started(e)'
    BY <1>6 DEF Handle, Forget, Answer, Goto, IInv, TableOK, StateOK, FlowOK, HasSignal, Started
  <2>6. PendingIsBlocked'
    BY <1>6 DEF Handle, Forget, Answer, Goto, IInv, StateOK, TableOK, FlowOK, PendingIsBlocked
  <2>7. NoSleepOverPending'
    BY <1>6 DEF Handle, Forget, Answer, Goto, IInv, StateOK, FlowOK, NoSleepOverPending
  <2> QED
    BY <2>1, <2>2, <2>3, <2>4, <2>5, <2>6, <2>7 DEF IInv
<1>7. ASSUME NEW t \in Threads, KillOutside(t) PROVE IInv'
  <2>1. TableOK'
    BY <1>7 DEF KillOutside, Forget, Answer, Goto, IInv, TableOK, FlowOK, HasSignal
  <2>2. StateOK'
    BY <1>7 DEF KillOutside, Forget, Answer, Goto, IInv, StateOK, TableOK, FlowOK
  <2>3. FlowOK'
    BY <1>7 DEF KillOutside, Forget, Answer, Goto, IInv, StateOK, TableOK, FlowOK, HasSignal
  <2>4. ASSUME NEW y \in Deliverers PROVE HasSignal(y)'
    BY <1>7 DEF KillOutside, Forget, Answer, Goto, IInv, TableOK, StateOK, FlowOK, HasSignal, Started
  <2>5. ASSUME NEW e \in Dispatchers PROVE Started(e)'
    <3>1. sig[t] \in Signals
      BY <1>7 DEF KillOutside, IInv, HasSignal
    <3>2. buffer' = buffer \cup ({action[sig[t]]} \cap Dispatchers)
      BY <1>7 DEF KillOutside
    <3>3. sig'[e] = sig[e] /\ UNCHANGED <<action, owner>>
      BY <1>7 DEF KillOutside, Forget, IInv, FlowOK
    <3> QED
      BY <3>1, <3>2, <3>3 DEF IInv, Started
  <2>6. PendingIsBlocked'
    BY <1>7 DEF KillOutside, Forget, Answer, Goto, IInv, StateOK, TableOK, FlowOK, PendingIsBlocked
  <2>7. NoSleepOverPending'
    BY <1>7 DEF KillOutside, Forget, Answer, Goto, IInv, StateOK, FlowOK, NoSleepOverPending
  <2> QED
    BY <2>1, <2>2, <2>3, <2>4, <2>5, <2>6, <2>7 DEF IInv
<1>8. ASSUME NEW t \in Threads, DeliverNext(t) PROVE IInv'
  <2>1. TableOK'
    BY <1>8 DEF DeliverNext, First, Deliver, Forget, Answer, Goto, IInv, TableOK, FlowOK, HasSignal
  <2>2. StateOK'
    BY <1>8 DEF DeliverNext, First, Deliver, Forget, Answer, Goto, IInv, StateOK, TableOK, FlowOK
  <2>3. FlowOK'
    BY <1>8 DEF DeliverNext, First, Deliver, Forget, Answer, Goto, IInv, StateOK, TableOK, FlowOK, HasSignal
  <2>4. ASSUME NEW y \in Deliverers PROVE HasSignal(y)'
    BY <1>8 DEF DeliverNext, First, Deliver, Forget, Answer, Goto, IInv, TableOK, StateOK, FlowOK, HasSignal, Started
  <2>5. ASSUME NEW e \in Dispatchers PROVE Started(e)'
    BY <1>8 DEF DeliverNext, First, Deliver, Forget, Answer, Goto, IInv, TableOK, StateOK, FlowOK, HasSignal, Started
  <2>6. PendingIsBlocked'
    BY <1>8 DEF DeliverNext, First, Deliver, Forget, Answer, Goto, IInv, StateOK, TableOK, FlowOK, PendingIsBlocked
  <2>7. NoSleepOverPending'
    BY <1>8 DEF DeliverNext, First, Deliver, Forget, Answer, Goto, IInv, StateOK, FlowOK, NoSleepOverPending
  <2> QED
    BY <2>1, <2>2, <2>3, <2>4, <2>5, <2>6, <2>7 DEF IInv
<1>9. ASSUME NEW t \in Threads, Wake(t) PROVE IInv'
  <2>1. TableOK'
    BY <1>9 DEF Wake, TakePending, First, Answer, Goto, IInv, TableOK, FlowOK, HasSignal
  <2>2. StateOK'
    BY <1>9 DEF Wake, TakePending, First, Answer, Goto, IInv, StateOK, TableOK, FlowOK
  <2>3. FlowOK'
    BY <1>9 DEF Wake, TakePending, First, Answer, Goto, IInv, StateOK, TableOK, FlowOK, HasSignal
  <2>4. ASSUME NEW y \in Deliverers PROVE HasSignal(y)'
    BY <1>9 DEF Wake, TakePending, First, Answer, Goto, IInv, TableOK, StateOK, FlowOK, HasSignal, Started
  <2>5. ASSUME NEW e \in Dispatchers PROVE Started(e)'
    BY <1>9 DEF Wake, TakePending, First, Answer, Goto, IInv, TableOK, StateOK, FlowOK, HasSignal, Started
  <2>6. PendingIsBlocked'
    BY <1>9 DEF Wake, TakePending, First, Answer, Goto, IInv, StateOK, TableOK, FlowOK, PendingIsBlocked
  <2>7. NoSleepOverPending'
    BY <1>9 DEF Wake, TakePending, First, Answer, Goto, IInv, StateOK, FlowOK, NoSleepOverPending
  <2> QED
    BY <2>1, <2>2, <2>3, <2>4, <2>5, <2>6, <2>7 DEF IInv
<1>10. ASSUME NEW s \in Signals, Arrive(s) PROVE IInv'
  <2>1. TableOK'
    BY <1>10 DEF Arrive, Accept, IInv, TableOK, FlowOK, HasSignal
  <2>2. StateOK'
    BY <1>10 DEF Arrive, Accept, IInv, StateOK, TableOK, FlowOK
  <2>3. FlowOK'
    BY <1>10 DEF Arrive, Accept, IInv, StateOK, TableOK, FlowOK, HasSignal
  <2>4. ASSUME NEW y \in Deliverers PROVE HasSignal(y)'
    BY <1>10 DEF Arrive, Accept, IInv, TableOK, StateOK, FlowOK, HasSignal, Started
  <2>5. ASSUME NEW e \in Dispatchers PROVE Started(e)'
    BY <1>10 DEF Arrive, Accept, IInv, TableOK, StateOK, FlowOK, HasSignal, Started
  <2>6. PendingIsBlocked'
    BY <1>10 DEF Arrive, Accept, IInv, StateOK, TableOK, FlowOK, PendingIsBlocked
  <2>7. NoSleepOverPending'
    BY <1>10 DEF Arrive, Accept, IInv, StateOK, FlowOK, NoSleepOverPending
  <2> QED
    BY <2>1, <2>2, <2>3, <2>4, <2>5, <2>6, <2>7 DEF IInv
<1>11. ASSUME NEW t \in Threads, SigMask(t) PROVE IInv'
  <2>1. TableOK'
    BY <1>11 DEF SigMask, Free, NewMasks, Kept, IInv, TableOK, FlowOK, HasSignal
  <2>2. StateOK'
    BY <1>11 DEF SigMask, Free, NewMasks, Kept, IInv, StateOK, TableOK, FlowOK
  <2>3. FlowOK'
    BY <1>11 DEF SigMask, Free, NewMasks, Kept, IInv, StateOK, TableOK, FlowOK, HasSignal
  <2>4. ASSUME NEW y \in Deliverers PROVE HasSignal(y)'
    BY <1>11 DEF SigMask, Free, NewMasks, Kept, IInv, TableOK, StateOK, FlowOK, HasSignal, Started
  <2>5. ASSUME NEW e \in Dispatchers PROVE Started(e)'
    BY <1>11 DEF SigMask, Free, NewMasks, Kept, IInv, TableOK, StateOK, FlowOK, HasSignal, Started
  <2>6. PendingIsBlocked'
    BY <1>11 DEF SigMask, Free, NewMasks, Kept, IInv, StateOK, TableOK, FlowOK, PendingIsBlocked
  <2>7. NoSleepOverPending'
    BY <1>11 DEF SigMask, Free, NewMasks, Kept, IInv, StateOK, FlowOK, NoSleepOverPending
  <2> QED
    BY <2>1, <2>2, <2>3, <2>4, <2>5, <2>6, <2>7 DEF IInv
<1>12. ASSUME NEW t \in Threads, SigWait(t) PROVE IInv'
  <2>1. TableOK'
    BY <1>12 DEF SigWait, Free, TakePending, First, Answer, Goto, IInv, TableOK, FlowOK, HasSignal
  <2>2. StateOK'
    <3>1. PICK set \in SUBSET Signals \ {{}} : TakePending(t, set)
      BY <1>12 DEF SigWait
    <3> QED
      <4>1. (want \in [Threads -> SUBSET Signals])'
        BY <3>1 DEF TakePending, IInv, StateOK
      <4>2. (pending \in [Threads -> SUBSET Signals] /\ fresh \subseteq Threads)'
        BY <3>1 DEF TakePending, IInv, StateOK
      <4> QED
        BY <1>12, <4>1, <4>2 DEF SigWait, IInv, StateOK
  <2>3. FlowOK'
    BY <1>12 DEF SigWait, Free, TakePending, First, Answer, Goto, IInv, StateOK, TableOK, FlowOK, HasSignal
  <2>4. ASSUME NEW y \in Deliverers PROVE HasSignal(y)'
    BY <1>12 DEF SigWait, Free, TakePending, First, Answer, Goto, IInv, TableOK, StateOK, FlowOK, HasSignal, Started
  <2>5. ASSUME NEW e \in Dispatchers PROVE Started(e)'
    BY <1>12 DEF SigWait, Free, TakePending, First, Answer, Goto, IInv, TableOK, StateOK, FlowOK, HasSignal, Started
  <2>6. PendingIsBlocked'
    BY <1>12 DEF SigWait, Free, TakePending, First, Answer, Goto, IInv, StateOK, TableOK, FlowOK, PendingIsBlocked
  <2>7. NoSleepOverPending'
    BY <1>12 DEF SigWait, Free, TakePending, First, Answer, Goto, IInv, StateOK, FlowOK, NoSleepOverPending
  <2> QED
    BY <2>1, <2>2, <2>3, <2>4, <2>5, <2>6, <2>7 DEF IInv
<1>13. ASSUME NEW t \in Threads, Timeout(t) PROVE IInv'
  <2>1. TableOK'
    BY <1>13 DEF Timeout, Goto, IInv, TableOK, FlowOK, HasSignal
  <2>2. StateOK'
    BY <1>13 DEF Timeout, Goto, IInv, StateOK, TableOK, FlowOK
  <2>3. FlowOK'
    BY <1>13 DEF Timeout, Goto, IInv, StateOK, TableOK, FlowOK, HasSignal
  <2>4. ASSUME NEW y \in Deliverers PROVE HasSignal(y)'
    BY <1>13 DEF Timeout, Goto, IInv, TableOK, StateOK, FlowOK, HasSignal, Started
  <2>5. ASSUME NEW e \in Dispatchers PROVE Started(e)'
    BY <1>13 DEF Timeout, Goto, IInv, TableOK, StateOK, FlowOK, HasSignal, Started
  <2>6. PendingIsBlocked'
    BY <1>13 DEF Timeout, Goto, IInv, StateOK, TableOK, FlowOK, PendingIsBlocked
  <2>7. NoSleepOverPending'
    BY <1>13 DEF Timeout, Goto, IInv, StateOK, FlowOK, NoSleepOverPending
  <2> QED
    BY <2>1, <2>2, <2>3, <2>4, <2>5, <2>6, <2>7 DEF IInv
<1>14. ASSUME NEW t \in Threads, End(t) PROVE IInv'
  <2>1. TableOK'
    BY <1>14 DEF End, Free, IInv, TableOK, FlowOK, HasSignal
  <2>2. StateOK'
    BY <1>14 DEF End, Free, IInv, StateOK, TableOK, FlowOK
  <2>3. FlowOK'
    BY <1>14 DEF End, Free, IInv, StateOK, TableOK, FlowOK, HasSignal
  <2>4. ASSUME NEW y \in Deliverers PROVE HasSignal(y)'
    BY <1>14 DEF End, Free, IInv, TableOK, StateOK, FlowOK, HasSignal, Started
  <2>5. ASSUME NEW e \in Dispatchers PROVE Started(e)'
    BY <1>14 DEF End, Free, IInv, TableOK, StateOK, FlowOK, HasSignal, Started
  <2>6. PendingIsBlocked'
    BY <1>14 DEF End, Free, IInv, StateOK, TableOK, FlowOK, PendingIsBlocked
  <2>7. NoSleepOverPending'
    BY <1>14 DEF End, Free, IInv, StateOK, FlowOK, NoSleepOverPending
  <2> QED
    BY <2>1, <2>2, <2>3, <2>4, <2>5, <2>6, <2>7 DEF IInv
<1>15. ASSUME NEW t \in Threads, NEW s \in Signals, Kill(t, s) PROVE IInv'
  <2>1. TableOK'
    BY <1>15 DEF Kill, Free, Route, Targets, Blocking, Owner, Queue, Goto, IInv, TableOK, FlowOK, HasSignal
  <2>2. StateOK'
    BY <1>15 DEF Kill, Free, Route, Targets, Blocking, Owner, Queue, Goto, IInv, StateOK, TableOK, FlowOK
  <2>3. FlowOK'
    <3>1. t \in Deliverers /\ sent' \in 0..MaxSent
      BY <1>15, SignalsAssumption DEF Kill, IInv, FlowOK, Deliverers
    <3>2. pc' \in [Deliverers -> {"idle", "dispatch", "lookup", "kernel", "handler", "wait", "gone"}]
      BY <1>15, <3>1 DEF Kill, Route, Goto, IInv, FlowOK
    <3>3. sig' \in [Deliverers -> Signals \cup {0}]
      BY <1>15, <3>1 DEF Kill, Route, IInv, FlowOK
    <3>4. owed' \in [Signals -> Int]
      BY <1>15 DEF Kill, Route, IInv, FlowOK
    <3> QED
      BY <3>1, <3>2, <3>3, <3>4 DEF FlowOK
  <2>4. ASSUME NEW y \in Deliverers PROVE HasSignal(y)'
    BY <1>15 DEF Kill, Free, Route, Targets, Blocking, Owner, Queue, Goto, IInv, TableOK, StateOK, FlowOK, HasSignal, Started
  <2>5. ASSUME NEW e \in Dispatchers PROVE Started(e)'
    BY <1>15 DEF Kill, Free, Route, Targets, Blocking, Owner, Queue, Goto, IInv, TableOK, StateOK, FlowOK, HasSignal, Started
  <2>6. PendingIsBlocked'
    BY <1>15 DEF Kill, Free, Route, Targets, Blocking, Owner, Queue, Goto, IInv, StateOK, TableOK, FlowOK, PendingIsBlocked
  <2>7. NoSleepOverPending'
    BY <1>15 DEF Kill, Free, Route, Targets, Blocking, Owner, Queue, Goto, IInv, StateOK, FlowOK, NoSleepOverPending
  <2> QED
    BY <2>1, <2>2, <2>3, <2>4, <2>5, <2>6, <2>7 DEF IInv
<1>16. ASSUME NEW t \in Threads, NEW s \in Signals, NEW a \in {"dfl", "ign"}, Uninstall(t, s, a) PROVE IInv'
  <2>1. TableOK'
    BY <1>16 DEF Uninstall, Free, Retired, Dispositions, IInv, TableOK, FlowOK, HasSignal
  <2>2. StateOK'
    BY <1>16 DEF Uninstall, Free, Retired, Dispositions, IInv, StateOK, TableOK, FlowOK
  <2>3. FlowOK'
    BY <1>16 DEF Uninstall, Free, Retired, Dispositions, IInv, StateOK, TableOK, FlowOK, HasSignal
  <2>4. ASSUME NEW y \in Deliverers PROVE HasSignal(y)'
    BY <1>16 DEF Uninstall, Free, Retired, Dispositions, IInv, TableOK, StateOK, FlowOK, HasSignal, Started
  <2>5. ASSUME NEW e \in Dispatchers PROVE Started(e)'
    BY <1>16 DEF Uninstall, Free, Retired, Dispositions, IInv, TableOK, StateOK, FlowOK, HasSignal, Started
  <2>6. PendingIsBlocked'
    BY <1>16 DEF Uninstall, Free, Retired, Dispositions, IInv, StateOK, TableOK, FlowOK, PendingIsBlocked
  <2>7. NoSleepOverPending'
    BY <1>16 DEF Uninstall, Free, Retired, Dispositions, IInv, StateOK, FlowOK, NoSleepOverPending
  <2> QED
    BY <2>1, <2>2, <2>3, <2>4, <2>5, <2>6, <2>7 DEF IInv
<1>17. ASSUME NEW t \in Threads, NEW s \in Signals, Install(t, s) PROVE IInv'
  <2>1. TableOK'
    BY <1>17 DEF Install, Free, Retired, IInv, TableOK, FlowOK, HasSignal
  <2>2. StateOK'
    BY <1>17 DEF Install, Free, Retired, IInv, StateOK, TableOK, FlowOK
  <2>3. FlowOK'
    BY <1>17 DEF Install, Free, Retired, IInv, StateOK, TableOK, FlowOK, HasSignal
  <2>4. ASSUME NEW y \in Deliverers PROVE HasSignal(y)'
    BY <1>17 DEF Install, Free, Retired, IInv, TableOK, StateOK, FlowOK, HasSignal, Started
  <2>5. ASSUME NEW e \in Dispatchers PROVE Started(e)'
    BY <1>17 DEF Install, Free, Retired, IInv, TableOK, StateOK, FlowOK, HasSignal, Started
  <2>6. PendingIsBlocked'
    BY <1>17 DEF Install, Free, Retired, IInv, StateOK, TableOK, FlowOK, PendingIsBlocked
  <2>7. NoSleepOverPending'
    BY <1>17 DEF Install, Free, Retired, IInv, StateOK, FlowOK, NoSleepOverPending
  <2> QED
    BY <2>1, <2>2, <2>3, <2>4, <2>5, <2>6, <2>7 DEF IInv
<1> QED
  BY <1>1, <1>2, <1>3, <1>4, <1>5, <1>6, <1>7, <1>8, <1>9, <1>10, <1>11,
     <1>12, <1>13, <1>14, <1>15, <1>16, <1>17 DEF Next, Step

(* The invariant holds of every reachable state. *)
THEOREM IInvHolds == Spec => []IInv
BY InitIInv, NextIInv, PTL DEF Spec

-----------------------------------------------------------------------------

(* The variables keep their types. *)
THEOREM TypeCorrect == Spec => []TypeOK
<1>1. IInv => TypeOK
  BY DEF IInv, TableOK, StateOK, FlowOK, TypeOK
<1> QED
  BY <1>1, IInvHolds, PTL

(* pthread_sigmask delivers all that it unblocks: nothing is left queued    *)
(* for a thread that does not block it, however dispatchers race with it.   *)
THEOREM NothingStuck == Spec => []PendingIsBlocked
<1>1. IInv => PendingIsBlocked
  BY DEF IInv
<1> QED
  BY <1>1, IInvHolds, PTL

(* sigwait never misses a wake-up: who sleeps on a channel that is still    *)
(* open has nothing queued that it waits for.                               *)
THEOREM NoLostWakeup == Spec => []NoSleepOverPending
<1>1. IInv => NoSleepOverPending
  BY DEF IInv
<1> QED
  BY <1>1, IInvHolds, PTL

-----------------------------------------------------------------------------
(* The four places where a signal s can be, each a set of its own.          *)

Buffered(s) == {d \in buffer : sig[d] = s}
Held(s) == {x \in Deliverers : InHand(x, s)}
Queued(s) == {t \in Threads : s \in pending[t]}
Due(s) == {t \in Threads : s \in todo[t]}

(* The signals under way are finitely many, and owed counts them.           *)
Counted(s) ==
  /\ IsFiniteSet(Buffered(s)) /\ IsFiniteSet(Held(s))
  /\ IsFiniteSet(Queued(s)) /\ IsFiniteSet(Due(s))
  /\ owed[s] = Cardinality(Buffered(s)) + Cardinality(Held(s))
                 + Cardinality(Queued(s)) + Cardinality(Due(s))

(* A dispatcher that has not started is idle, and a handler is entered for  *)
(* the signal its dispatcher is for: no signal changes its number.          *)
Unstarted(d) == owner[d] = Nobody => pc[d] = "idle"
OwnSignal(s) == action[s] \in Dispatchers => sig[action[s]] = s

CountInv ==
  /\ \A d \in Dispatchers : Unstarted(d)
  /\ \A s \in Signals : OwnSignal(s) /\ Counted(s)

-----------------------------------------------------------------------------

(* A set with a tag has as many elements as without.                        *)
LEMMA Tagged ==
  ASSUME NEW S, NEW k, IsFiniteSet(S)
  PROVE  IsFiniteSet(S \X {k}) /\ Cardinality(S \X {k}) = Cardinality(S)
<1>1. IsFiniteSet({k}) /\ Cardinality({k}) = 1
  BY FS_Singleton
<1>2. Cardinality(S) \in Nat
  BY FS_CardinalityType
<1>3. IsFiniteSet(S \X {k}) /\ Cardinality(S \X {k}) = Cardinality(S) * Cardinality({k})
  BY <1>1, FS_Product
<1>4. Cardinality(S) * 1 = Cardinality(S)
  BY <1>2
<1> QED
  BY <1>1, <1>3, <1>4

(* Disjoint finite sets are counted one after the other.                    *)
LEMMA Disjoint ==
  ASSUME NEW S, NEW T, IsFiniteSet(S), IsFiniteSet(T), S \cap T = {}
  PROVE  IsFiniteSet(S \cup T) /\ Cardinality(S \cup T) = Cardinality(S) + Cardinality(T)
<1>1. Cardinality({}) = 0 /\ Cardinality(S) \in Nat /\ Cardinality(T) \in Nat
  BY FS_EmptySet, FS_CardinalityType
<1>2. /\ IsFiniteSet(S \cup T)
      /\ Cardinality(S \cup T) = Cardinality(S) + Cardinality(T) - Cardinality(S \cap T)
  BY FS_Union
<1>3. Cardinality(S \cap T) = 0
  BY <1>1, Zenon
<1> QED
  BY <1>1, <1>2, <1>3

(* The places of a signal are counted one set after the other.              *)
LEMMA PlacesCounted ==
  ASSUME NEW s, Counted(s)
  PROVE  owed[s] = Cardinality(Places(s))
<1> DEFINE B == Buffered(s) \X {"buffer"}
           H == Held(s) \X {"hand"}
           Q == Queued(s) \X {"pending"}
           D == Due(s) \X {"todo"}
<1>1. /\ IsFiniteSet(B) /\ Cardinality(B) = Cardinality(Buffered(s))
      /\ IsFiniteSet(H) /\ Cardinality(H) = Cardinality(Held(s))
      /\ IsFiniteSet(Q) /\ Cardinality(Q) = Cardinality(Queued(s))
      /\ IsFiniteSet(D) /\ Cardinality(D) = Cardinality(Due(s))
  BY Tagged DEF Counted
<1>2. Places(s) = ((B \cup H) \cup Q) \cup D
  BY DEF Places, Buffered, Held, Queued, Due
<1>3. B \cap H = {} /\ (B \cup H) \cap Q = {} /\ ((B \cup H) \cup Q) \cap D = {}
  OBVIOUS
<1> HIDE DEF B, H, Q, D
<1>4. IsFiniteSet(B \cup H) /\ Cardinality(B \cup H) = Cardinality(B) + Cardinality(H)
  BY <1>1, <1>3, Disjoint
<1>5. /\ IsFiniteSet((B \cup H) \cup Q)
      /\ Cardinality((B \cup H) \cup Q) = Cardinality(B \cup H) + Cardinality(Q)
  BY <1>1, <1>3, <1>4, Disjoint
<1>6. Cardinality(((B \cup H) \cup Q) \cup D) = Cardinality((B \cup H) \cup Q) + Cardinality(D)
  BY <1>1, <1>3, <1>5, Disjoint
<1> QED
  BY <1>1, <1>2, <1>4, <1>5, <1>6 DEF Counted

(* T has n elements more than S: none, one, or one less.                    *)
Changed(S, T, n) ==
  \/ n = 0 /\ T = S
  \/ n = 1 /\ \E x : x \notin S /\ T = S \cup {x}
  \/ n = -1 /\ \E x \in S : T = S \ {x}

(* What Changed says is so. *)
LEMMA ChangedCard ==
  ASSUME NEW S, NEW T, NEW n, IsFiniteSet(S), Changed(S, T, n)
  PROVE  /\ IsFiniteSet(T) /\ n \in Int
         /\ Cardinality(S) \in Nat /\ Cardinality(T) = Cardinality(S) + n
<1>1. Cardinality(S) \in Nat
  BY FS_CardinalityType
<1>2. CASE n = 0 /\ T = S
  BY <1>1, <1>2
<1>3. CASE n = 1 /\ \E x : x \notin S /\ T = S \cup {x}
  BY <1>1, <1>3, FS_AddElement
<1>4. CASE n = -1 /\ \E x \in S : T = S \ {x}
  <2>1. PICK x \in S : T = S \ {x}
    BY <1>4
  <2>2. IsFiniteSet(S \ {x}) /\ Cardinality(S \ {x}) = Cardinality(S) - 1
    BY FS_RemoveElement
  <2>3. IsFiniteSet(T) /\ Cardinality(T) = Cardinality(S) - 1
    BY <2>1, <2>2, Zenon
  <2> QED
    BY <1>1, <1>4, <2>3
<1> QED
  BY <1>2, <1>3, <1>4 DEF Changed

(* A signal stays counted if owed follows the changes of its four places.   *)
LEMMA CountedAfter ==
  ASSUME NEW r, Counted(r), NEW b, NEW h, NEW q, NEW d,
         Changed(Buffered(r), Buffered(r)', b), Changed(Held(r), Held(r)', h),
         Changed(Queued(r), Queued(r)', q), Changed(Due(r), Due(r)', d),
         owed'[r] = owed[r] + (b + h + q + d)
  PROVE  Counted(r)'
<1>1. /\ IsFiniteSet(Buffered(r)') /\ b \in Int
      /\ Cardinality(Buffered(r)) \in Nat
      /\ Cardinality(Buffered(r)') = Cardinality(Buffered(r)) + b
  BY ChangedCard DEF Counted
<1>2. /\ IsFiniteSet(Held(r)') /\ h \in Int
      /\ Cardinality(Held(r)) \in Nat
      /\ Cardinality(Held(r)') = Cardinality(Held(r)) + h
  BY ChangedCard DEF Counted
<1>3. /\ IsFiniteSet(Queued(r)') /\ q \in Int
      /\ Cardinality(Queued(r)) \in Nat
      /\ Cardinality(Queued(r)') = Cardinality(Queued(r)) + q
  BY ChangedCard DEF Counted
<1>4. /\ IsFiniteSet(Due(r)') /\ d \in Int
      /\ Cardinality(Due(r)) \in Nat
      /\ Cardinality(Due(r)') = Cardinality(Due(r)) + d
  BY ChangedCard DEF Counted
<1>5. owed[r] = Cardinality(Buffered(r)) + Cardinality(Held(r))
                  + Cardinality(Queued(r)) + Cardinality(Due(r))
  BY DEF Counted
<1>6. owed'[r] = Cardinality(Buffered(r)') + Cardinality(Held(r)')
                   + Cardinality(Queued(r)') + Cardinality(Due(r)')
  BY <1>1, <1>2, <1>3, <1>4, <1>5
<1> QED
  BY <1>1, <1>2, <1>3, <1>4, <1>6 DEF Counted

(* Nothing happened to it. *)
LEMMA CountedStill ==
  ASSUME NEW r, Counted(r), Buffered(r)' = Buffered(r), Held(r)' = Held(r),
         Queued(r)' = Queued(r), Due(r)' = Due(r), owed'[r] = owed[r]
  PROVE  Counted(r)'
BY DEF Counted

LEMMA InitCountInv == Init => CountInv  \* nothing is under way at first
<1> SUFFICES ASSUME Init PROVE CountInv
  OBVIOUS
<1>1. ASSUME NEW s \in Signals PROVE Counted(s)
  <2>1. Buffered(s) = {} /\ Held(s) = {} /\ Queued(s) = {} /\ Due(s) = {}
    BY DEF Init, Buffered, Held, Queued, Due, InHand
  <2>2. owed[s] = 0
    BY DEF Init
  <2> QED
    BY <2>1, <2>2, FS_EmptySet DEF Counted
<1>2. \A d \in Dispatchers : Unstarted(d)
  BY DEF Init, Unstarted, Deliverers
<1>3. \A s \in Signals : OwnSignal(s)
  BY SignalsAssumption DEF Init, OwnSignal, Dispositions
<1> QED
  BY <1>1, <1>2, <1>3 DEF CountInv

(* Every step of the actions that move no signal keeps the count.           *)
LEMMA QuietCounts ==
  ASSUME IInv, CountInv, NEW r \in Signals,
         \/ \E d \in Dispatchers : DispatcherEnds(d)
         \/ \E t \in Threads : Timeout(t) \/ End(t)
         \/ \E t \in Threads, s \in Signals, a \in {"dfl", "ign"} : Uninstall(t, s, a)
         \/ UNCHANGED vars
  PROVE  Counted(r)'
<1> USE DEF Buffered, Held, Queued, Due, InHand, Goto, IInv, FlowOK, table, state
<1>1. Counted(r)
  BY DEF CountInv
<1>2. UNCHANGED <<buffer, sig, pending, todo, owed>>
  BY DEF DispatcherEnds, Timeout, End, Uninstall, vars
<1>3. Held(r)' = Held(r)
  BY DEF DispatcherEnds, Timeout, End, Uninstall, vars
<1> HIDE DEF Held
<1> QED
  BY <1>1, <1>2, <1>3, CountedStill

(* A dispatcher receives what its channel holds. *)
LEMMA ReceiveCounts ==
  ASSUME IInv, CountInv, NEW r \in Signals, NEW d \in Dispatchers, Receive(d)
  PROVE  Counted(r)'
<1>1. Counted(r)
  BY DEF CountInv
<1>2. /\ pc[d] = "idle" /\ d \in buffer /\ buffer' = buffer \ {d} /\ d \in Deliverers
      /\ pc' = [pc EXCEPT ![d] = "dispatch"] /\ DOMAIN pc = Deliverers
      /\ UNCHANGED <<sig, pending, todo, owed>>
  BY DEF Receive, Goto, IInv, FlowOK, state, Deliverers
<1>3. Queued(r)' = Queued(r) /\ Due(r)' = Due(r)
  BY <1>2 DEF Queued, Due
<1>4. CASE sig[d] = r
  <2>1. d \in Buffered(r) /\ Buffered(r)' = Buffered(r) \ {d}
    BY <1>2, <1>4 DEF Buffered
  <2>2. d \notin Held(r) /\ Held(r)' = Held(r) \cup {d}
    BY <1>2, <1>4 DEF Held, InHand
  <2>3. owed'[r] = owed[r] + (-1 + 1 + 0 + 0)
    BY <1>2 DEF IInv, FlowOK
  <2> QED
    BY <1>1, <1>3, <2>1, <2>2, <2>3, CountedAfter DEF Changed
<1>5. CASE sig[d] # r
  <2>1. Buffered(r)' = Buffered(r) /\ Held(r)' = Held(r)
    BY <1>2, <1>5 DEF Buffered, Held, InHand
  <2> QED
    BY <1>1, <1>2, <1>3, <2>1, CountedStill
<1> QED
  BY <1>4, <1>5

(* A signal is queued, or on its way to the handler; its dispatcher held it *)
(* before (n = 0), or nobody did (n = 1).                                   *)
LEMMA RouteCounts ==
  ASSUME IInv, CountInv, NEW r \in Signals,
         NEW x \in Deliverers, NEW s \in Signals, NEW n \in {0, 1}, Route(x, s, n),
         n = 0 => pc[x] = "dispatch" /\ sig[x] = s,
         n = 1 => pc[x] = "idle" /\ x \in Threads,
         UNCHANGED <<buffer, todo>>
  PROVE  Counted(r)'
<1> USE DEF Route, Goto
<1>1. Counted(r) /\ owed[r] \in Int /\ owed \in [Signals -> Int]
  BY Zenon DEF CountInv, IInv, FlowOK
<1>2. /\ pc \in [Deliverers -> {"idle", "dispatch", "lookup", "kernel", "handler", "wait", "gone"}]
      /\ sig \in [Deliverers -> Signals \cup {0}]
      /\ pending \in [Threads -> SUBSET Signals] /\ buffer \subseteq Dispatchers
  BY DEF IInv, FlowOK, StateOK, TableOK
<1>3. Due(r)' = Due(r)
  BY DEF Due
<1>4. Buffered(r)' = Buffered(r)
  <2>1. \A d \in Dispatchers : sig'[d] = sig[d]
    <3>1. CASE n = 0
      BY <1>2, <3>1
    <3>2. CASE n = 1
      BY <1>2, <3>2, SignalsAssumption DEF Deliverers
    <3> QED
      BY <3>1, <3>2
  <2> QED
    BY <1>2, <2>1 DEF Buffered
<1>5. r # s => Held(r)' = Held(r)
  BY <1>2 DEF Held, InHand
<1>6. n = 1 => x \notin Held(r)
  BY DEF Held, InHand
<1>7. n = 0 => x \in Held(s)
  BY DEF Held, InHand
<1>8. CASE Targets(x, s) = {}
  <2>1. Queued(r)' = Queued(r)
    BY <1>8 DEF Queued
  <2>2. owed' = [owed EXCEPT ![s] = @ + n]
    BY <1>8
  <2>3. CASE r = s /\ n = 1
    <3>1. Held(r)' = Held(r) \cup {x}
      BY <1>2, <1>8, <2>3 DEF Held, InHand
    <3>2. owed'[r] = owed[r] + (0 + 1 + 0 + 0)
      BY <1>1, <2>2, <2>3
    <3>3. Changed(Held(r), Held(r)', 1)
      BY <1>6, <2>3, <3>1 DEF Changed
    <3>4. Changed(Buffered(r), Buffered(r)', 0) /\ Changed(Queued(r), Queued(r)', 0) /\ Changed(Due(r), Due(r)', 0)
      BY <1>3, <1>4, <2>1 DEF Changed
    <3> QED
      BY <1>1, <3>2, <3>3, <3>4, CountedAfter
  <2>4. CASE r = s /\ n = 0
    <3>1. Held(r)' = Held(r)
      BY <1>2, <1>8, <2>4 DEF Held, InHand
    <3>2. owed'[r] = owed[r]
      BY <1>1, <2>2, <2>4
    <3> QED
      BY <1>1, <1>3, <1>4, <2>1, <3>1, <3>2, CountedStill
  <2>5. CASE r # s
    <3>1. owed'[r] = owed[r]
      BY <1>1, <2>2, <2>5
    <3> QED
      BY <1>1, <1>3, <1>4, <1>5, <2>1, <2>5, <3>1, CountedStill
  <2> QED
    BY <2>3, <2>4, <2>5
<1>9. CASE Targets(x, s) # {}
  <2>1. PICK t \in Targets(x, s) :
          /\ Queue(t, s)
          /\ owed' = [owed EXCEPT ![s] = @ + n - IF s \in pending[t] THEN 1 ELSE 0]
    BY <1>9
  <2>2. t \in Threads
    BY DEF Targets, Blocking
  <2>3. pending' = [pending EXCEPT ![t] = @ \cup {s}]
    BY <2>1 DEF Queue
  <2>4. CASE r = s
    <3>1. n = 0 => Held(r)' = Held(r) \ {x} /\ x \in Held(r)
      BY <1>2, <1>7, <1>9, <2>4 DEF Held, InHand
    <3>2. n = 1 => Held(r)' = Held(r)
      BY <1>2, <1>9, <2>4 DEF Held, InHand
    <3>3. Changed(Held(r), Held(r)', n - 1)
      <4>1. CASE n = 0
        BY <3>1, <4>1 DEF Changed
      <4>2. CASE n = 1
        BY <3>2, <4>2 DEF Changed
      <4> QED
        BY <4>1, <4>2
    <3>4. CASE s \in pending[t]
      <4>1. Queued(r)' = Queued(r)
        BY <1>2, <2>2, <2>3, <2>4, <3>4 DEF Queued
      <4>2. owed'[r] = owed[r] + (0 + (n - 1) + 0 + 0)
        BY <1>1, <2>1, <2>4, <3>4
      <4> QED
        BY <1>1, <1>3, <1>4, <3>3, <4>1, <4>2, CountedAfter DEF Changed
    <3>5. CASE s \notin pending[t]
      <4>1. Queued(r)' = Queued(r) \cup {t} /\ t \notin Queued(r)
        BY <1>2, <2>2, <2>3, <2>4, <3>5 DEF Queued
      <4>2. owed'[r] = owed[r] + (0 + (n - 1) + 1 + 0)
        BY <1>1, <2>1, <2>4, <3>5
      <4>3. Changed(Queued(r), Queued(r)', 1)
        BY <4>1 DEF Changed
      <4>4. Changed(Buffered(r), Buffered(r)', 0) /\ Changed(Due(r), Due(r)', 0)
        BY <1>3, <1>4 DEF Changed
      <4> QED
        BY <1>1, <3>3, <4>2, <4>3, <4>4, CountedAfter
    <3> QED
      BY <3>4, <3>5
  <2>5. CASE r # s
    <3>1. Queued(r)' = Queued(r)
      BY <1>2, <2>2, <2>3, <2>5 DEF Queued
    <3>2. owed'[r] = owed[r]
      BY <1>1, <2>1, <2>5
    <3> QED
      BY <1>1, <1>3, <1>4, <1>5, <2>5, <3>1, <3>2, CountedStill
  <2> QED
    BY <2>4, <2>5
<1> QED
  BY <1>8, <1>9

(* A handler or nobody answers a signal that x holds. *)
LEMMA AnswerCounts ==
  ASSUME IInv, CountInv, NEW r \in Signals, NEW x \in Deliverers,
         pc[x] \in {"lookup", "kernel", "handler"},
         Goto(x, "idle"), Forget(x), Answer(sig[x]),
         UNCHANGED <<buffer, pending, todo>>
  PROVE  Counted(r)'
<1>1. Counted(r) /\ owed[r] \in Int /\ owed \in [Signals -> Int]
  BY Zenon DEF CountInv, IInv, FlowOK
<1>2. /\ pc \in [Deliverers -> {"idle", "dispatch", "lookup", "kernel", "handler", "wait", "gone"}]
      /\ sig \in [Deliverers -> Signals \cup {0}]
      /\ buffer \subseteq Dispatchers /\ 0 \notin Signals
  BY SignalsAssumption DEF IInv, FlowOK, TableOK
<1>3. Due(r)' = Due(r) /\ Queued(r)' = Queued(r)
  BY DEF Due, Queued
<1>4. Buffered(r)' = Buffered(r)
  BY <1>2, SignalsAssumption DEF Buffered, Forget
<1>5. CASE sig[x] = r
  <2>1. x \in Held(r) /\ Held(r)' = Held(r) \ {x}
    BY <1>2, <1>5 DEF Held, InHand, Goto, Forget
  <2>2. owed'[r] = owed[r] + (0 + -1 + 0 + 0)
    BY <1>1, <1>5 DEF Answer
  <2> QED
    BY <1>1, <1>3, <1>4, <2>1, <2>2, CountedAfter DEF Changed
<1>6. CASE sig[x] # r
  <2>1. Held(r)' = Held(r)
    BY <1>2, <1>6 DEF Held, InHand, Goto, Forget
  <2>2. owed'[r] = owed[r]
    BY <1>1, <1>6 DEF Answer
  <2> QED
    BY <1>1, <1>3, <1>4, <2>1, <2>2, CountedStill
<1> QED
  BY <1>5, <1>6

(* Whoever has looked the handler up enters it, gives the signal back to    *)
(* the kernel, or nobody wants it.                                          *)
LEMMA LookupCounts ==
  ASSUME IInv, CountInv, NEW r \in Signals, NEW x \in Deliverers, Lookup(x)
  PROVE  Counted(r)'
<1>1. /\ pc[x] = "lookup" /\ UNCHANGED <<buffer, pending, todo>>
  BY DEF Lookup, state
<1>2. CASE Goto(x, "idle") /\ Forget(x) /\ Answer(sig[x])
  BY <1>1, <1>2, AnswerCounts
<1>3. CASE UNCHANGED <<sig, owed>> /\ (Goto(x, "kernel") \/ Goto(x, "handler"))
  <2>1. Held(r)' = Held(r)
    BY <1>1, <1>3 DEF Held, InHand, Goto, IInv, FlowOK
  <2>2. Counted(r)
    BY DEF CountInv
  <2>3. Buffered(r)' = Buffered(r) /\ Queued(r)' = Queued(r) /\ Due(r)' = Due(r)
    BY <1>1, <1>3 DEF Buffered, Queued, Due
  <2> QED
    BY <1>3, <2>1, <2>2, <2>3, CountedStill
<1>4. CASE Goto(x, "handler") /\ sig' = [sig EXCEPT ![x] = sig[x]] /\ UNCHANGED owed
  BY <1>3, <1>4 DEF IInv, FlowOK
<1> QED
  BY <1>2, <1>3, <1>4 DEF Lookup, Deliver

(* The kernel hands a signal to os/signal, or there is no handler after all. *)
LEMMA KillOutsideCounts ==
  ASSUME IInv, CountInv, NEW r \in Signals, NEW t \in Threads, KillOutside(t)
  PROVE  Counted(r)'
<1> DEFINE s == sig[t]
           d == action[s]
<1>1. /\ t \in Deliverers /\ pc[t] = "kernel" /\ s \in Signals
      /\ Goto(t, "idle") /\ Forget(t) /\ UNCHANGED <<pending, todo>>
      /\ buffer' = buffer \cup ({d} \cap Dispatchers)
  BY DEF KillOutside, IInv, HasSignal, Deliverers, state
<1>2. CASE d \in Dispatchers \ buffer
  <2>1. /\ pc \in [Deliverers -> {"idle", "dispatch", "lookup", "kernel", "handler", "wait", "gone"}]
        /\ sig \in [Deliverers -> Signals \cup {0}]
        /\ buffer \subseteq Dispatchers /\ 0 \notin Signals
    BY SignalsAssumption DEF IInv, FlowOK, TableOK
  <2>2. UNCHANGED owed /\ sig[d] = s /\ d \notin Threads
    BY <1>1, <1>2, SignalsAssumption DEF KillOutside, CountInv, OwnSignal
  <2>3. Counted(r) /\ owed[r] \in Int
    BY Zenon DEF CountInv, IInv, FlowOK
  <2>4. Due(r)' = Due(r) /\ Queued(r)' = Queued(r)
    BY <1>1 DEF Due, Queued
  <2>5. \A e \in Dispatchers : sig'[e] = sig[e]
    BY <1>1, <2>1, SignalsAssumption DEF Forget, Deliverers
  <2>6. CASE s = r
    <3>1. d \notin Buffered(r) /\ Buffered(r)' = Buffered(r) \cup {d}
      BY <1>1, <1>2, <2>1, <2>2, <2>5, <2>6 DEF Buffered
    <3>2. t \in Held(r) /\ Held(r)' = Held(r) \ {t}
      BY <1>1, <2>1, <2>6 DEF Held, InHand, Goto, Forget
    <3>3. owed'[r] = owed[r] + (1 + -1 + 0 + 0)
      BY <2>2, <2>3
    <3>4. Changed(Buffered(r), Buffered(r)', 1) /\ Changed(Held(r), Held(r)', -1)
      BY <3>1, <3>2 DEF Changed
    <3>5. Changed(Queued(r), Queued(r)', 0) /\ Changed(Due(r), Due(r)', 0)
      BY <2>4 DEF Changed
    <3> QED
      BY <2>3, <3>3, <3>4, <3>5, CountedAfter
  <2>7. CASE s # r
    <3>1. Buffered(r)' = Buffered(r)
      BY <1>1, <1>2, <2>1, <2>2, <2>5, <2>7 DEF Buffered
    <3>2. Held(r)' = Held(r)
      BY <1>1, <2>1, <2>7 DEF Held, InHand, Goto, Forget
    <3> QED
      BY <2>2, <2>3, <2>4, <3>1, <3>2, CountedStill
  <2> QED
    BY <2>6, <2>7
<1>3. CASE ~(d \in Dispatchers \ buffer)
  <2>1. UNCHANGED buffer /\ Answer(s)
    BY <1>1, <1>3 DEF KillOutside
  <2> QED
    BY <1>1, <2>1, AnswerCounts
<1> QED
  BY <1>2, <1>3

(* os/signal puts a signal into a channel, or finds it full. *)
LEMMA ArriveCounts ==
  ASSUME IInv, CountInv, NEW r \in Signals, NEW s \in Signals, Arrive(s)
  PROVE  Counted(r)'
<1> DEFINE d == action[s]
<1>1. /\ d \in Dispatchers /\ sig[d] = s /\ buffer' = buffer \cup {d}
      /\ UNCHANGED <<pc, sig, pending, todo>>
  BY DEF Arrive, CountInv, OwnSignal, state
<1>2. Counted(r) /\ owed \in [Signals -> Int] /\ owed[r] \in Int
  BY Zenon DEF CountInv, IInv, FlowOK
<1>3. Held(r)' = Held(r) /\ Queued(r)' = Queued(r) /\ Due(r)' = Due(r)
  BY <1>1 DEF Held, InHand, Queued, Due
<1>4. CASE s = r /\ d \notin buffer
  <2>1. d \notin Buffered(r) /\ Buffered(r)' = Buffered(r) \cup {d}
    BY <1>1, <1>4 DEF Buffered
  <2>2. owed'[r] = owed[r] + (1 + 0 + 0 + 0)
    BY <1>2, <1>4 DEF Arrive, Accept
  <2>3. Changed(Buffered(r), Buffered(r)', 1)
    BY <2>1 DEF Changed
  <2>4. Changed(Held(r), Held(r)', 0) /\ Changed(Queued(r), Queued(r)', 0) /\ Changed(Due(r), Due(r)', 0)
    BY <1>3 DEF Changed
  <2> QED
    BY <1>2, <2>2, <2>3, <2>4, CountedAfter
<1>5. CASE ~(s = r /\ d \notin buffer)
  <2>1. Buffered(r)' = Buffered(r)
    BY <1>1, <1>5 DEF Buffered
  <2>2. owed'[r] = owed[r]
    BY <1>2, <1>5 DEF Arrive, Accept
  <2> QED
    BY <1>2, <1>3, <2>1, <2>2, CountedStill
<1> QED
  BY <1>4, <1>5

(* pthread_sigmask takes what it unblocks out of the queue, at once.        *)
LEMMA SigMaskCounts ==
  ASSUME IInv, CountInv, NEW r \in Signals, NEW t \in Threads, SigMask(t)
  PROVE  Counted(r)'
<1>1. PICK new : /\ todo' = [todo EXCEPT ![t] = pending[t] \ new]
                 /\ pending' = [pending EXCEPT ![t] = pending[t] \cap new]
  BY DEF SigMask, Kept
<1>2. /\ todo[t] = {} /\ UNCHANGED <<buffer, pc, sig, owed>>
      /\ pending \in [Threads -> SUBSET Signals] /\ todo \in [Threads -> SUBSET Signals]
  BY DEF SigMask, Free, IInv, StateOK
<1>3. Counted(r) /\ owed[r] \in Int
  BY Zenon DEF CountInv, IInv, FlowOK
<1>4. Buffered(r)' = Buffered(r) /\ Held(r)' = Held(r)
  BY <1>2 DEF Buffered, Held, InHand
<1>5. CASE r \in pending[t] \ new
  <2>1. t \in Queued(r) /\ Queued(r)' = Queued(r) \ {t}
    BY <1>1, <1>2, <1>5 DEF Queued
  <2>2. t \notin Due(r) /\ Due(r)' = Due(r) \cup {t}
    BY <1>1, <1>2, <1>5 DEF Due
  <2>3. owed'[r] = owed[r] + (0 + 0 + -1 + 1)
    BY <1>2, <1>3
  <2>4. Changed(Queued(r), Queued(r)', -1) /\ Changed(Due(r), Due(r)', 1)
    BY <2>1, <2>2 DEF Changed
  <2>5. Changed(Buffered(r), Buffered(r)', 0) /\ Changed(Held(r), Held(r)', 0)
    BY <1>4 DEF Changed
  <2> QED
    BY <1>3, <2>3, <2>4, <2>5, CountedAfter
<1>6. CASE r \notin pending[t] \ new
  <2>1. Queued(r)' = Queued(r)
    BY <1>1, <1>2, <1>6 DEF Queued
  <2>2. Due(r)' = Due(r)
    BY <1>1, <1>2, <1>6 DEF Due
  <2> QED
    BY <1>2, <1>3, <1>4, <2>1, <2>2, CountedStill
<1> QED
  BY <1>5, <1>6

(* ... and delivers one signal after the other. *)
LEMMA DeliverNextCounts ==
  ASSUME IInv, CountInv, NEW r \in Signals, NEW t \in Threads, DeliverNext(t)
  PROVE  Counted(r)'
<1>1. PICK s \in todo[t] : todo' = [todo EXCEPT ![t] = @ \ {s}] /\ Deliver(t, s)
  BY DEF DeliverNext
<1>2. /\ pc[t] = "idle" /\ t \in Deliverers /\ UNCHANGED <<buffer, pending>>
      /\ pc \in [Deliverers -> {"idle", "dispatch", "lookup", "kernel", "handler", "wait", "gone"}]
      /\ sig \in [Deliverers -> Signals \cup {0}]
      /\ buffer \subseteq Dispatchers /\ t \notin Dispatchers
      /\ todo \in [Threads -> SUBSET Signals]
  BY SignalsAssumption DEF DeliverNext, Deliverers, IInv, FlowOK, TableOK, StateOK, state
<1>3. Counted(r) /\ owed \in [Signals -> Int] /\ owed[r] \in Int
  BY Zenon DEF CountInv, IInv, FlowOK
<1>4. \A e \in Dispatchers : sig'[e] = sig[e]
  BY <1>1, <1>2 DEF Deliver, Forget, Deliverers
<1>5. Buffered(r)' = Buffered(r) /\ Queued(r)' = Queued(r)
  BY <1>2, <1>4 DEF Buffered, Queued
<1>6. t \notin Held(r)
  BY <1>2 DEF Held, InHand
<1>7. r = s => t \in Due(r) /\ Due(r)' = Due(r) \ {t}
  BY <1>1, <1>2 DEF Due
<1>8. r # s => Due(r)' = Due(r)
  BY <1>1, <1>2 DEF Due
<1>9. CASE action[s] \in Dispatchers
  <2>1. Goto(t, "handler") /\ sig' = [sig EXCEPT ![t] = s] /\ UNCHANGED owed
    BY <1>1, <1>9 DEF Deliver
  <2>2. CASE r = s
    <3>1. Held(r)' = Held(r) \cup {t}
      BY <1>2, <2>1, <2>2 DEF Held, InHand, Goto
    <3>2. owed'[r] = owed[r] + (0 + 1 + 0 + -1)
      BY <1>3, <2>1
    <3>3. Changed(Held(r), Held(r)', 1) /\ Changed(Due(r), Due(r)', -1)
      BY <1>6, <1>7, <2>2, <3>1 DEF Changed
    <3>4. Changed(Buffered(r), Buffered(r)', 0) /\ Changed(Queued(r), Queued(r)', 0)
      BY <1>5 DEF Changed
    <3> QED
      BY <1>3, <3>2, <3>3, <3>4, CountedAfter
  <2>3. CASE r # s
    <3>1. Held(r)' = Held(r)
      BY <1>2, <2>1, <2>3 DEF Held, InHand, Goto
    <3> QED
      BY <1>3, <1>5, <1>8, <2>1, <2>3, <3>1, CountedStill
  <2> QED
    BY <2>2, <2>3
<1>10. CASE action[s] \notin Dispatchers
  <2>1. Goto(t, "idle") /\ Forget(t) /\ Answer(s)
    BY <1>1, <1>10 DEF Deliver
  <2>2. Held(r)' = Held(r)
    BY <1>2, <2>1 DEF Held, InHand, Goto, Forget
  <2>3. CASE r = s
    <3>1. owed'[r] = owed[r] + (0 + 0 + 0 + -1)
      BY <1>3, <2>1, <2>3 DEF Answer
    <3>2. Changed(Due(r), Due(r)', -1)
      BY <1>7, <2>3 DEF Changed
    <3>3. Changed(Buffered(r), Buffered(r)', 0) /\ Changed(Queued(r), Queued(r)', 0) /\ Changed(Held(r), Held(r)', 0)
      BY <1>5, <2>2 DEF Changed
    <3> QED
      BY <1>3, <3>1, <3>2, <3>3, CountedAfter
  <2>4. CASE r # s
    <3>1. owed'[r] = owed[r]
      BY <1>3, <2>1, <2>4 DEF Answer
    <3> QED
      BY <1>3, <1>5, <1>8, <2>2, <2>4, <3>1, CountedStill
  <2> QED
    BY <2>3, <2>4
<1> QED
  BY <1>9, <1>10

(* sigwait takes a queued signal, or nothing. *)
LEMMA TakePendingCounts ==
  ASSUME IInv, CountInv, NEW r \in Signals, NEW t \in Threads, NEW set,
         TakePending(t, set), pc[t] \in {"idle", "wait"}, UNCHANGED <<buffer, sig, todo>>
  PROVE  Counted(r)'
<1>1. Counted(r) /\ owed \in [Signals -> Int] /\ owed[r] \in Int
  BY Zenon DEF CountInv, IInv, FlowOK
<1>2. /\ Goto(t, "idle") \/ Goto(t, "wait")
      /\ pending \in [Threads -> SUBSET Signals]
  BY DEF TakePending, IInv, StateOK
<1>3. Held(r)' = Held(r)
  BY <1>2 DEF Held, InHand, Goto, IInv, FlowOK
<1>4. Buffered(r)' = Buffered(r) /\ Due(r)' = Due(r)
  BY DEF Buffered, Due
<1>5. CASE UNCHANGED <<pending, owed>>
  <2>1. Queued(r)' = Queued(r)
    BY <1>5 DEF Queued
  <2> QED
    BY <1>1, <1>3, <1>4, <1>5, <2>1, CountedStill
<1>6. ASSUME NEW s \in pending[t], pending' = [pending EXCEPT ![t] = @ \ {s}], Answer(s)
      PROVE  Counted(r)'
  <2>1. CASE r = s
    <3>1. t \in Queued(r) /\ Queued(r)' = Queued(r) \ {t}
      BY <1>2, <1>6, <2>1 DEF Queued
    <3>2. owed'[r] = owed[r] + (0 + 0 + -1 + 0)
      BY <1>1, <1>6, <2>1 DEF Answer
    <3>3. Changed(Queued(r), Queued(r)', -1)
      BY <3>1 DEF Changed
    <3>4. Changed(Buffered(r), Buffered(r)', 0) /\ Changed(Held(r), Held(r)', 0) /\ Changed(Due(r), Due(r)', 0)
      BY <1>3, <1>4 DEF Changed
    <3> QED
      BY <1>1, <3>2, <3>3, <3>4, CountedAfter
  <2>2. CASE r # s
    <3>1. Queued(r)' = Queued(r)
      BY <1>2, <1>6, <2>2 DEF Queued
    <3>2. owed'[r] = owed[r]
      BY <1>1, <1>6, <2>2 DEF Answer
    <3> QED
      BY <1>1, <1>3, <1>4, <3>1, <3>2, CountedStill
  <2> QED
    BY <2>1, <2>2
<1> QED
  BY <1>5, <1>6 DEF TakePending

(* A new dispatcher has nothing of its signal yet. *)
LEMMA InstallCounts ==
  ASSUME IInv, CountInv, NEW r \in Signals, NEW t \in Threads, NEW s \in Signals, Install(t, s)
  PROVE  Counted(r)'
<1> DEFINE d == CHOOSE e \in Dispatchers : owner[e] = Nobody
<1>1. d \in Dispatchers /\ owner[d] = Nobody
  BY DEF Install
<1>2. sig' = [sig EXCEPT ![d] = s]
  BY DEF Install
<1>3. UNCHANGED <<buffer, pc, pending, todo, owed>>
  BY DEF Install, state
<1> HIDE DEF d
<1>4. d \notin buffer /\ pc[d] = "idle" /\ sig \in [Deliverers -> Signals \cup {0}]
  BY <1>1 DEF IInv, Started, CountInv, Unstarted, FlowOK
<1>5. Buffered(r)' = Buffered(r)
  BY <1>1, <1>2, <1>3, <1>4 DEF Buffered, Deliverers
<1>6. Held(r)' = Held(r)
  BY <1>1, <1>2, <1>3, <1>4 DEF Held, InHand, Deliverers
<1>7. Queued(r)' = Queued(r) /\ Due(r)' = Due(r) /\ Counted(r)
  BY <1>3 DEF Queued, Due, CountInv
<1> QED
  BY <1>3, <1>5, <1>6, <1>7, CountedStill

(* Only Install starts a dispatcher, and it starts idle. *)
LEMMA UnstartedKept ==
  ASSUME IInv, CountInv, [Next]_vars, NEW e \in Dispatchers
  PROVE  Unstarted(e)'
<1> SUFFICES ASSUME owner'[e] = Nobody PROVE pc'[e] = "idle"
  BY DEF Unstarted
<1>1. owner[e] = Nobody \/ \E t \in Threads, s \in Signals : Install(t, s)
  BY DEF Next, Step, Lookup, Handle, Receive, Dispatch, DispatcherEnds, KillOutside, DeliverNext, Wake,
         Arrive, SigMask, SigWait, Timeout, End, Kill, Uninstall, table, vars
<1>2. \A t \in Threads, s \in Signals : Install(t, s) => owner[e] = Nobody /\ UNCHANGED pc
  BY SignalsAssumption DEF Install, IInv, TableOK
<1>3. owner[e] = Nobody /\ pc[e] = "idle" /\ e \notin buffer /\ e \in Deliverers
  BY <1>1, <1>2 DEF CountInv, Unstarted, IInv, Started, Deliverers
<1>4. ASSUME NEW x \in Deliverers, NEW l, pc' = [pc EXCEPT ![x] = l], x # e PROVE pc'[e] = "idle"
  BY <1>3, <1>4 DEF IInv, FlowOK
<1>5. ASSUME NEW x \in Deliverers, Step(x) PROVE pc'[e] = "idle"
  <2>1. CASE x = e
    BY <1>3, <1>5, <2>1, SignalsAssumption DEF Step, Lookup, Handle, Receive, Dispatch, DispatcherEnds
  <2>2. CASE x # e
    BY <1>4, <1>5, <2>2 DEF Step, Lookup, Handle, Receive, Dispatch, DispatcherEnds, KillOutside,
       DeliverNext, Wake, Route, Deliver, TakePending, Goto
  <2> QED
    BY <2>1, <2>2
<1>6. ASSUME NEW t \in Threads,
             \/ SigMask(t) \/ SigWait(t) \/ Timeout(t) \/ End(t)
             \/ \E s \in Signals :
                  Kill(t, s) \/ (\E a \in {"dfl", "ign"} : Uninstall(t, s, a)) \/ Install(t, s)
      PROVE  pc'[e] = "idle"
  <2>1. t # e /\ t \in Deliverers
    BY SignalsAssumption DEF Deliverers
  <2> QED
    BY <1>3, <1>4, <1>6, <2>1 DEF SigMask, SigWait, Timeout, End, Kill, Uninstall, Install, Route,
       TakePending, Goto
<1>7. ASSUME NEW s \in Signals, Arrive(s) PROVE pc'[e] = "idle"
  BY <1>3, <1>7 DEF Arrive
<1>8. CASE UNCHANGED vars
  BY <1>3, <1>8 DEF vars
<1> QED
  BY <1>5, <1>6, <1>7, <1>8 DEF Next

(* A dispatcher keeps its signal number, and the table names it there only. *)
LEMMA OwnSignalKept ==
  ASSUME IInv, CountInv, [Next]_vars, NEW r \in Signals
  PROVE  OwnSignal(r)'
<1> DEFINE NewOne(d, s) == /\ d \in Dispatchers /\ owner[d] = Nobody
                           /\ action' = [action EXCEPT ![s] = d] /\ sig' = [sig EXCEPT ![d] = s]
<1>1. /\ OwnSignal(r) /\ action \in [Signals -> Dispositions \cup Dispatchers]
      /\ sig \in [Deliverers -> Signals \cup {0}] /\ Dispatchers \subseteq Deliverers
      /\ action[r] \in Dispatchers => owner[action[r]] # Nobody
  BY DEF IInv, CountInv, TableOK, FlowOK, Started, Deliverers
<1>2. ASSUME \A d \in Dispatchers : sig'[d] = sig[d], UNCHANGED action
      PROVE  OwnSignal(r)'
  BY <1>1, <1>2 DEF OwnSignal
<1>3. ASSUME NEW x \in Deliverers, Step(x) PROVE OwnSignal(r)'
  <2>1. UNCHANGED action
    BY <1>3 DEF Step, Lookup, Handle, Receive, Dispatch, DispatcherEnds, KillOutside, DeliverNext, Wake, table
  <2>2. CASE x \in Threads
    <3>1. \A d \in Dispatchers : sig'[d] = sig[d]
      BY <1>1, <1>3, <2>2, SignalsAssumption DEF Step, Lookup, Handle, Receive, Dispatch, DispatcherEnds,
         KillOutside, DeliverNext, Wake, Deliver, Forget
    <3> QED
      BY <1>2, <2>1, <3>1
  <2>3. CASE x \in Dispatchers
    <3>1. \A d \in Dispatchers : sig'[d] = sig[d]
      BY <1>1, <1>3, <2>3, SignalsAssumption DEF Step, Lookup, Handle, Receive, Dispatch, DispatcherEnds,
         Deliver, Forget, Route
    <3> QED
      BY <1>2, <2>1, <3>1
  <2> QED
    BY <2>2, <2>3 DEF Deliverers
<1>4. ASSUME NEW t \in Threads,
             \/ SigMask(t) \/ SigWait(t) \/ Timeout(t) \/ End(t)
             \/ \E s \in Signals : Kill(t, s)
      PROVE  OwnSignal(r)'
  <2>1. UNCHANGED action /\ \A d \in Dispatchers : sig'[d] = sig[d]
    BY <1>1, <1>4, SignalsAssumption DEF SigMask, SigWait, Timeout, End, Kill, Route, table
  <2> QED
    BY <1>2, <2>1
<1>5. ASSUME NEW t \in Threads, NEW s \in Signals, NEW a \in {"dfl", "ign"}, Uninstall(t, s, a)
      PROVE  OwnSignal(r)'
  BY <1>1, <1>5, SignalsAssumption DEF Uninstall, OwnSignal, Dispositions
<1>6. ASSUME NEW t \in Threads, NEW s \in Signals, Install(t, s) PROVE OwnSignal(r)'
  <2>1. PICK d : NewOne(d, s)
    BY <1>6 DEF Install
  <2> QED
    BY <1>1, <2>1 DEF OwnSignal
<1>7. ASSUME NEW s \in Signals, Arrive(s) PROVE OwnSignal(r)'
  BY <1>2, <1>7 DEF Arrive, table
<1>8. CASE UNCHANGED vars
  BY <1>2, <1>8 DEF vars, table
<1> QED
  BY <1>3, <1>4, <1>5, <1>6, <1>7, <1>8 DEF Next

LEMMA NextCountInv == IInv /\ CountInv /\ [Next]_vars => CountInv'  \* the count is inductive
<1> SUFFICES ASSUME IInv, CountInv, [Next]_vars, NEW r \in Signals PROVE Counted(r)'
  BY UnstartedKept, OwnSignalKept DEF CountInv
<1>1. ASSUME NEW x \in Deliverers, Step(x) PROVE Counted(r)'
  <2>1. CASE Lookup(x)
    BY <2>1, LookupCounts
  <2>2. CASE Handle(x)
    BY <2>2, AnswerCounts DEF Handle, state
  <2>3. CASE x \in Dispatchers /\ Receive(x)
    BY <2>3, ReceiveCounts
  <2>4. CASE x \in Dispatchers /\ Dispatch(x)
    <3>1. sig[x] \in Signals /\ pc[x] = "dispatch" /\ Route(x, sig[x], 0) /\ UNCHANGED <<buffer, todo>>
      BY <2>4 DEF Dispatch, IInv, HasSignal
    <3> QED
      BY <3>1, RouteCounts
  <2>5. CASE x \in Dispatchers /\ DispatcherEnds(x)
    BY <2>5, QuietCounts
  <2>6. CASE x \in Threads /\ KillOutside(x)
    BY <2>6, KillOutsideCounts
  <2>7. CASE x \in Threads /\ DeliverNext(x)
    BY <2>7, DeliverNextCounts
  <2>8. CASE x \in Threads /\ Wake(x)
    BY <2>8, TakePendingCounts DEF Wake
  <2> QED
    BY <1>1, <2>1, <2>2, <2>3, <2>4, <2>5, <2>6, <2>7, <2>8 DEF Step
<1>2. ASSUME NEW s \in Signals, Arrive(s) PROVE Counted(r)'
  BY <1>2, ArriveCounts
<1>3. ASSUME NEW t \in Threads, SigMask(t) \/ SigWait(t) \/ Timeout(t) \/ End(t) PROVE Counted(r)'
  <2>1. CASE SigWait(t)
    BY <2>1, TakePendingCounts DEF SigWait, Free
  <2> QED
    BY <1>3, <2>1, SigMaskCounts, QuietCounts
<1>4. ASSUME NEW t \in Threads, NEW s \in Signals, Kill(t, s) PROVE Counted(r)'
  <2>1. pc[t] = "idle" /\ Route(t, s, 1) /\ UNCHANGED <<buffer, todo>> /\ t \in Deliverers
    BY <1>4 DEF Kill, Free, Deliverers
  <2> QED
    BY <2>1, RouteCounts
<1>5. ASSUME NEW t \in Threads, NEW s \in Signals, NEW a \in {"dfl", "ign"}, Uninstall(t, s, a)
      PROVE  Counted(r)'
  BY <1>5, QuietCounts
<1>6. ASSUME NEW t \in Threads, NEW s \in Signals, Install(t, s) PROVE Counted(r)'
  BY <1>6, InstallCounts
<1>7. CASE UNCHANGED vars
  BY <1>7, QuietCounts
<1> QED
  BY <1>1, <1>2, <1>3, <1>4, <1>5, <1>6, <1>7 DEF Next

(* Every signal accepted is in exactly one place until it is answered, and  *)
(* is answered once: owed counts the places it is in (signals_unix.go,      *)
(* dispatchSignalOn, deliverSignal, pthread_sigmask, sigwait).              *)
THEOREM OneAnswer == Spec => []AnsweredOnce
<1>1. CountInv => AnsweredOnce
  BY PlacesCounted DEF CountInv, AnsweredOnce
<1> QED
  BY <1>1, InitCountInv, NextCountInv, IInvHolds, PTL DEF Spec

-----------------------------------------------------------------------------

(* Whoever the table names reads its channel, which is open; any other has  *)
(* had its channel closed, and is gone only when that is empty.             *)
ReplacedClosed(d) == d \in open => owner[d] # Nobody /\ action[sig[d]] = d
InstalledOpen(s) == action[s] \in Dispatchers => action[s] \in open
EndsEmpty(d) == pc[d] = "gone" => d \notin buffer \cup open
HandlersReceive ==
  /\ \A d \in Dispatchers : ReplacedClosed(d) /\ EndsEmpty(d)
  /\ \A s \in Signals : InstalledOpen(s)

(* A step that is not sigaction leaves the table and the channels' owners.  *)
LEMMA TableKept ==
  ASSUME IInv, [Next]_vars,
         ~\E t \in Threads, s \in Signals :
            Install(t, s) \/ \E a \in {"dfl", "ign"} : Uninstall(t, s, a)
  PROVE  UNCHANGED table /\ \A d \in Dispatchers : sig'[d] = sig[d]
<1> USE SignalsAssumption DEF Deliverers, IInv, FlowOK, TableOK
<1>1. ASSUME NEW x \in Deliverers, Step(x) PROVE UNCHANGED table /\ \A d \in Dispatchers : sig'[d] = sig[d]
  <2>1. UNCHANGED table
    BY <1>1 DEF Step, Lookup, Handle, Receive, Dispatch, DispatcherEnds, KillOutside, DeliverNext, Wake
  <2>2. CASE x \in Threads
    <3>1. \A d \in Dispatchers : sig'[d] = sig[d]
      BY <1>1, <2>2 DEF Step, Lookup, Handle, Receive, Dispatch, DispatcherEnds,
         KillOutside, DeliverNext, Wake, Deliver, Forget
    <3> QED
      BY <2>1, <3>1
  <2>3. CASE x \in Dispatchers
    <3>1. \A d \in Dispatchers : sig'[d] = sig[d]
      BY <1>1, <2>3 DEF Step, Lookup, Handle, Receive, Dispatch, DispatcherEnds, Deliver, Forget, Route
    <3> QED
      BY <2>1, <3>1
  <2> QED
    BY <2>2, <2>3
<1>2. ASSUME NEW t \in Threads,
             SigMask(t) \/ SigWait(t) \/ Timeout(t) \/ End(t) \/ \E s \in Signals : Kill(t, s)
      PROVE  UNCHANGED table /\ \A d \in Dispatchers : sig'[d] = sig[d]
  BY <1>2 DEF SigMask, SigWait, Timeout, End, Kill, Route
<1>3. ASSUME NEW s \in Signals, Arrive(s) PROVE UNCHANGED table /\ \A d \in Dispatchers : sig'[d] = sig[d]
  BY <1>3 DEF Arrive
<1>4. CASE UNCHANGED vars
  BY <1>4 DEF vars, table
<1> QED
  BY <1>1, <1>2, <1>3, <1>4 DEF Next

(* A dispatcher gets a signal only while the table names it, and ends only  *)
(* without one.                                                             *)
LEMMA EndsEmptyKept ==
  ASSUME IInv, CountInv, HandlersReceive, UNCHANGED table, [Next]_vars, NEW d \in Dispatchers
  PROVE  EndsEmpty(d)'
<1> USE SignalsAssumption DEF Deliverers, IInv, FlowOK, TableOK
<1> SUFFICES ASSUME pc'[d] = "gone" PROVE d \notin buffer' \cup open'
  BY DEF EndsEmpty
<1>0. open' = open
  BY DEF table
<1>1. CASE pc[d] = "gone"
  <2>1. d \notin buffer \cup open /\ \A s \in Signals : action[s] # d
    BY <1>1 DEF HandlersReceive, EndsEmpty, InstalledOpen
  <2>2. ASSUME NEW x \in Deliverers, Step(x) PROVE d \notin buffer'
    <3>1. CASE KillOutside(x)
      BY <2>1, <3>1 DEF KillOutside, HasSignal
    <3>2. CASE ~KillOutside(x)
      BY <2>1, <2>2, <3>2 DEF Step, Lookup, Handle, Receive, Dispatch, DispatcherEnds, DeliverNext, Wake
    <3> QED
      BY <3>1, <3>2
  <2>3. ASSUME NEW s \in Signals, Arrive(s) PROVE d \notin buffer'
    BY <2>1, <2>3 DEF Arrive
  <2>4. ASSUME UNCHANGED buffer PROVE d \notin buffer'
    BY <2>1, <2>4
  <2>5. d \notin buffer'
    BY <2>2, <2>3, <2>4 DEF Next, SigMask, SigWait, Timeout, End, Kill, Uninstall, Install, vars
  <2> QED
    BY <1>0, <2>1, <2>5
<1>2. CASE pc[d] # "gone"
  <2>1. ASSUME NEW x \in Deliverers, NEW l, pc' = [pc EXCEPT ![x] = l], l # "gone" PROVE FALSE
    BY <1>2, <2>1
  <2>2. ASSUME NEW x \in Deliverers, Step(x) PROVE DispatcherEnds(d)
    <3>1. CASE x \in Dispatchers /\ DispatcherEnds(x)
      BY <1>2, <3>1 DEF DispatcherEnds, Goto
    <3>2. CASE ~(x \in Dispatchers /\ DispatcherEnds(x))
      BY <2>1, <2>2, <3>2 DEF Step, Lookup, Handle, Receive, Dispatch, KillOutside, DeliverNext, Wake,
         Route, Deliver, TakePending, Goto
    <3> QED
      BY <3>1, <3>2
  <2>3. ASSUME NEW t \in Threads,
               \/ SigMask(t) \/ SigWait(t) \/ Timeout(t) \/ End(t)
               \/ \E s \in Signals :
                    Kill(t, s) \/ (\E a \in {"dfl", "ign"} : Uninstall(t, s, a)) \/ Install(t, s)
        PROVE  FALSE
    BY <1>2, <2>1, <2>3 DEF SigMask, SigWait, Timeout, End, Kill, Uninstall, Install, Route, TakePending, Goto
  <2>4. DispatcherEnds(d)
    BY <1>2, <2>2, <2>3 DEF Next, Arrive, vars
  <2> QED
    BY <1>0, <2>4 DEF DispatcherEnds
<1> QED
  BY <1>1, <1>2

LEMMA NextReceive ==  \* what sigaction does to the table, it does to the channels
  IInv /\ CountInv /\ HandlersReceive /\ [Next]_vars => HandlersReceive'
<1> SUFFICES ASSUME IInv, CountInv, HandlersReceive, [Next]_vars PROVE HandlersReceive'
  OBVIOUS
<1>0. /\ action \in [Signals -> Dispositions \cup Dispatchers]
      /\ sig \in [Deliverers -> Signals \cup {0}] /\ Dispatchers \subseteq Deliverers
      /\ owner \in [Dispatchers -> Threads \cup {Nobody}]
      /\ \A d \in Dispatchers : owner[d] # Nobody => sig[d] \in Signals
      /\ \A d \in Dispatchers : owner[d] = Nobody => d \notin buffer /\ pc[d] = "idle"
      /\ \A s \in Signals : OwnSignal(s)
      /\ \A s \in Signals : action[s] \in Dispatchers => owner[action[s]] # Nobody
  BY DEF IInv, CountInv, TableOK, FlowOK, Started, Unstarted, Deliverers
<1>1. ASSUME NEW t \in Threads, NEW s \in Signals, NEW a \in {"dfl", "ign"}, Uninstall(t, s, a)
      PROVE  HandlersReceive'
  <2>1. /\ open' = open \ {action[s]} /\ UNCHANGED <<owner, buffer, pc, sig>>
        /\ action' = [action EXCEPT ![s] = a] /\ a \notin Dispatchers
    BY <1>1, SignalsAssumption DEF Uninstall, Retired, Dispositions
  <2>2. ASSUME NEW d \in Dispatchers PROVE ReplacedClosed(d)' /\ EndsEmpty(d)'
    BY <1>0, <2>1 DEF HandlersReceive, ReplacedClosed, EndsEmpty
  <2>3. ASSUME NEW r \in Signals PROVE InstalledOpen(r)'
    BY <1>0, <2>1 DEF HandlersReceive, InstalledOpen, OwnSignal
  <2> QED
    BY <2>2, <2>3 DEF HandlersReceive
<1>2. ASSUME NEW t \in Threads, NEW s \in Signals, Install(t, s) PROVE HandlersReceive'
  <2>1. PICK n \in Dispatchers :
          /\ owner[n] = Nobody
          /\ open' = (open \ {action[s]}) \cup {n} /\ action' = [action EXCEPT ![s] = n]
          /\ owner' = [owner EXCEPT ![n] = t] /\ sig' = [sig EXCEPT ![n] = s]
          /\ UNCHANGED <<buffer, pc>>
    BY <1>2 DEF Install, Retired
  <2>2. t # Nobody
    BY SignalsAssumption
  <2>3. ASSUME NEW d \in Dispatchers PROVE ReplacedClosed(d)' /\ EndsEmpty(d)'
    <3>1. CASE d = n
      BY <1>0, <2>1, <2>2, <3>1 DEF ReplacedClosed, EndsEmpty
    <3>2. CASE d # n
      BY <1>0, <2>1, <3>2 DEF HandlersReceive, ReplacedClosed, EndsEmpty
    <3> QED
      BY <3>1, <3>2
  <2>4. ASSUME NEW r \in Signals PROVE InstalledOpen(r)'
    BY <1>0, <2>1 DEF HandlersReceive, InstalledOpen, OwnSignal
  <2> QED
    BY <2>3, <2>4 DEF HandlersReceive
<1>3. CASE ~\E t \in Threads, s \in Signals :
              Install(t, s) \/ \E a \in {"dfl", "ign"} : Uninstall(t, s, a)
  <2>1. UNCHANGED table /\ \A d \in Dispatchers : sig'[d] = sig[d]
    BY <1>3, TableKept
  <2>2. \A d \in Dispatchers : ReplacedClosed(d)'
    BY <2>1 DEF HandlersReceive, ReplacedClosed, table
  <2>3. \A s \in Signals : InstalledOpen(s)'
    BY <2>1 DEF HandlersReceive, InstalledOpen, table
  <2> QED
    BY <2>1, <2>2, <2>3, EndsEmptyKept DEF HandlersReceive
<1> QED
  BY <1>1, <1>2, <1>3

(* os/signal never sends to a channel that is closed, the goroutine of a    *)
(* handler that was replaced can end, and none ends with a signal in its    *)
(* channel (signals_unix.go, installSigaction and its dispatcher).          *)
THEOREM ChannelsInstalled == Spec => []HandlersReceive
<1>1. Init => HandlersReceive
  BY SignalsAssumption
     DEF Init, HandlersReceive, ReplacedClosed, InstalledOpen, EndsEmpty, Deliverers, Dispositions
<1> QED
  BY <1>1, NextReceive, InitCountInv, NextCountInv, IInvHolds, PTL DEF Spec

-----------------------------------------------------------------------------
(* The interval timers.                                                     *)

USE DEF Firing

(* The types of IntervalTimer: at first, *)
LEMMA TimerTypeInit == TimerInit => TimerTypeOK
<1> SUFFICES ASSUME TimerInit PROVE TimerTypeOK
  OBVIOUS
<1>1. sets \in 0..MaxSets /\ timer \in 0..MaxSets
  BY IntervalTimerAssumption DEF TimerInit
<1>2. chain \in [Chains -> {"none", "armed", "over"} \cup Firing]
  BY DEF TimerInit
<1>3. repeat \in BOOLEAN /\ raced \in BOOLEAN
  BY DEF TimerInit
<1>4. asked \in [initial : BOOLEAN, interval : BOOLEAN]
  BY DEF TimerInit
<1> QED
  BY <1>1, <1>2, <1>3, <1>4 DEF TimerTypeOK

(* ... and after every step. *)
LEMMA TimerTypeNext == TimerTypeOK /\ [TimerNext]_timerVars => TimerTypeOK'
<1> SUFFICES ASSUME TimerTypeOK, [TimerNext]_timerVars PROVE TimerTypeOK'
  OBVIOUS
<1>1. CASE UNCHANGED timerVars
  BY <1>1 DEF TimerTypeOK, timerVars
<1>2. ASSUME NEW initial \in BOOLEAN, NEW interval \in BOOLEAN, SetItimer(initial, interval)
      PROVE  TimerTypeOK'
  <2>1. sets' \in 0..MaxSets /\ timer' \in 0..MaxSets
    BY <1>2, IntervalTimerAssumption DEF TimerTypeOK, SetItimer
  <2>2. chain' \in [Chains -> {"none", "armed", "over"} \cup Firing]
    BY <1>2 DEF TimerTypeOK, SetItimer
  <2>3. repeat' \in BOOLEAN /\ raced' \in BOOLEAN
    BY <1>2 DEF TimerTypeOK, SetItimer
  <2>4. asked' \in [initial : BOOLEAN, interval : BOOLEAN]
    BY <1>2 DEF SetItimer
  <2> QED
    BY <2>1, <2>2, <2>3, <2>4 DEF TimerTypeOK
<1>3. ASSUME NEW n \in Chains, Fire(n) PROVE TimerTypeOK'
  BY <1>3, IntervalTimerAssumption
     DEF TimerTypeOK, Fire, Expire, SelfSignal, NoteDelivery, FireEnd, FireAt, Chains
<1> QED
  BY <1>1, <1>2, <1>3 DEF TimerNext

(* The variables keep their types. *)
THEOREM TimerTypeCorrect == TimerSpec => []TimerTypeOK
<1> QED
  BY TimerTypeInit, TimerTypeNext, PTL DEF TimerSpec

(* One step keeps the timer that state.timer holds the only one: setitimer   *)
(* stops it unless it is firing, which is noted; a fire that ends finds no   *)
(* other chain to take state.timer from.                                     *)
LEMMA OneTimerNext ==
  TimerTypeOK /\ OneTimerUnlessRaced /\ [TimerNext]_timerVars => OneTimerUnlessRaced'
<1> SUFFICES ASSUME TimerTypeOK, OneTimerUnlessRaced, [TimerNext]_timerVars, ~raced',
                    NEW m \in Chains, Alive(m)'
             PROVE  timer' = m
  BY DEF OneTimerUnlessRaced
<1>1. CASE UNCHANGED timerVars
  BY <1>1 DEF timerVars, OneTimerUnlessRaced, Alive
<1>2. ASSUME NEW initial \in BOOLEAN, NEW interval \in BOOLEAN, SetItimer(initial, interval)
      PROVE  timer' = m
  <2>1. ~raced /\ chain[m] \notin Firing
    BY <1>2 DEF SetItimer, TimerTypeOK
  <2>2. CASE m = sets + 1 /\ initial
    BY <1>2, <2>2 DEF SetItimer
  <2>3. CASE ~(m = sets + 1 /\ initial)
    <3>1. chain'[m] = IF m = timer /\ chain[m] = "armed" THEN "over" ELSE chain[m]
      BY <1>2, <2>3 DEF SetItimer, TimerTypeOK
    <3>2. chain[m] = "armed" => m = timer
      BY <2>1 DEF OneTimerUnlessRaced, Alive
    <3> QED
      BY <2>1, <3>1, <3>2 DEF Alive
  <2> QED
    BY <2>2, <2>3
<1>3. ASSUME NEW n \in Chains, Fire(n) PROVE timer' = m
  <2>1. ~raced /\ Alive(n)
    BY <1>3 DEF Fire, Expire, SelfSignal, NoteDelivery, FireEnd, FireAt, Alive
  <2>2. timer = n
    BY <2>1 DEF OneTimerUnlessRaced
  <2>3. m # n => chain'[m] = chain[m]
    BY <1>3 DEF Fire, Expire, SelfSignal, NoteDelivery, FireEnd, FireAt, TimerTypeOK
  <2>4. m = n
    BY <2>1, <2>2, <2>3 DEF OneTimerUnlessRaced, Alive
  <2>5. CASE FireEnd(n)
    <3>1. repeat
      BY <2>4, <2>5 DEF FireEnd, FireAt, TimerTypeOK, Alive
    <3> QED
      BY <2>4, <2>5, <3>1 DEF FireEnd
  <2>6. CASE ~FireEnd(n)
    BY <1>3, <2>2, <2>4, <2>6 DEF Fire, Expire, SelfSignal, NoteDelivery
  <2> QED
    BY <2>5, <2>6
<1> QED
  BY <1>1, <1>2, <1>3 DEF TimerNext

(* Unless setitimer found a fire under way, the timer that state.timer holds *)
(* is the only one that is armed or firing.                                  *)
THEOREM OneTimer == TimerSpec => []OneTimerUnlessRaced
<1>1. TimerInit => OneTimerUnlessRaced
  BY DEF TimerInit, OneTimerUnlessRaced, Alive
<1> QED
  BY <1>1, TimerTypeCorrect, OneTimerNext, PTL DEF TimerSpec

=============================================================================
