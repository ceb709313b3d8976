------------------------- MODULE BlockingCallsProofs -------------------------
(***************************************************************************)
(* Theorems about the blocking calls, for any threads, calls and number of *)
(* deliveries.                                                             *)
(***************************************************************************)
EXTENDS BlockingCalls, TLAPS

(* TypeOK, in parts. *)
CountersOK ==
  /\ delivered \in 0..MaxDelivered /\ observed \in 0..MaxDelivered /\ told \in 0..MaxDelivered
  /\ loaded \in [Threads -> 0..MaxDelivered]
  /\ back \in BOOLEAN
  /\ interrupts \in Nat

DescriptorOK ==
  /\ nonblock \in BOOLEAN /\ wish \in BOOLEAN /\ data \in BOOLEAN /\ room \in BOOLEAN
  /\ shared \in BOOLEAN

CallsOK ==
  /\ pc \in [Threads -> {"out", "direct", "start", "startSwap", "poll", "load", "swap",
                         "set", "io", "probe", "restore", "pause", "pauseStore"}]
  /\ call \in [Threads -> OnDescriptor \cup {"none", "sleep", "pause"}]
  /\ done \subseteq Threads
  /\ result \in [Threads -> {"ok", "EINTR", "EAGAIN"}]

(* Which calls get where. *)
CallAt(t) ==
  /\ pc[t] \in {"direct", "io", "set", "probe", "restore"} => call[t] \in OnDescriptor
  /\ pc[t] \in {"pause", "pauseStore"} => call[t] = "pause"

(* While calls on the descriptor come one at a time, the one in progress    *)
(* knows its flags, and has them changed only around its probe.             *)
FlagsAt(t) ==
  ~shared =>
    /\ UsesDescriptor(t) /\ pc[t] = "direct" => nonblock /\ wish
    /\ UsesDescriptor(t) /\ pc[t] # "direct" =>
         ~wish /\ (nonblock <=> pc[t] \in {"probe", "restore"})
    /\ \A u \in Threads \ {t} : ~(UsesDescriptor(t) /\ UsesDescriptor(u))

IInv ==
  /\ CountersOK /\ DescriptorOK /\ CallsOK
  /\ OneInterruptEach
  /\ \A t \in Threads : CallAt(t) /\ FlagsAt(t)
  /\ FlagsKept

-----------------------------------------------------------------------------

(* The initial state satisfies the invariant. *)
LEMMA InitIInv == Init => IInv
<1> SUFFICES ASSUME Init PROVE IInv
  OBVIOUS
<1>1. CountersOK /\ DescriptorOK /\ OneInterruptEach
  <2>1. 0 \in 0..MaxDelivered
    BY BlockingCallsAssumption
  <2>2. loaded \in [Threads -> 0..MaxDelivered] /\ back \in BOOLEAN
    BY <2>1, Zenon DEF Init
  <2>3. interrupts \in Nat /\ interrupts <= observed
    BY DEF Init
  <2>4. DescriptorOK
    BY Zenon DEF Init, DescriptorOK
  <2> QED
    BY <2>1, <2>2, <2>3, <2>4 DEF Init, CountersOK, OneInterruptEach
<1>2. CallsOK
  BY DEF Init, CallsOK
<1>3. \A t \in Threads : ~UsesDescriptor(t) /\ CallAt(t)
  BY DEF Init, UsesDescriptor, CallAt
<1>4. FlagsKept /\ \A t \in Threads : FlagsAt(t)
  BY <1>3 DEF Init, FlagsKept, FlagsAt
<1> QED
  BY <1>1, <1>2, <1>3, <1>4 DEF IInv

(* A call that ends for a generation takes the observed one to it: upwards, *)
(* or the loss is recorded.                                                 *)
LEMMA InterruptCounts ==
  ASSUME NEW t \in Threads, CountersOK, OneInterruptEach, delivered' = delivered,
         Interrupt(t), call[t] = "pause" \/ loaded[t] # observed
  PROVE  CountersOK' /\ OneInterruptEach'
<1> USE BlockingCallsAssumption
<1> DEFINE n == loaded[t]
<1>1. n \in 0..MaxDelivered
  BY DEF CountersOK
<1>2. /\ observed' = n
      /\ interrupts' = interrupts + (IF call[t] = "pause" THEN 0 ELSE 1)
      /\ told' = IF n > told THEN n ELSE told
      /\ back' = (back \/ n < observed)
      /\ loaded' = [loaded EXCEPT ![t] = 0]
  BY DEF Interrupt, Return
<1>3. observed' \in 0..MaxDelivered /\ told' \in 0..MaxDelivered /\ interrupts' \in Nat
  BY <1>1, <1>2 DEF CountersOK
<1>4. back' \in BOOLEAN
  BY <1>2
<1>5. loaded' \in [Threads -> 0..MaxDelivered]
  BY <1>2 DEF CountersOK
<1>6. OneInterruptEach'
  <2> SUFFICES ASSUME ~back' PROVE interrupts' <= observed'
    BY DEF OneInterruptEach
  <2>1. ~back /\ ~(n < observed)
    BY <1>2
  <2>2. interrupts <= observed
    BY <2>1 DEF OneInterruptEach
  <2> HIDE DEF n
  <2> QED
    BY <1>1, <1>2, <2>1, <2>2 DEF CountersOK, n
<1> QED
  BY <1>3, <1>4, <1>5, <1>6 DEF CountersOK

(* Every step keeps it, action by action. *)
LEMMA NextIInv == IInv /\ [Next]_vars => IInv'
<1> SUFFICES ASSUME IInv, [Next]_vars PROVE IInv'
  OBVIOUS
<1> USE BlockingCallsAssumption DEF counters, descriptor, history, OnDescriptor
<1>1. CASE UNCHANGED vars
  BY <1>1
     DEF vars, IInv, CountersOK, DescriptorOK, CallsOK, OneInterruptEach, CallAt,
         FlagsAt, FlagsKept, UsesDescriptor
<1>2. ASSUME NEW t \in Threads, SystemCall(t) PROVE IInv'
  <2>1. CountersOK'
    BY <1>2
       DEF SystemCall, Return, Continue, Goto, Ready, Transfer, AtOnce, IInv,
           CountersOK, CallsOK
  <2>2. DescriptorOK'
    BY <1>2
       DEF SystemCall, Return, Continue, Goto, Ready, Transfer, AtOnce, IInv,
           DescriptorOK
  <2>3. CallsOK'
    BY <1>2
       DEF SystemCall, Return, Continue, Goto, Ready, Transfer, AtOnce, IInv,
           CallsOK
  <2>4. OneInterruptEach'
    BY <1>2
       DEF SystemCall, Return, Continue, Goto, Ready, Transfer, AtOnce, IInv,
           CountersOK, CallsOK, OneInterruptEach
  <2>5. ASSUME NEW u \in Threads PROVE CallAt(u)'
    BY <1>2
       DEF SystemCall, Return, Continue, Goto, Ready, Transfer, AtOnce, IInv,
           CallsOK, CallAt
  <2>6. ASSUME NEW u \in Threads PROVE FlagsAt(u)'
    BY <1>2
       DEF SystemCall, Return, Continue, Goto, Ready, Transfer, AtOnce, IInv,
           DescriptorOK, CallsOK, CallAt, FlagsAt, FlagsKept, UsesDescriptor
  <2>7. FlagsKept'
    BY <1>2
       DEF SystemCall, Return, Continue, Goto, Ready, Transfer, AtOnce, IInv,
           DescriptorOK, CallsOK, CallAt, FlagsAt, FlagsKept, UsesDescriptor
  <2> QED
    BY <2>1, <2>2, <2>3, <2>4, <2>5, <2>6, <2>7 DEF IInv
<1>3. ASSUME NEW t \in Threads, Load(t) PROVE IInv'
  <2>1. CountersOK'
    BY <1>3 DEF Load, Goto, IInv, CountersOK, CallsOK
  <2>2. DescriptorOK'
    BY <1>3 DEF Load, Goto, IInv, DescriptorOK
  <2>3. CallsOK'
    BY <1>3 DEF Load, Goto, IInv, CallsOK
  <2>4. OneInterruptEach'
    BY <1>3 DEF Load, Goto, IInv, CountersOK, CallsOK, OneInterruptEach
  <2>5. ASSUME NEW u \in Threads PROVE CallAt(u)'
    BY <1>3 DEF Load, Goto, IInv, CallsOK, CallAt
  <2>6. ASSUME NEW u \in Threads PROVE FlagsAt(u)'
    BY <1>3
       DEF Load, Goto, IInv, DescriptorOK, CallsOK, CallAt, FlagsAt, FlagsKept,
           UsesDescriptor
  <2>7. FlagsKept'
    BY <1>3
       DEF Load, Goto, IInv, DescriptorOK, CallsOK, CallAt, FlagsAt, FlagsKept,
           UsesDescriptor
  <2> QED
    BY <2>1, <2>2, <2>3, <2>4, <2>5, <2>6, <2>7 DEF IInv
<1>4. ASSUME NEW t \in Threads, Swap(t) PROVE IInv'
  <2>1. CountersOK'
    <3>1. CASE observed = loaded[t]
      BY <1>4, <3>1 DEF Swap, Continue, IInv, CountersOK, OneInterruptEach
    <3>2. CASE observed # loaded[t]
      BY <1>4, <3>2, InterruptCounts DEF Swap, IInv
    <3> QED
      BY <3>1, <3>2
  <2>2. DescriptorOK'
    BY <1>4 DEF Swap, Interrupt, Return, Continue, Goto, IInv, DescriptorOK
  <2>3. CallsOK'
    BY <1>4 DEF Swap, Interrupt, Return, Continue, Goto, IInv, CallsOK
  <2>4. OneInterruptEach'
    <3>1. CASE observed = loaded[t]
      BY <1>4, <3>1 DEF Swap, Continue, IInv, CountersOK, OneInterruptEach
    <3>2. CASE observed # loaded[t]
      BY <1>4, <3>2, InterruptCounts DEF Swap, IInv
    <3> QED
      BY <3>1, <3>2
  <2>5. ASSUME NEW u \in Threads PROVE CallAt(u)'
    BY <1>4 DEF Swap, Interrupt, Return, Continue, Goto, IInv, CallsOK, CallAt
  <2>6. ASSUME NEW u \in Threads PROVE FlagsAt(u)'
    BY <1>4
       DEF Swap, Interrupt, Return, Continue, Goto, IInv, DescriptorOK, CallsOK,
           CallAt, FlagsAt, FlagsKept, UsesDescriptor
  <2>7. FlagsKept'
    BY <1>4
       DEF Swap, Interrupt, Return, Continue, Goto, IInv, DescriptorOK, CallsOK,
           CallAt, FlagsAt, FlagsKept, UsesDescriptor
  <2> QED
    BY <2>1, <2>2, <2>3, <2>4, <2>5, <2>6, <2>7 DEF IInv
<1>5. ASSUME NEW t \in Threads, Poll(t) PROVE IInv'
  <2>1. CountersOK'
    BY <1>5 DEF Poll, Continue, Goto, Ready, IInv, CountersOK, CallsOK
  <2>2. DescriptorOK'
    BY <1>5 DEF Poll, Continue, Goto, Ready, IInv, DescriptorOK
  <2>3. CallsOK'
    BY <1>5 DEF Poll, Continue, Goto, Ready, IInv, CallsOK
  <2>4. OneInterruptEach'
    BY <1>5
       DEF Poll, Continue, Goto, Ready, IInv, CountersOK, CallsOK,
           OneInterruptEach
  <2>5. ASSUME NEW u \in Threads PROVE CallAt(u)'
    BY <1>5 DEF Poll, Continue, Goto, Ready, IInv, CallsOK, CallAt
  <2>6. ASSUME NEW u \in Threads PROVE FlagsAt(u)'
    BY <1>5
       DEF Poll, Continue, Goto, Ready, IInv, DescriptorOK, CallsOK, CallAt,
           FlagsAt, FlagsKept, UsesDescriptor
  <2>7. FlagsKept'
    BY <1>5
       DEF Poll, Continue, Goto, Ready, IInv, DescriptorOK, CallsOK, CallAt,
           FlagsAt, FlagsKept, UsesDescriptor
  <2> QED
    BY <2>1, <2>2, <2>3, <2>4, <2>5, <2>6, <2>7 DEF IInv
<1>6. ASSUME NEW t \in Threads, Nap(t) PROVE IInv'
  <2>1. CountersOK'
    BY <1>6 DEF Nap, Return, Continue, Goto, IInv, CountersOK, CallsOK
  <2>2. DescriptorOK'
    BY <1>6 DEF Nap, Return, Continue, Goto, IInv, DescriptorOK
  <2>3. CallsOK'
    BY <1>6 DEF Nap, Return, Continue, Goto, IInv, CallsOK
  <2>4. OneInterruptEach'
    BY <1>6
       DEF Nap, Return, Continue, Goto, IInv, CountersOK, CallsOK,
           OneInterruptEach
  <2>5. ASSUME NEW u \in Threads PROVE CallAt(u)'
    BY <1>6 DEF Nap, Return, Continue, Goto, IInv, CallsOK, CallAt
  <2>6. ASSUME NEW u \in Threads PROVE FlagsAt(u)'
    BY <1>6
       DEF Nap, Return, Continue, Goto, IInv, DescriptorOK, CallsOK, CallAt,
           FlagsAt, FlagsKept, UsesDescriptor
  <2>7. FlagsKept'
    BY <1>6
       DEF Nap, Return, Continue, Goto, IInv, DescriptorOK, CallsOK, CallAt,
           FlagsAt, FlagsKept, UsesDescriptor
  <2> QED
    BY <2>1, <2>2, <2>3, <2>4, <2>5, <2>6, <2>7 DEF IInv
<1>7. ASSUME NEW t \in Threads, SetNonblock(t) PROVE IInv'
  <2>1. CountersOK'
    BY <1>7 DEF SetNonblock, Continue, Goto, IInv, CountersOK, CallsOK
  <2>2. DescriptorOK'
    BY <1>7 DEF SetNonblock, Continue, Goto, IInv, DescriptorOK
  <2>3. CallsOK'
    BY <1>7 DEF SetNonblock, Continue, Goto, IInv, CallsOK
  <2>4. OneInterruptEach'
    BY <1>7
       DEF SetNonblock, Continue, Goto, IInv, CountersOK, CallsOK,
           OneInterruptEach
  <2>5. ASSUME NEW u \in Threads PROVE CallAt(u)'
    BY <1>7 DEF SetNonblock, Continue, Goto, IInv, CallsOK, CallAt
  <2>6. ASSUME NEW u \in Threads PROVE FlagsAt(u)'
    BY <1>7
       DEF SetNonblock, Continue, Goto, IInv, DescriptorOK, CallsOK, CallAt,
           FlagsAt, FlagsKept, UsesDescriptor
  <2>7. FlagsKept'
    BY <1>7
       DEF SetNonblock, Continue, Goto, IInv, DescriptorOK, CallsOK, CallAt,
           FlagsAt, FlagsKept, UsesDescriptor
  <2> QED
    BY <2>1, <2>2, <2>3, <2>4, <2>5, <2>6, <2>7 DEF IInv
<1>8. ASSUME NEW t \in Threads, Probe(t) PROVE IInv'
  <2>1. CountersOK'
    BY <1>8 DEF Probe, Goto, Ready, Transfer, IInv, CountersOK, CallsOK
  <2>2. DescriptorOK'
    BY <1>8 DEF Probe, Goto, Ready, Transfer, IInv, DescriptorOK
  <2>3. CallsOK'
    BY <1>8 DEF Probe, Goto, Ready, Transfer, IInv, CallsOK
  <2>4. OneInterruptEach'
    BY <1>8
       DEF Probe, Goto, Ready, Transfer, IInv, CountersOK, CallsOK,
           OneInterruptEach
  <2>5. ASSUME NEW u \in Threads PROVE CallAt(u)'
    BY <1>8 DEF Probe, Goto, Ready, Transfer, IInv, CallsOK, CallAt
  <2>6. ASSUME NEW u \in Threads PROVE FlagsAt(u)'
    BY <1>8
       DEF Probe, Goto, Ready, Transfer, IInv, DescriptorOK, CallsOK, CallAt,
           FlagsAt, FlagsKept, UsesDescriptor
  <2>7. FlagsKept'
    BY <1>8
       DEF Probe, Goto, Ready, Transfer, IInv, DescriptorOK, CallsOK, CallAt,
           FlagsAt, FlagsKept, UsesDescriptor
  <2> QED
    BY <2>1, <2>2, <2>3, <2>4, <2>5, <2>6, <2>7 DEF IInv
<1>9. ASSUME NEW t \in Threads, Restore(t) PROVE IInv'
  <2>1. CountersOK'
    BY <1>9 DEF Restore, Return, Continue, Goto, IInv, CountersOK, CallsOK
  <2>2. DescriptorOK'
    BY <1>9 DEF Restore, Return, Continue, Goto, IInv, DescriptorOK
  <2>3. CallsOK'
    BY <1>9 DEF Restore, Return, Continue, Goto, IInv, CallsOK
  <2>4. OneInterruptEach'
    BY <1>9
       DEF Restore, Return, Continue, Goto, IInv, CountersOK, CallsOK,
           OneInterruptEach
  <2>5. ASSUME NEW u \in Threads PROVE CallAt(u)'
    BY <1>9 DEF Restore, Return, Continue, Goto, IInv, CallsOK, CallAt
  <2>6. ASSUME NEW u \in Threads PROVE FlagsAt(u)'
    BY <1>9
       DEF Restore, Return, Continue, Goto, IInv, DescriptorOK, CallsOK, CallAt,
           FlagsAt, FlagsKept, UsesDescriptor
  <2>7. FlagsKept'
    BY <1>9
       DEF Restore, Return, Continue, Goto, IInv, DescriptorOK, CallsOK, CallAt,
           FlagsAt, FlagsKept, UsesDescriptor
  <2> QED
    BY <2>1, <2>2, <2>3, <2>4, <2>5, <2>6, <2>7 DEF IInv
<1>10. ASSUME NEW t \in Threads, Pause(t) PROVE IInv'
  <2>1. CountersOK'
    BY <1>10 DEF Pause, Goto, IInv, CountersOK, CallsOK
  <2>2. DescriptorOK'
    BY <1>10 DEF Pause, Goto, IInv, DescriptorOK
  <2>3. CallsOK'
    BY <1>10 DEF Pause, Goto, IInv, CallsOK
  <2>4. OneInterruptEach'
    BY <1>10 DEF Pause, Goto, IInv, CountersOK, CallsOK, OneInterruptEach
  <2>5. ASSUME NEW u \in Threads PROVE CallAt(u)'
    BY <1>10 DEF Pause, Goto, IInv, CallsOK, CallAt
  <2>6. ASSUME NEW u \in Threads PROVE FlagsAt(u)'
    BY <1>10
       DEF Pause, Goto, IInv, DescriptorOK, CallsOK, CallAt, FlagsAt, FlagsKept,
           UsesDescriptor
  <2>7. FlagsKept'
    BY <1>10
       DEF Pause, Goto, IInv, DescriptorOK, CallsOK, CallAt, FlagsAt, FlagsKept,
           UsesDescriptor
  <2> QED
    BY <2>1, <2>2, <2>3, <2>4, <2>5, <2>6, <2>7 DEF IInv
<1>11. ASSUME NEW t \in Threads, PauseStore(t) PROVE IInv'
  <2>1. CountersOK'
    BY <1>11, InterruptCounts DEF PauseStore, IInv, CallAt
  <2>2. DescriptorOK'
    BY <1>11 DEF PauseStore, Interrupt, Return, Goto, IInv, DescriptorOK
  <2>3. CallsOK'
    BY <1>11 DEF PauseStore, Interrupt, Return, Goto, IInv, CallsOK
  <2>4. OneInterruptEach'
    BY <1>11, InterruptCounts DEF PauseStore, IInv, CallAt
  <2>5. ASSUME NEW u \in Threads PROVE CallAt(u)'
    BY <1>11 DEF PauseStore, Interrupt, Return, Goto, IInv, CallsOK, CallAt
  <2>6. ASSUME NEW u \in Threads PROVE FlagsAt(u)'
    BY <1>11
       DEF PauseStore, Interrupt, Return, Goto, IInv, DescriptorOK, CallsOK,
           CallAt, FlagsAt, FlagsKept, UsesDescriptor
  <2>7. FlagsKept'
    BY <1>11
       DEF PauseStore, Interrupt, Return, Goto, IInv, DescriptorOK, CallsOK,
           CallAt, FlagsAt, FlagsKept, UsesDescriptor
  <2> QED
    BY <2>1, <2>2, <2>3, <2>4, <2>5, <2>6, <2>7 DEF IInv
<1>12. ASSUME NEW t \in Threads, NEW c \in Calls[t], Begin(t, c) PROVE IInv'
  <2>1. CountersOK'
    BY <1>12 DEF Begin, Goto, Share, IInv, CountersOK, CallsOK
  <2>2. DescriptorOK'
    BY <1>12 DEF Begin, Goto, Share, IInv, DescriptorOK
  <2>3. CallsOK'
    BY <1>12 DEF Begin, Goto, Share, IInv, CallsOK
  <2>4. OneInterruptEach'
    BY <1>12 DEF Begin, Goto, Share, IInv, CountersOK, CallsOK, OneInterruptEach
  <2>5. ASSUME NEW u \in Threads PROVE CallAt(u)'
    BY <1>12 DEF Begin, Goto, Share, IInv, CallsOK, CallAt
  <2>6. ASSUME NEW u \in Threads PROVE FlagsAt(u)'
    BY <1>12
       DEF Begin, Goto, Share, IInv, DescriptorOK, CallsOK, CallAt, FlagsAt,
           FlagsKept, UsesDescriptor
  <2>7. FlagsKept'
    BY <1>12
       DEF Begin, Goto, Share, IInv, DescriptorOK, CallsOK, CallAt, FlagsAt,
           FlagsKept, UsesDescriptor
  <2> QED
    BY <2>1, <2>2, <2>3, <2>4, <2>5, <2>6, <2>7 DEF IInv
<1>13. ASSUME NEW t \in Threads, SetBlocking(t) PROVE IInv'
  <2>1. CountersOK'
    BY <1>13 DEF SetBlocking, Share, IInv, CountersOK, CallsOK
  <2>2. DescriptorOK'
    BY <1>13 DEF SetBlocking, Share, IInv, DescriptorOK
  <2>3. CallsOK'
    BY <1>13 DEF SetBlocking, Share, IInv, CallsOK
  <2>4. OneInterruptEach'
    BY <1>13 DEF SetBlocking, Share, IInv, CountersOK, CallsOK, OneInterruptEach
  <2>5. ASSUME NEW u \in Threads PROVE CallAt(u)'
    BY <1>13 DEF SetBlocking, Share, IInv, CallsOK, CallAt
  <2>6. ASSUME NEW u \in Threads PROVE FlagsAt(u)'
    BY <1>13
       DEF SetBlocking, Share, IInv, DescriptorOK, CallsOK, CallAt, FlagsAt,
           FlagsKept, UsesDescriptor
  <2>7. FlagsKept'
    BY <1>13
       DEF SetBlocking, Share, IInv, DescriptorOK, CallsOK, CallAt, FlagsAt,
           FlagsKept, UsesDescriptor
  <2> QED
    BY <2>1, <2>2, <2>3, <2>4, <2>5, <2>6, <2>7 DEF IInv
<1>14. CASE NoteSignalDelivery
  <2>1. CountersOK'
    BY <1>14 DEF NoteSignalDelivery, IInv, CountersOK, CallsOK
  <2>2. DescriptorOK'
    BY <1>14 DEF NoteSignalDelivery, IInv, DescriptorOK
  <2>3. CallsOK'
    BY <1>14 DEF NoteSignalDelivery, IInv, CallsOK
  <2>4. OneInterruptEach'
    BY <1>14 DEF NoteSignalDelivery, IInv, CountersOK, CallsOK, OneInterruptEach
  <2>5. ASSUME NEW u \in Threads PROVE CallAt(u)'
    BY <1>14 DEF NoteSignalDelivery, IInv, CallsOK, CallAt
  <2>6. ASSUME NEW u \in Threads PROVE FlagsAt(u)'
    BY <1>14
       DEF NoteSignalDelivery, IInv, DescriptorOK, CallsOK, CallAt, FlagsAt,
           FlagsKept, UsesDescriptor
  <2>7. FlagsKept'
    BY <1>14
       DEF NoteSignalDelivery, IInv, DescriptorOK, CallsOK, CallAt, FlagsAt,
           FlagsKept, UsesDescriptor
  <2> QED
    BY <2>1, <2>2, <2>3, <2>4, <2>5, <2>6, <2>7 DEF IInv
<1>15. CASE OtherEnd
  <2>1. CountersOK'
    BY <1>15 DEF OtherEnd, IInv, CountersOK, CallsOK
  <2>2. DescriptorOK'
    BY <1>15 DEF OtherEnd, IInv, DescriptorOK
  <2>3. CallsOK'
    BY <1>15 DEF OtherEnd, IInv, CallsOK
  <2>4. OneInterruptEach'
    BY <1>15 DEF OtherEnd, IInv, CountersOK, CallsOK, OneInterruptEach
  <2>5. ASSUME NEW u \in Threads PROVE CallAt(u)'
    BY <1>15 DEF OtherEnd, IInv, CallsOK, CallAt
  <2>6. ASSUME NEW u \in Threads PROVE FlagsAt(u)'
    BY <1>15
       DEF OtherEnd, IInv, DescriptorOK, CallsOK, CallAt, FlagsAt, FlagsKept,
           UsesDescriptor
  <2>7. FlagsKept'
    BY <1>15
       DEF OtherEnd, IInv, DescriptorOK, CallsOK, CallAt, FlagsAt, FlagsKept,
           UsesDescriptor
  <2> QED
    BY <2>1, <2>2, <2>3, <2>4, <2>5, <2>6, <2>7 DEF IInv
<1> QED
  BY <1>1, <1>2, <1>3, <1>4, <1>5, <1>6, <1>7, <1>8, <1>9, <1>10, <1>11,
     <1>12, <1>13, <1>14, <1>15 DEF Next, Step

(* The invariant holds of every reachable state. *)
THEOREM IInvHolds == Spec => []IInv
BY InitIInv, NextIInv, PTL DEF Spec

-----------------------------------------------------------------------------

(* The variables keep their types. *)
THEOREM TypeCorrect == Spec => []TypeOK
<1>1. IInv => TypeOK
  BY DEF IInv, CountersOK, DescriptorOK, CallsOK, TypeOK
<1> QED
  BY <1>1, IInvHolds, PTL

(* However consumers race, a delivery ends one call that consumes it, until *)
(* a slow one has moved the observed generation back.                       *)
THEOREM ConsumedOnce == Spec => []OneInterruptEach
<1>1. IInv => OneInterruptEach
  BY DEF IInv
<1> QED
  BY <1>1, IInvHolds, PTL

(* A call that has the descriptor for itself leaves its flags as they were, *)
(* whether it ends with data or with EINTR.                                 *)
THEOREM FlagsRestored == Spec => []FlagsKept
<1>1. IInv => FlagsKept
  BY DEF IInv
<1> QED
  BY <1>1, IInvHolds, PTL

(* And it never returns EAGAIN for a descriptor that its application thinks *)
(* is blocking.                                                             *)
THEOREM NoSpuriousEAGAIN == Spec => EAGAINIsMeant
<1>1. IInv /\ [Next]_vars =>
        [\A t \in Threads :
           pc[t] # "out" /\ pc'[t] = "out" /\ result'[t] = "EAGAIN" => wish \/ shared]_vars
  <2> SUFFICES ASSUME IInv, Next, NEW t \in Threads,
                      pc[t] # "out", pc'[t] = "out", result'[t] = "EAGAIN"
               PROVE  wish \/ shared
    BY DEF Next
  <2> USE DEF counters, descriptor, history, OnDescriptor
  <2>1. PICK u \in Threads : Step(u)
    BY
       DEF Next, SetBlocking, Begin, Goto, NoteSignalDelivery, OtherEnd, IInv,
           CallsOK
  <2>2. u = t
    BY <2>1
       DEF Step, SystemCall, Load, Swap, Poll, Nap, SetNonblock, Probe, Restore,
           Pause,
                PauseStore, Interrupt, Return, Continue, Goto, IInv, CallsOK
  <2>3. SystemCall(t) /\ ~Ready(t)
    BY <2>1, <2>2
       DEF Step, SystemCall, Load, Swap, Poll, Nap, SetNonblock, Probe, Restore,
           Pause,
                PauseStore, Interrupt, Return, Continue, Goto, IInv, CallsOK
  <2> QED
    BY <2>3
       DEF SystemCall, AtOnce, Continue, Return, Goto, IInv, CallsOK, CallAt,
           FlagsAt,
                UsesDescriptor
<1> QED
  BY <1>1, IInvHolds, PTL DEF Spec, EAGAINIsMeant

-----------------------------------------------------------------------------

(* Every comparison of the generations is made with one that some call has  *)
(* been ended for, or an older one, and the loaded one is not ahead.        *)
InOrder ==
  /\ observed <= told /\ told <= delivered
  /\ \A t \in Threads : loaded[t] <= delivered

(* A delivery that no call has been ended for differs from what the calls   *)
(* compare with: whichever loads the generation next ends for it.           *)
NotPassedOver ==
  \A n \in 1..MaxDelivered : n <= delivered /\ told < n => observed < n

LEMMA InOrderNext ==  \* the observed generation moves to one that ends a call
  IInv /\ InOrder /\ [Next]_vars => InOrder'
<1> SUFFICES ASSUME IInv, InOrder, [Next]_vars PROVE InOrder'
  OBVIOUS
<1> USE BlockingCallsAssumption DEF counters, descriptor, history
<1>0. /\ delivered \in Nat /\ observed \in Nat /\ told \in Nat
      /\ loaded \in [Threads -> 0..MaxDelivered]
      /\ \A t \in Threads : loaded[t] \in Nat /\ loaded[t] <= delivered
  BY DEF IInv, CountersOK, InOrder
<1>1. ASSUME UNCHANGED <<delivered, observed, told>>,
             NEW t \in Threads, NEW n \in Nat, n <= delivered, loaded' = [loaded EXCEPT ![t] = n]
      PROVE  InOrder'
  BY <1>0, <1>1 DEF InOrder
<1>2. ASSUME UNCHANGED <<delivered, observed, told, loaded>>
      PROVE  InOrder'
  BY <1>0, <1>2 DEF InOrder
<1>3. ASSUME NEW t \in Threads, Interrupt(t), delivered' = delivered
      PROVE  InOrder'
  <2>1. /\ observed' = loaded[t] /\ loaded' = [loaded EXCEPT ![t] = 0]
        /\ told' = IF loaded[t] > told THEN loaded[t] ELSE told
    BY <1>3 DEF Interrupt, Return
  <2>2. observed' <= told' /\ told' <= delivered'
    BY <1>0, <1>3, <2>1 DEF InOrder
  <2>3. \A u \in Threads : loaded'[u] <= delivered'
    BY <1>0, <1>3, <2>1
  <2> QED
    BY <2>2, <2>3 DEF InOrder
<1>4. ASSUME NEW t \in Threads, Step(t) PROVE InOrder'
  <2>1. CASE Load(t) \/ Pause(t)
    <3>1. UNCHANGED <<delivered, observed, told>> /\ loaded' = [loaded EXCEPT ![t] = delivered]
      BY <2>1 DEF Load, Pause
    <3>2. delivered <= delivered
      BY <1>0
    <3> QED
      BY <1>0, <1>1, <3>1, <3>2
  <2>2. CASE Swap(t) \/ PauseStore(t)
    <3>1. \/ Interrupt(t) /\ delivered' = delivered
          \/ UNCHANGED <<delivered, observed, told, loaded>>
      BY <2>2 DEF Swap, PauseStore, Continue
    <3> QED
      BY <1>2, <1>3, <3>1
  <2>3. CASE SystemCall(t) \/ Poll(t) \/ Nap(t) \/ SetNonblock(t) \/ Probe(t) \/ Restore(t)
    <3>1. /\ UNCHANGED <<delivered, observed, told>>
          /\ loaded' = loaded \/ loaded' = [loaded EXCEPT ![t] = 0]
      BY <2>3 DEF SystemCall, Poll, Nap, SetNonblock, Probe, Restore, Continue, Return
    <3> QED
      BY <1>0, <1>1, <1>2, <3>1
  <2> QED
    BY <1>4, <2>1, <2>2, <2>3 DEF Step
<1>5. ASSUME NEW t \in Threads, NEW c, Begin(t, c) PROVE InOrder'
  <2>1. /\ UNCHANGED <<delivered, observed, told>>
        /\ \/ loaded' = [loaded EXCEPT ![t] = delivered]
           \/ loaded' = [loaded EXCEPT ![t] = loaded[t]]
    BY <1>5 DEF Begin
  <2> QED
    BY <1>0, <1>1, <2>1
<1>6. CASE NoteSignalDelivery
  <2>1. delivered' = delivered + 1 /\ UNCHANGED <<observed, told, loaded>>
    BY <1>6 DEF NoteSignalDelivery
  <2> QED
    BY <1>0, <2>1 DEF InOrder
<1>7. CASE OtherEnd \/ (\E t \in Threads : SetBlocking(t)) \/ UNCHANGED vars
  BY <1>2, <1>7 DEF OtherEnd, SetBlocking, vars
<1> QED
  BY <1>4, <1>5, <1>6, <1>7 DEF Next

(* However the loads and exchanges of consumers interleave, none steps over *)
(* a delivery: until a call has been ended for it, or for a later one, the  *)
(* observed generation is older (libc_common.go, consumeSignalDelivery).    *)
THEOREM DeliveryStays == Spec => []NotPassedOver
<1>1. Init => InOrder
  BY DEF Init, InOrder
<1>2. IInv /\ InOrder => NotPassedOver
  <2> SUFFICES ASSUME IInv, InOrder, NEW n \in 1..MaxDelivered, told < n PROVE observed < n
    BY DEF NotPassedOver
  <2>1. observed \in Nat /\ told \in Nat /\ n \in Nat
    BY BlockingCallsAssumption DEF IInv, CountersOK
  <2> QED
    BY <2>1 DEF InOrder
<1> QED
  BY <1>1, <1>2, InOrderNext, IInvHolds, PTL DEF Spec

=============================================================================
