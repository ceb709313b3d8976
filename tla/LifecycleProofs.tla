--------------------------- MODULE LifecycleProofs ---------------------------
(***************************************************************************)
(* Theorems about the interpreters of a process, for any goroutines, any   *)
(* interpreters and any nesting of host functions.                         *)
(*                                                                         *)
(* Core holds whatever host functions call.  InUse needs that none of them *)
(* closes an interpreter (those under Py_FinalizeEx may try).              *)
(***************************************************************************)
EXTENDS Lifecycle, TLAPS

(* TypeOK, in parts. *)
ProcessOK ==
  /\ openMu \in Goroutines \cup {Nobody}
  /\ open \in Interps \cup {None}
  /\ runtime \in Interps \cup {None}
  /\ finalized \subseteq Interps /\ known \subseteq Interps

InterpsOK ==
  /\ mu \in [Interps -> Goroutines \cup {Nobody}]
  /\ leaked \in [Interps -> BOOLEAN]
  /\ closed \in [Interps -> BOOLEAN]
  /\ crashed \in [Interps -> BOOLEAN]

RegistryOK ==
  /\ hostReg \in [Ids -> Interps \cup {None}]
  /\ hostIDs \in [Interps -> SUBSET Ids]
  /\ hostNext \in 0..MaxHost

CallsOK ==
  /\ pc \in [Goroutines -> {"out", "newLock", "init", "redirect", "closeLock",
                            "enter", "lock", "body", "finalize", "forget"}]
  /\ op \in [Goroutines -> Ops]
  /\ stack \in [Goroutines -> Seq(Frames)]

TypeInv == ProcessOK /\ InterpsOK /\ RegistryOK /\ CallsOK

-----------------------------------------------------------------------------
(* Who holds openMu, and what that guards.                                  *)

HeadFinal(g) == stack[g] # << >> /\ Head(stack[g]).at = "finalize"
Making(g) == pc[g] \in {"newLock", "init", "redirect"}
Opening(g) == pc[g] \in {"init", "redirect"}
Closing(g) == op[g].m = "close" /\ pc[g] \in {"enter", "lock", "finalize", "forget"}
Holds(g) == Opening(g) \/ Closing(g) \/ HeadFinal(g)

(* The method in progress, and those suspended below it.                    *)
CallOK(g) ==
  /\ pc[g] \in {"closeLock", "enter", "lock", "body", "finalize", "forget"} => op[g].in \in known
  /\ pc[g] = "body" => op[g].m = "call" /\ ~HeadFinal(g)
  /\ pc[g] \in {"closeLock", "finalize", "forget"} => op[g].m = "close"
  /\ pc[g] \in {"enter", "lock"} => op[g].m # "new"

FrameOK(g, k) ==
  LET f == stack[g][k] IN
  /\ f.op.in \in known
  /\ f.at = "body" => f.op.m = "call"
  /\ f.at = "finalize" => f.op.m = "close" /\ k = 1

FramesOK(g) == \A k \in 1..Len(stack[g]) : FrameOK(g, k)

(* openMu is held by who opens or closes, also in a host function under      *)
(* Py_FinalizeEx; no interpreter is open to the others then.                *)
LockOK(g) ==
  /\ openMu = g <=> Holds(g)
  /\ Opening(g) \/ Closing(g) => ~HeadFinal(g)
  /\ Opening(g) \/ pc[g] \in {"finalize", "forget"} \/ HeadFinal(g) => open = None
  /\ pc[g] = "redirect" => runtime = op[g].in

(* A New makes an interpreter nobody else knows of. *)
NewOK ==
  /\ \A g \in Goroutines : Making(g) => op[g].in \notin known
  /\ \A g, h \in Goroutines : Making(g) /\ Making(h) /\ op[g].in = op[h].in => g = h

OpenOK ==
  /\ open # None => open \in known /\ ~closed[open]
  /\ \A i \in Interps : closed[i] => i \in known
  /\ \A i \in finalized : i \in known /\ closed[i]

Core ==
  /\ NewOK /\ OpenOK /\ OneInterpreter /\ RuntimeIsItsOwn
  /\ \A g \in Goroutines : CallOK(g) /\ FramesOK(g) /\ LockOK(g)

-----------------------------------------------------------------------------

(* A host function suspends the method that called it, and gives it back.   *)
LEMMA PushFrame ==
  ASSUME NEW s \in Seq(Frames), NEW f \in Frames, NEW t, t = <<f>> \o s
  PROVE  /\ t \in Seq(Frames) /\ t # << >> /\ Head(t) = f /\ t[1] = f
         /\ Len(s) \in Nat /\ Len(t) = Len(s) + 1
         /\ \A k \in 1..Len(t) : k # 1 => k - 1 \in 1..Len(s) /\ t[k] = s[k - 1]
         /\ \A k \in 1..Len(s) : k + 1 \in 1..Len(t) /\ t[k + 1] = s[k]
  OBVIOUS

LEMMA FirstFrame ==  \* the innermost suspended method is frame 1
  ASSUME NEW s \in Seq(Frames)
  PROVE  s # << >> => Head(s) = s[1] /\ 1 \in 1..Len(s)
  OBVIOUS

LEMMA PopFrame ==  \* ... and gives it back
  ASSUME NEW s \in Seq(Frames), s # << >>, NEW t, t = Tail(s)
  PROVE  /\ t \in Seq(Frames) /\ Head(s) \in Frames /\ Head(s) = s[1] /\ 1 \in 1..Len(s)
         /\ Len(t) \in Nat /\ Len(s) = Len(t) + 1
         /\ \A k \in 1..Len(t) : k + 1 \in 1..Len(s) /\ t[k] = s[k + 1]
         /\ t # << >> => 1 \in 1..Len(t) /\ Head(t) = t[1]
  OBVIOUS

-----------------------------------------------------------------------------

LEMMA NoOpTyped == NoOp \in Ops  \* outside, op has its type
<1>1. (CHOOSE i \in Interps : TRUE) \in Interps
  BY LifecycleAssumption
<1> QED
  BY <1>1 DEF NoOp, Ops, Methods

LEMMA TypeInit == Init => TypeInv  \* the types hold at first
<1> SUFFICES ASSUME Init PROVE TypeInv
  OBVIOUS
<1>1. ProcessOK
  BY DEF Init, ProcessOK
<1>2. InterpsOK
  <2>1. mu \in [Interps -> Goroutines \cup {Nobody}]
    BY DEF Init
  <2>2. /\ leaked \in [Interps -> BOOLEAN]
        /\ closed \in [Interps -> BOOLEAN] /\ crashed \in [Interps -> BOOLEAN]
    BY Zenon DEF Init
  <2> QED
    BY <2>1, <2>2 DEF InterpsOK
<1>3. RegistryOK
  BY LifecycleAssumption DEF Init, RegistryOK
<1>4. CallsOK
  <2>1. stack \in [Goroutines -> Seq(Frames)]
    BY DEF Init
  <2>3. op \in [Goroutines -> Ops]
    BY NoOpTyped DEF Init
  <2> QED
    BY <2>1, <2>3 DEF Init, CallsOK
<1> QED
  BY <1>1, <1>2, <1>3, <1>4 DEF TypeInv

LEMMA AddHostTypes ==  \* a new id is in range
  ASSUME TypeInv, NEW i \in Interps, AddHost(i)
  PROVE  RegistryOK' /\ hostNext' = hostNext + 1 /\ hostNext' \in Ids
<1>1. hostNext \in 0..MaxHost /\ MaxHost \in Nat /\ hostNext < MaxHost /\ hostNext' = hostNext + 1
  BY LifecycleAssumption DEF TypeInv, RegistryOK, AddHost
<1>2. hostNext' \in Ids /\ hostNext' \in 0..MaxHost
  BY <1>1 DEF Ids
<1>3. hostReg' \in [Ids -> Interps \cup {None}]
  BY <1>2 DEF AddHost, TypeInv, RegistryOK
<1>4. hostIDs' \in [Interps -> SUBSET Ids]
  BY <1>2 DEF AddHost, TypeInv, RegistryOK
<1> QED
  BY <1>1, <1>2, <1>3, <1>4 DEF RegistryOK

(* Every step keeps the types. *)
LEMMA TypeNext == TypeInv /\ [Next]_vars => TypeInv'
<1> SUFFICES ASSUME TypeInv, [Next]_vars PROVE TypeInv'
  OBVIOUS
<1> USE NoOpTyped DEF process, interps, registry, calls
<1>1. ASSUME NEW g \in Goroutines, NEW i \in Interps, StartNew(g, i) PROVE TypeInv'
  <2>1. ProcessOK'
    BY <1>1 DEF StartNew, Begun, Begin, Callable, Goto, TypeInv, ProcessOK, CallsOK, Ops
  <2>2. InterpsOK'
    BY <1>1 DEF StartNew, Begun, Begin, Callable, Goto, TypeInv, InterpsOK, CallsOK, Ops
  <2>3. RegistryOK'
    BY <1>1 DEF StartNew, Begun, Begin, Callable, Goto, TypeInv, RegistryOK, CallsOK, Ops, Ids
  <2>4. CallsOK'
    BY <1>1 DEF StartNew, Begun, Begin, Callable, Goto, TypeInv, CallsOK, Ops, Methods
  <2> QED
    BY <2>1, <2>2, <2>3, <2>4 DEF TypeInv
<1>2. ASSUME NEW g \in Goroutines, NewLock(g) PROVE TypeInv'
  <2>1. ProcessOK'
    BY <1>2 DEF NewLock, Out, Goto, TypeInv, ProcessOK, CallsOK, Ops
  <2>2. InterpsOK'
    BY <1>2 DEF NewLock, Out, Goto, TypeInv, InterpsOK, CallsOK, Ops
  <2>3. RegistryOK'
    BY <1>2 DEF NewLock, Out, Goto, TypeInv, RegistryOK, CallsOK, Ops, Ids
  <2>4. CallsOK'
    BY <1>2 DEF NewLock, Out, Goto, TypeInv, CallsOK, Ops, Methods
  <2> QED
    BY <2>1, <2>2, <2>3, <2>4 DEF TypeInv
<1>3. ASSUME NEW g \in Goroutines, Initialize(g) PROVE TypeInv'
  <2>1. ProcessOK'
    BY <1>3 DEF Initialize, Goto, TypeInv, ProcessOK, CallsOK, Ops
  <2>2. InterpsOK'
    BY <1>3 DEF Initialize, Goto, TypeInv, InterpsOK, CallsOK, Ops
  <2>3. RegistryOK'
    BY <1>3 DEF Initialize, Goto, TypeInv, RegistryOK, CallsOK, Ops, Ids
  <2>4. CallsOK'
    BY <1>3 DEF Initialize, Goto, TypeInv, CallsOK, Ops, Methods
  <2> QED
    BY <2>1, <2>2, <2>3, <2>4 DEF TypeInv
<1>4. ASSUME NEW g \in Goroutines, Redirect(g) PROVE TypeInv'
  <2>1. ProcessOK'
    BY <1>4 DEF Redirect, AddHost, TypeInv, ProcessOK, CallsOK, Ops
  <2>2. InterpsOK'
    BY <1>4 DEF Redirect, AddHost, TypeInv, InterpsOK, CallsOK, Ops
  <2>3. RegistryOK'
    BY <1>4, AddHostTypes DEF Redirect, TypeInv, CallsOK, Ops
  <2>4. CallsOK'
    BY <1>4 DEF Redirect, AddHost, TypeInv, CallsOK, Ops, Methods
  <2> QED
    BY <2>1, <2>2, <2>3, <2>4 DEF TypeInv
<1>5. ASSUME NEW g \in Goroutines, NewDone(g) PROVE TypeInv'
  <2>1. ProcessOK'
    BY <1>5 DEF NewDone, Out, Goto, TypeInv, ProcessOK, CallsOK, Ops
  <2>2. InterpsOK'
    BY <1>5 DEF NewDone, Out, Goto, TypeInv, InterpsOK, CallsOK, Ops
  <2>3. RegistryOK'
    BY <1>5 DEF NewDone, Out, Goto, TypeInv, RegistryOK, CallsOK, Ops, Ids
  <2>4. CallsOK'
    BY <1>5 DEF NewDone, Out, Goto, TypeInv, CallsOK, Ops, Methods
  <2> QED
    BY <2>1, <2>2, <2>3, <2>4 DEF TypeInv
<1>6. ASSUME NEW g \in Goroutines, NewFails(g) PROVE TypeInv'
  <2>1. ProcessOK'
    BY <1>6 DEF NewFails, Out, Goto, TypeInv, ProcessOK, CallsOK, Ops
  <2>2. InterpsOK'
    BY <1>6 DEF NewFails, Out, Goto, TypeInv, InterpsOK, CallsOK, Ops
  <2>3. RegistryOK'
    BY <1>6 DEF NewFails, Out, Goto, TypeInv, RegistryOK, CallsOK, Ops, Ids
  <2>4. CallsOK'
    BY <1>6 DEF NewFails, Out, Goto, TypeInv, CallsOK, Ops, Methods
  <2> QED
    BY <2>1, <2>2, <2>3, <2>4 DEF TypeInv
<1>7. ASSUME NEW g \in Goroutines, NEW i \in Interps, StartCall(g, i) PROVE TypeInv'
  <2>1. ProcessOK'
    BY <1>7 DEF StartCall, Begin, Callable, Goto, TypeInv, ProcessOK, CallsOK, Ops
  <2>2. InterpsOK'
    BY <1>7 DEF StartCall, Begin, Callable, Goto, TypeInv, InterpsOK, CallsOK, Ops
  <2>3. RegistryOK'
    BY <1>7 DEF StartCall, Begin, Callable, Goto, TypeInv, RegistryOK, CallsOK, Ops, Ids
  <2>4. CallsOK'
    BY <1>7 DEF StartCall, Begin, Callable, Goto, TypeInv, CallsOK, Ops, Methods
  <2> QED
    BY <2>1, <2>2, <2>3, <2>4 DEF TypeInv
<1>8. ASSUME NEW g \in Goroutines, NEW i \in Interps, StartClose(g, i) PROVE TypeInv'
  <2>1. ProcessOK'
    BY <1>8 DEF StartClose, Begin, Callable, Goto, TypeInv, ProcessOK, CallsOK, Ops
  <2>2. InterpsOK'
    BY <1>8 DEF StartClose, Begin, Callable, Goto, TypeInv, InterpsOK, CallsOK, Ops
  <2>3. RegistryOK'
    BY <1>8 DEF StartClose, Begin, Callable, Goto, TypeInv, RegistryOK, CallsOK, Ops, Ids
  <2>4. CallsOK'
    BY <1>8 DEF StartClose, Begin, Callable, Goto, TypeInv, CallsOK, Ops, Methods
  <2> QED
    BY <2>1, <2>2, <2>3, <2>4 DEF TypeInv
<1>9. ASSUME NEW g \in Goroutines, CloseLock(g) PROVE TypeInv'
  <2>1. ProcessOK'
    BY <1>9 DEF CloseLock, Goto, TypeInv, ProcessOK, CallsOK, Ops
  <2>2. InterpsOK'
    BY <1>9 DEF CloseLock, Goto, TypeInv, InterpsOK, CallsOK, Ops
  <2>3. RegistryOK'
    BY <1>9 DEF CloseLock, Goto, TypeInv, RegistryOK, CallsOK, Ops, Ids
  <2>4. CallsOK'
    BY <1>9 DEF CloseLock, Goto, TypeInv, CallsOK, Ops, Methods
  <2> QED
    BY <2>1, <2>2, <2>3, <2>4 DEF TypeInv
<1>10. ASSUME NEW g \in Goroutines, Enter(g) PROVE TypeInv'
  <2>1. ProcessOK'
    BY <1>10 DEF Enter, ByLock, ByDepth, Locked, Freed, Goto, TypeInv, ProcessOK, CallsOK, Ops
  <2>2. InterpsOK'
    BY <1>10 DEF Enter, ByLock, ByDepth, Locked, Freed, Goto, TypeInv, InterpsOK, CallsOK, Ops
  <2>3. RegistryOK'
    BY <1>10 DEF Enter, ByLock, ByDepth, Locked, Freed, Goto, TypeInv, RegistryOK, CallsOK, Ops, Ids
  <2>4. CallsOK'
    <3>1. PICK took \in BOOLEAN : op' = [op EXCEPT ![g].took = took]
      <4>1. ByLock(g) \in BOOLEAN
        BY DEF ByLock
      <4> QED
        BY <1>10, <4>1 DEF Enter
    <3>2. (op \in [Goroutines -> Ops])'
      BY <3>1 DEF TypeInv, CallsOK, Ops
    <3> QED
      BY <1>10, <3>2 DEF Enter, ByLock, ByDepth, Locked, Goto, TypeInv, CallsOK
  <2> QED
    BY <2>1, <2>2, <2>3, <2>4 DEF TypeInv
<1>11. ASSUME NEW g \in Goroutines, Refused(g) PROVE TypeInv'
  <2>1. ProcessOK'
    BY <1>11 DEF Refused, ByLock, ByDepth, Locked, Freed, Out, Goto, TypeInv, ProcessOK, CallsOK, Ops
  <2>2. InterpsOK'
    BY <1>11 DEF Refused, ByLock, ByDepth, Locked, Freed, Out, Goto, TypeInv, InterpsOK, CallsOK, Ops
  <2>3. RegistryOK'
    BY <1>11 DEF Refused, ByLock, ByDepth, Locked, Freed, Out, Goto, TypeInv, RegistryOK, CallsOK, Ops, Ids
  <2>4. CallsOK'
    BY <1>11 DEF Refused, ByLock, ByDepth, Locked, Freed, Out, Goto, TypeInv, CallsOK, Ops, Methods
  <2> QED
    BY <2>1, <2>2, <2>3, <2>4 DEF TypeInv
<1>12. ASSUME NEW g \in Goroutines, Register(g) PROVE TypeInv'
  <2>1. ProcessOK'
    BY <1>12 DEF Register, AddHost, TypeInv, ProcessOK, CallsOK, Ops
  <2>2. InterpsOK'
    BY <1>12 DEF Register, AddHost, TypeInv, InterpsOK, CallsOK, Ops
  <2>3. RegistryOK'
    BY <1>12, AddHostTypes DEF Register, TypeInv, CallsOK, Ops
  <2>4. CallsOK'
    BY <1>12 DEF Register, AddHost, TypeInv, CallsOK, Ops, Methods
  <2> QED
    BY <2>1, <2>2, <2>3, <2>4 DEF TypeInv
<1>13. ASSUME NEW g \in Goroutines, NEW id \in Ids, CallHost(g, id) PROVE TypeInv'
  <2>1. ProcessOK'
    BY <1>13 DEF CallHost, Goto, TypeInv, ProcessOK, CallsOK, Ops
  <2>2. InterpsOK'
    BY <1>13 DEF CallHost, Goto, TypeInv, InterpsOK, CallsOK, Ops
  <2>3. RegistryOK'
    BY <1>13 DEF CallHost, Goto, TypeInv, RegistryOK, CallsOK, Ops, Ids
  <2>4. CallsOK'
    <3>1. [op |-> op[g], at |-> pc[g]] \in Frames
      BY <1>13 DEF CallHost, TypeInv, CallsOK, Frames
    <3>2. <<[op |-> op[g], at |-> pc[g]]>> \o stack[g] \in Seq(Frames)
      BY <3>1, PushFrame DEF TypeInv, CallsOK
    <3> QED
      BY <1>13, <3>2 DEF CallHost, Goto, TypeInv, CallsOK
  <2> QED
    BY <2>1, <2>2, <2>3, <2>4 DEF TypeInv
<1>14. ASSUME NEW g \in Goroutines, HostReturn(g) PROVE TypeInv'
  <2>1. ProcessOK'
    BY <1>14 DEF HostReturn, Goto, TypeInv, ProcessOK, CallsOK, Ops
  <2>2. InterpsOK'
    BY <1>14 DEF HostReturn, Goto, TypeInv, InterpsOK, CallsOK, Ops
  <2>3. RegistryOK'
    BY <1>14 DEF HostReturn, Goto, TypeInv, RegistryOK, CallsOK, Ops, Ids
  <2>4. CallsOK'
    <3>1. Head(stack[g]) \in Frames /\ Tail(stack[g]) \in Seq(Frames)
      BY <1>14, PopFrame DEF HostReturn, TypeInv, CallsOK
    <3> QED
      BY <1>14, <3>1 DEF HostReturn, Goto, TypeInv, CallsOK, Frames
  <2> QED
    BY <2>1, <2>2, <2>3, <2>4 DEF TypeInv
<1>15. ASSUME NEW g \in Goroutines, BodyDone(g) PROVE TypeInv'
  <2>1. ProcessOK'
    BY <1>15 DEF BodyDone, Leave, Out, Goto, TypeInv, ProcessOK, CallsOK, Ops
  <2>2. InterpsOK'
    BY <1>15 DEF BodyDone, Leave, Out, Goto, TypeInv, InterpsOK, CallsOK, Ops
  <2>3. RegistryOK'
    BY <1>15 DEF BodyDone, Leave, Out, Goto, TypeInv, RegistryOK, CallsOK, Ops, Ids
  <2>4. CallsOK'
    BY <1>15 DEF BodyDone, Leave, Out, Goto, TypeInv, CallsOK, Ops, Methods
  <2> QED
    BY <2>1, <2>2, <2>3, <2>4 DEF TypeInv
<1>16. ASSUME NEW g \in Goroutines, BodyPanic(g) PROVE TypeInv'
  <2>1. ProcessOK'
    BY <1>16 DEF BodyPanic, Leave, Out, Goto, TypeInv, ProcessOK, CallsOK, Ops
  <2>2. InterpsOK'
    BY <1>16 DEF BodyPanic, Leave, Out, Goto, TypeInv, InterpsOK, CallsOK, Ops
  <2>3. RegistryOK'
    BY <1>16 DEF BodyPanic, Leave, Out, Goto, TypeInv, RegistryOK, CallsOK, Ops, Ids
  <2>4. CallsOK'
    BY <1>16 DEF BodyPanic, Leave, Out, Goto, TypeInv, CallsOK, Ops, Methods
  <2> QED
    BY <2>1, <2>2, <2>3, <2>4 DEF TypeInv
<1>17. ASSUME NEW g \in Goroutines, Finalize(g) PROVE TypeInv'
  <2>1. ProcessOK'
    BY <1>17 DEF Finalize, Goto, TypeInv, ProcessOK, CallsOK, Ops
  <2>2. InterpsOK'
    BY <1>17 DEF Finalize, Goto, TypeInv, InterpsOK, CallsOK, Ops
  <2>3. RegistryOK'
    BY <1>17 DEF Finalize, Goto, TypeInv, RegistryOK, CallsOK, Ops, Ids
  <2>4. CallsOK'
    BY <1>17 DEF Finalize, Goto, TypeInv, CallsOK, Ops, Methods
  <2> QED
    BY <2>1, <2>2, <2>3, <2>4 DEF TypeInv
<1>18. ASSUME NEW g \in Goroutines, FinalizePanic(g) PROVE TypeInv'
  <2>1. ProcessOK'
    BY <1>18 DEF FinalizePanic, Leave, Out, Goto, TypeInv, ProcessOK, CallsOK, Ops
  <2>2. InterpsOK'
    BY <1>18 DEF FinalizePanic, Leave, Out, Goto, TypeInv, InterpsOK, CallsOK, Ops
  <2>3. RegistryOK'
    BY <1>18 DEF FinalizePanic, Leave, Out, Goto, TypeInv, RegistryOK, CallsOK, Ops, Ids
  <2>4. CallsOK'
    BY <1>18 DEF FinalizePanic, Leave, Out, Goto, TypeInv, CallsOK, Ops, Methods
  <2> QED
    BY <2>1, <2>2, <2>3, <2>4 DEF TypeInv
<1>19. ASSUME NEW g \in Goroutines, Forget(g) PROVE TypeInv'
  <2>1. ProcessOK'
    BY <1>19 DEF Forget, Leave, Out, Goto, TypeInv, ProcessOK, CallsOK, Ops
  <2>2. InterpsOK'
    BY <1>19 DEF Forget, Leave, Out, Goto, TypeInv, InterpsOK, CallsOK, Ops
  <2>3. RegistryOK'
    BY <1>19 DEF Forget, Leave, Out, Goto, TypeInv, RegistryOK, CallsOK, Ops, Ids
  <2>4. CallsOK'
    BY <1>19 DEF Forget, Leave, Out, Goto, TypeInv, CallsOK, Ops, Methods
  <2> QED
    BY <2>1, <2>2, <2>3, <2>4 DEF TypeInv
<1>20. ASSUME NEW g \in Goroutines, Wait(g) PROVE TypeInv'
  BY <1>20 DEF Wait, Goto, TypeInv, ProcessOK, InterpsOK, RegistryOK, CallsOK
<1>21. CASE UNCHANGED vars
  BY <1>21 DEF vars, TypeInv, ProcessOK, InterpsOK, RegistryOK, CallsOK
<1> QED
  BY <1>1, <1>2, <1>3, <1>4, <1>5, <1>6, <1>7, <1>8, <1>9,
     <1>10, <1>11, <1>12, <1>13, <1>14, <1>15, <1>16, <1>17, <1>18,
     <1>19, <1>20, <1>21 DEF Next, Step

-----------------------------------------------------------------------------

LEMMA CoreInit == Init => Core  \* and what openMu guards is as it should be
BY LifecycleAssumption
   DEF Init, Core, NewOK, OpenOK, OneInterpreter, RuntimeIsItsOwn, CallOK, FramesOK, FrameOK,
       LockOK, Holds, Opening, Closing, HeadFinal, Making

(* Every step keeps it. *)
LEMMA CoreNext == TypeInv /\ Core /\ [Next]_vars => Core'
<1> SUFFICES ASSUME TypeInv, Core, [Next]_vars PROVE Core'
  OBVIOUS
<1> USE LifecycleAssumption DEF process, interps, registry, calls, TypeInv
<1>1. ASSUME NEW g \in Goroutines, NEW i \in Interps, StartNew(g, i) PROVE Core'
  <2>1. NewOK'
    BY <1>1 DEF StartNew, Begun, Begin, Callable, Goto, TypeInv, ProcessOK, InterpsOK, CallsOK, Ops, Core, NewOK, CallOK, Making
  <2>2. OpenOK'
    BY <1>1 DEF StartNew, Begun, Begin, Callable, Goto, TypeInv, ProcessOK, InterpsOK, CallsOK, Ops, Core, NewOK, OpenOK, CallOK, LockOK, Making
  <2>3. OneInterpreter'
    BY <1>1 DEF StartNew, Begun, Begin, Callable, Goto, TypeInv, ProcessOK, InterpsOK, CallsOK, Ops, Core, NewOK, OneInterpreter, CallOK, LockOK, Opening, Making
  <2>4. RuntimeIsItsOwn'
    BY <1>1 DEF StartNew, Begun, Begin, Callable, Goto, TypeInv, ProcessOK, InterpsOK, CallsOK, Ops, Core, NewOK, OneInterpreter, RuntimeIsItsOwn, CallOK, LockOK, Opening, Making
  <2>5. ASSUME NEW h \in Goroutines PROVE CallOK(h)'
    BY <1>1 DEF StartNew, Begun, Begin, Callable, Goto, TypeInv, ProcessOK, InterpsOK, CallsOK, Ops, Core, OneInterpreter, CallOK, LockOK, HeadFinal
  <2>6. ASSUME NEW h \in Goroutines PROVE FramesOK(h)'
    BY <1>1 DEF StartNew, Begun, Begin, Callable, Goto, TypeInv, ProcessOK, InterpsOK, CallsOK, Ops, Core, CallOK, FramesOK, FrameOK
  <2>7. ASSUME NEW h \in Goroutines PROVE LockOK(h)'
    BY <1>1 DEF StartNew, Begun, Begin, Callable, Goto, TypeInv, ProcessOK, InterpsOK, CallsOK, Ops, Core, OneInterpreter, OpenOK, CallOK, LockOK, Holds, Opening, Closing, HeadFinal
  <2> QED
    BY <2>1, <2>2, <2>3, <2>4, <2>5, <2>6, <2>7 DEF Core
<1>2. ASSUME NEW g \in Goroutines, NewLock(g) PROVE Core'
  <2>1. NewOK'
    <3>1. \A h \in Goroutines : Making(h)' => Making(h) /\ op'[h] = op[h]
      BY <1>2 DEF NewLock, Out, Goto, CallsOK, Making
    <3>2. UNCHANGED known
      BY <1>2 DEF NewLock
    <3> QED
      BY <3>1, <3>2 DEF Core, NewOK
  <2>2. OpenOK'
    BY <1>2 DEF NewLock, Out, Goto, TypeInv, ProcessOK, InterpsOK, CallsOK, Ops, Core, NewOK, OpenOK, CallOK, LockOK, Making
  <2>3. OneInterpreter'
    BY <1>2 DEF NewLock, Out, Goto, TypeInv, ProcessOK, InterpsOK, CallsOK, Ops, Core, NewOK, OneInterpreter, CallOK, LockOK, Opening, Making
  <2>4. RuntimeIsItsOwn'
    BY <1>2 DEF NewLock, Out, Goto, TypeInv, ProcessOK, InterpsOK, CallsOK, Ops, Core, NewOK, OneInterpreter, RuntimeIsItsOwn, CallOK, LockOK, Opening, Making
  <2>5. ASSUME NEW h \in Goroutines PROVE CallOK(h)'
    BY <1>2 DEF NewLock, Out, Goto, TypeInv, ProcessOK, InterpsOK, CallsOK, Ops, Core, OneInterpreter, CallOK, LockOK, HeadFinal
  <2>6. ASSUME NEW h \in Goroutines PROVE FramesOK(h)'
    BY <1>2 DEF NewLock, Out, Goto, TypeInv, ProcessOK, InterpsOK, CallsOK, Ops, Core, CallOK, FramesOK, FrameOK
  <2>7. ASSUME NEW h \in Goroutines PROVE LockOK(h)'
    BY <1>2 DEF NewLock, Out, Goto, TypeInv, ProcessOK, InterpsOK, CallsOK, Ops, Core, OneInterpreter, OpenOK, CallOK, LockOK, Holds, Opening, Closing, HeadFinal
  <2> QED
    BY <2>1, <2>2, <2>3, <2>4, <2>5, <2>6, <2>7 DEF Core
<1>3. ASSUME NEW g \in Goroutines, Initialize(g) PROVE Core'
  <2>1. NewOK'
    BY <1>3 DEF Initialize, Goto, TypeInv, ProcessOK, InterpsOK, CallsOK, Ops, Core, NewOK, CallOK, Making
  <2>2. OpenOK'
    BY <1>3 DEF Initialize, Goto, TypeInv, ProcessOK, InterpsOK, CallsOK, Ops, Core, NewOK, OpenOK, CallOK, LockOK, Making
  <2>3. OneInterpreter'
    BY <1>3 DEF Initialize, Goto, TypeInv, ProcessOK, InterpsOK, CallsOK, Ops, Core, NewOK, OneInterpreter, CallOK, LockOK, Opening, Making
  <2>4. RuntimeIsItsOwn'
    BY <1>3 DEF Initialize, Goto, TypeInv, ProcessOK, InterpsOK, CallsOK, Ops, Core, NewOK, OneInterpreter, RuntimeIsItsOwn, CallOK, LockOK, Opening, Making
  <2>5. ASSUME NEW h \in Goroutines PROVE CallOK(h)'
    BY <1>3 DEF Initialize, Goto, TypeInv, ProcessOK, InterpsOK, CallsOK, Ops, Core, OneInterpreter, CallOK, LockOK, HeadFinal
  <2>6. ASSUME NEW h \in Goroutines PROVE FramesOK(h)'
    BY <1>3 DEF Initialize, Goto, TypeInv, ProcessOK, InterpsOK, CallsOK, Ops, Core, CallOK, FramesOK, FrameOK
  <2>7. ASSUME NEW h \in Goroutines PROVE LockOK(h)'
    BY <1>3 DEF Initialize, Goto, TypeInv, ProcessOK, InterpsOK, CallsOK, Ops, Core, OneInterpreter, OpenOK, CallOK, LockOK, Holds, Opening, Closing, HeadFinal
  <2> QED
    BY <2>1, <2>2, <2>3, <2>4, <2>5, <2>6, <2>7 DEF Core
<1>4. ASSUME NEW g \in Goroutines, Redirect(g) PROVE Core'
  <2>1. NewOK'
    BY <1>4 DEF Redirect, AddHost, TypeInv, ProcessOK, InterpsOK, CallsOK, Ops, Core, NewOK, CallOK, Making
  <2>2. OpenOK'
    BY <1>4 DEF Redirect, AddHost, TypeInv, ProcessOK, InterpsOK, CallsOK, Ops, Core, NewOK, OpenOK, CallOK, LockOK, Making
  <2>3. OneInterpreter'
    BY <1>4 DEF Redirect, AddHost, TypeInv, ProcessOK, InterpsOK, CallsOK, Ops, Core, NewOK, OneInterpreter, CallOK, LockOK, Opening, Making
  <2>4. RuntimeIsItsOwn'
    BY <1>4 DEF Redirect, AddHost, TypeInv, ProcessOK, InterpsOK, CallsOK, Ops, Core, NewOK, OneInterpreter, RuntimeIsItsOwn, CallOK, LockOK, Opening, Making
  <2>5. ASSUME NEW h \in Goroutines PROVE CallOK(h)'
    BY <1>4 DEF Redirect, AddHost, TypeInv, ProcessOK, InterpsOK, CallsOK, Ops, Core, OneInterpreter, CallOK, LockOK, HeadFinal
  <2>6. ASSUME NEW h \in Goroutines PROVE FramesOK(h)'
    BY <1>4 DEF Redirect, AddHost, TypeInv, ProcessOK, InterpsOK, CallsOK, Ops, Core, CallOK, FramesOK, FrameOK
  <2>7. ASSUME NEW h \in Goroutines PROVE LockOK(h)'
    BY <1>4 DEF Redirect, AddHost, TypeInv, ProcessOK, InterpsOK, CallsOK, Ops, Core, OneInterpreter, OpenOK, CallOK, LockOK, Holds, Opening, Closing, HeadFinal
  <2> QED
    BY <2>1, <2>2, <2>3, <2>4, <2>5, <2>6, <2>7 DEF Core
<1>5. ASSUME NEW g \in Goroutines, NewDone(g) PROVE Core'
  <2>1. NewOK'
    BY <1>5 DEF NewDone, Out, Goto, TypeInv, ProcessOK, InterpsOK, CallsOK, Ops, Core, NewOK, CallOK, Making
  <2>2. OpenOK'
    BY <1>5 DEF NewDone, Out, Goto, TypeInv, ProcessOK, InterpsOK, CallsOK, Ops, Core, NewOK, OpenOK, CallOK, LockOK, Making
  <2>3. OneInterpreter'
    BY <1>5 DEF NewDone, Out, Goto, TypeInv, ProcessOK, InterpsOK, CallsOK, Ops, Core, NewOK, OneInterpreter, CallOK, LockOK, Opening, Making
  <2>4. RuntimeIsItsOwn'
    BY <1>5 DEF NewDone, Out, Goto, TypeInv, ProcessOK, InterpsOK, CallsOK, Ops, Core, NewOK, OneInterpreter, RuntimeIsItsOwn, CallOK, LockOK, Opening, Making
  <2>5. ASSUME NEW h \in Goroutines PROVE CallOK(h)'
    BY <1>5 DEF NewDone, Out, Goto, TypeInv, ProcessOK, InterpsOK, CallsOK, Ops, Core, OneInterpreter, CallOK, LockOK, HeadFinal
  <2>6. ASSUME NEW h \in Goroutines PROVE FramesOK(h)'
    BY <1>5 DEF NewDone, Out, Goto, TypeInv, ProcessOK, InterpsOK, CallsOK, Ops, Core, CallOK, FramesOK, FrameOK
  <2>7. ASSUME NEW h \in Goroutines PROVE LockOK(h)'
    BY <1>5 DEF NewDone, Out, Goto, TypeInv, ProcessOK, InterpsOK, CallsOK, Ops, Core, OneInterpreter, OpenOK, CallOK, LockOK, Holds, Opening, Closing, HeadFinal
  <2> QED
    BY <2>1, <2>2, <2>3, <2>4, <2>5, <2>6, <2>7 DEF Core
<1>6. ASSUME NEW g \in Goroutines, NewFails(g) PROVE Core'
  <2>1. NewOK'
    BY <1>6 DEF NewFails, Out, Goto, TypeInv, ProcessOK, InterpsOK, CallsOK, Ops, Core, NewOK, CallOK, Making
  <2>2. OpenOK'
    BY <1>6 DEF NewFails, Out, Goto, TypeInv, ProcessOK, InterpsOK, CallsOK, Ops, Core, NewOK, OpenOK, CallOK, LockOK, Making
  <2>3. OneInterpreter'
    BY <1>6 DEF NewFails, Out, Goto, TypeInv, ProcessOK, InterpsOK, CallsOK, Ops, Core, NewOK, OneInterpreter, CallOK, LockOK, Opening, Making
  <2>4. RuntimeIsItsOwn'
    BY <1>6 DEF NewFails, Out, Goto, TypeInv, ProcessOK, InterpsOK, CallsOK, Ops, Core, NewOK, OneInterpreter, RuntimeIsItsOwn, CallOK, LockOK, Opening, Making
  <2>5. ASSUME NEW h \in Goroutines PROVE CallOK(h)'
    BY <1>6 DEF NewFails, Out, Goto, TypeInv, ProcessOK, InterpsOK, CallsOK, Ops, Core, OneInterpreter, CallOK, LockOK, HeadFinal
  <2>6. ASSUME NEW h \in Goroutines PROVE FramesOK(h)'
    BY <1>6 DEF NewFails, Out, Goto, TypeInv, ProcessOK, InterpsOK, CallsOK, Ops, Core, CallOK, FramesOK, FrameOK
  <2>7. ASSUME NEW h \in Goroutines PROVE LockOK(h)'
    BY <1>6 DEF NewFails, Out, Goto, TypeInv, ProcessOK, InterpsOK, CallsOK, Ops, Core, OneInterpreter, OpenOK, CallOK, LockOK, Holds, Opening, Closing, HeadFinal
  <2> QED
    BY <2>1, <2>2, <2>3, <2>4, <2>5, <2>6, <2>7 DEF Core
<1>7. ASSUME NEW g \in Goroutines, NEW i \in Interps, StartCall(g, i) PROVE Core'
  <2>1. NewOK'
    BY <1>7 DEF StartCall, Begin, Callable, Goto, TypeInv, ProcessOK, InterpsOK, CallsOK, Ops, Core, NewOK, CallOK, Making
  <2>2. OpenOK'
    BY <1>7 DEF StartCall, Begin, Callable, Goto, TypeInv, ProcessOK, InterpsOK, CallsOK, Ops, Core, NewOK, OpenOK, CallOK, LockOK, Making
  <2>3. OneInterpreter'
    BY <1>7 DEF StartCall, Begin, Callable, Goto, TypeInv, ProcessOK, InterpsOK, CallsOK, Ops, Core, NewOK, OneInterpreter, CallOK, LockOK, Opening, Making
  <2>4. RuntimeIsItsOwn'
    BY <1>7 DEF StartCall, Begin, Callable, Goto, TypeInv, ProcessOK, InterpsOK, CallsOK, Ops, Core, NewOK, OneInterpreter, RuntimeIsItsOwn, CallOK, LockOK, Opening, Making
  <2>5. ASSUME NEW h \in Goroutines PROVE CallOK(h)'
    BY <1>7 DEF StartCall, Begin, Callable, Goto, TypeInv, ProcessOK, InterpsOK, CallsOK, Ops, Core, OneInterpreter, CallOK, LockOK, HeadFinal
  <2>6. ASSUME NEW h \in Goroutines PROVE FramesOK(h)'
    BY <1>7 DEF StartCall, Begin, Callable, Goto, TypeInv, ProcessOK, InterpsOK, CallsOK, Ops, Core, CallOK, FramesOK, FrameOK
  <2>7. ASSUME NEW h \in Goroutines PROVE LockOK(h)'
    BY <1>7 DEF StartCall, Begin, Callable, Goto, TypeInv, ProcessOK, InterpsOK, CallsOK, Ops, Core, OneInterpreter, OpenOK, CallOK, LockOK, Holds, Opening, Closing, HeadFinal
  <2> QED
    BY <2>1, <2>2, <2>3, <2>4, <2>5, <2>6, <2>7 DEF Core
<1>8. ASSUME NEW g \in Goroutines, NEW i \in Interps, StartClose(g, i) PROVE Core'
  <2>1. NewOK'
    BY <1>8 DEF StartClose, Begin, Callable, Goto, TypeInv, ProcessOK, InterpsOK, CallsOK, Ops, Core, NewOK, CallOK, Making
  <2>2. OpenOK'
    BY <1>8 DEF StartClose, Begin, Callable, Goto, TypeInv, ProcessOK, InterpsOK, CallsOK, Ops, Core, NewOK, OpenOK, CallOK, LockOK, Making
  <2>3. OneInterpreter'
    BY <1>8 DEF StartClose, Begin, Callable, Goto, TypeInv, ProcessOK, InterpsOK, CallsOK, Ops, Core, NewOK, OneInterpreter, CallOK, LockOK, Opening, Making
  <2>4. RuntimeIsItsOwn'
    BY <1>8 DEF StartClose, Begin, Callable, Goto, TypeInv, ProcessOK, InterpsOK, CallsOK, Ops, Core, NewOK, OneInterpreter, RuntimeIsItsOwn, CallOK, LockOK, Opening, Making
  <2>5. ASSUME NEW h \in Goroutines PROVE CallOK(h)'
    BY <1>8 DEF StartClose, Begin, Callable, Goto, TypeInv, ProcessOK, InterpsOK, CallsOK, Ops, Core, OneInterpreter, CallOK, LockOK, HeadFinal
  <2>6. ASSUME NEW h \in Goroutines PROVE FramesOK(h)'
    BY <1>8 DEF StartClose, Begin, Callable, Goto, TypeInv, ProcessOK, InterpsOK, CallsOK, Ops, Core, CallOK, FramesOK, FrameOK
  <2>7. ASSUME NEW h \in Goroutines PROVE LockOK(h)'
    BY <1>8 DEF StartClose, Begin, Callable, Goto, TypeInv, ProcessOK, InterpsOK, CallsOK, Ops, Core, OneInterpreter, OpenOK, CallOK, LockOK, Holds, Opening, Closing, HeadFinal
  <2> QED
    BY <2>1, <2>2, <2>3, <2>4, <2>5, <2>6, <2>7 DEF Core
<1>9. ASSUME NEW g \in Goroutines, CloseLock(g) PROVE Core'
  <2>1. NewOK'
    BY <1>9 DEF CloseLock, Goto, TypeInv, ProcessOK, InterpsOK, CallsOK, Ops, Core, NewOK, CallOK, Making
  <2>2. OpenOK'
    BY <1>9 DEF CloseLock, Goto, TypeInv, ProcessOK, InterpsOK, CallsOK, Ops, Core, NewOK, OpenOK, CallOK, LockOK, Making
  <2>3. OneInterpreter'
    BY <1>9 DEF CloseLock, Goto, TypeInv, ProcessOK, InterpsOK, CallsOK, Ops, Core, NewOK, OneInterpreter, CallOK, LockOK, Opening, Making
  <2>4. RuntimeIsItsOwn'
    BY <1>9 DEF CloseLock, Goto, TypeInv, ProcessOK, InterpsOK, CallsOK, Ops, Core, NewOK, OneInterpreter, RuntimeIsItsOwn, CallOK, LockOK, Opening, Making
  <2>5. ASSUME NEW h \in Goroutines PROVE CallOK(h)'
    BY <1>9 DEF CloseLock, Goto, TypeInv, ProcessOK, InterpsOK, CallsOK, Ops, Core, OneInterpreter, CallOK, LockOK, HeadFinal
  <2>6. ASSUME NEW h \in Goroutines PROVE FramesOK(h)'
    BY <1>9 DEF CloseLock, Goto, TypeInv, ProcessOK, InterpsOK, CallsOK, Ops, Core, CallOK, FramesOK, FrameOK
  <2>7. ASSUME NEW h \in Goroutines PROVE LockOK(h)'
    BY <1>9 DEF CloseLock, Goto, TypeInv, ProcessOK, InterpsOK, CallsOK, Ops, Core, OneInterpreter, OpenOK, CallOK, LockOK, Holds, Opening, Closing, HeadFinal
  <2> QED
    BY <2>1, <2>2, <2>3, <2>4, <2>5, <2>6, <2>7 DEF Core
<1>10. ASSUME NEW g \in Goroutines, Enter(g) PROVE Core'
  <2>1. NewOK'
    BY <1>10 DEF Enter, ByLock, ByDepth, Locked, Freed, Goto, TypeInv, ProcessOK, InterpsOK, CallsOK, Ops, Core, NewOK, CallOK, Making
  <2>2. OpenOK'
    <3>1. op[g].in \in known /\ op[g].in \in Interps
      BY <1>10 DEF Enter, ByLock, ByDepth, Locked, Core, CallOK, CallsOK, Ops
    <3>2. CASE op[g].m = "close"
      <4>1. open' # None => open' = open /\ open # op[g].in
        BY <1>10, <3>2 DEF Enter, ByLock, ByDepth, Locked, Freed
      <4>2. \A i \in Interps : closed'[i] = (closed[i] \/ i = op[g].in)
        BY <1>10, <3>1, <3>2 DEF Enter, ByLock, ByDepth, Locked, InterpsOK
      <4>3. UNCHANGED <<known, finalized>>
        BY <1>10 DEF Enter
      <4> QED
        BY <3>1, <4>1, <4>2, <4>3 DEF Core, OpenOK, ProcessOK
    <3>3. CASE op[g].m # "close"
      BY <1>10, <3>3 DEF Enter, ByLock, ByDepth, Locked, Core, OpenOK
    <3> QED
      BY <3>2, <3>3
  <2>a. op[g].in \in known /\ op[g].in \in Interps /\ ~closed[op[g].in] /\ known \subseteq Interps
    BY <1>10 DEF Enter, ByLock, ByDepth, Core, CallOK, CallsOK, Ops, ProcessOK
  <2>b. /\ UNCHANGED <<known, crashed, runtime>>
        /\ op[g].m # "close" => UNCHANGED <<closed, open>>
        /\ op[g].m = "close" => closed' = [closed EXCEPT ![op[g].in] = TRUE] /\ open' = Freed(op[g].in)
    BY <1>10 DEF Enter
  <2>c. \A i \in Interps : ~closed'[i] => ~closed[i] /\ (op[g].m = "close" => i # op[g].in)
    BY <2>a, <2>b DEF InterpsOK
  <2>3. OneInterpreter'
    BY <2>a, <2>b, <2>c DEF Core, OneInterpreter, Freed
  <2>4. RuntimeIsItsOwn'
    BY <2>a, <2>b, <2>c DEF Core, RuntimeIsItsOwn
  <2>5. ASSUME NEW h \in Goroutines PROVE CallOK(h)'
    <3>1. /\ op[g].in \in known /\ op[g].m # "new" /\ pc[g] \in {"enter", "lock"}
          /\ op[g].m \in Methods /\ ~closed[op[g].in]
      BY <1>10 DEF Enter, ByLock, ByDepth, Locked, Core, CallOK, CallsOK, Ops
    <3>2. open = op[g].in /\ open # None
      BY <3>1 DEF Core, OneInterpreter, ProcessOK
    <3>3. ~HeadFinal(g)
      BY <3>2 DEF Core, LockOK
    <3>4. /\ op'[h].m = op[h].m /\ op'[h].in = op[h].in
          /\ UNCHANGED known /\ (HeadFinal(h)' <=> HeadFinal(h))
      BY <1>10 DEF Enter, ByLock, ByDepth, Locked, CallsOK, Ops, HeadFinal
    <3>5. h # g => pc'[h] = pc[h]
      BY <1>10 DEF Enter, ByLock, ByDepth, Locked, Goto, CallsOK
    <3>6. /\ pc'[g] \in {"body", "finalize"}
          /\ pc'[g] = "finalize" <=> op[g].m = "close"
      BY <1>10 DEF Enter, ByLock, ByDepth, Locked, Goto, CallsOK
    <3> QED
      BY <3>1, <3>3, <3>4, <3>5, <3>6 DEF Core, CallOK, Methods
  <2>6. ASSUME NEW h \in Goroutines PROVE FramesOK(h)'
    BY <1>10 DEF Enter, ByLock, ByDepth, Locked, Freed, Goto, TypeInv, ProcessOK, InterpsOK, CallsOK, Ops, Core, CallOK, FramesOK, FrameOK
  <2>7. ASSUME NEW h \in Goroutines PROVE LockOK(h)'
    BY <1>10 DEF Enter, ByLock, ByDepth, Locked, Freed, Goto, TypeInv, ProcessOK, InterpsOK, CallsOK, Ops, Core, OneInterpreter, OpenOK, CallOK, LockOK, Holds, Opening, Closing, HeadFinal
  <2> QED
    BY <2>1, <2>2, <2>3, <2>4, <2>5, <2>6, <2>7 DEF Core
<1>11. ASSUME NEW g \in Goroutines, Refused(g) PROVE Core'
  <2>1. NewOK'
    BY <1>11 DEF Refused, ByLock, ByDepth, Locked, Freed, Out, Goto, TypeInv, ProcessOK, InterpsOK, CallsOK, Ops, Core, NewOK, CallOK, Making
  <2>2. OpenOK'
    <3>1. op[g].in \in known /\ op[g].in \in Interps
      BY <1>11 DEF Refused, ByLock, ByDepth, Locked, Core, CallOK, CallsOK, Ops
    <3>2. CASE op[g].m = "close"
      <4>1. open' # None => open' = open /\ open # op[g].in
        BY <1>11, <3>1, <3>2 DEF Refused, ByLock, ByDepth, Locked, Freed, Core, OpenOK
      <4>2. \A i \in Interps : closed'[i] = (closed[i] \/ i = op[g].in)
        BY <1>11, <3>1, <3>2 DEF Refused, ByLock, ByDepth, Locked, InterpsOK
      <4>3. UNCHANGED <<known, finalized>>
        BY <1>11 DEF Refused
      <4> QED
        BY <3>1, <4>1, <4>2, <4>3 DEF Core, OpenOK, ProcessOK
    <3>3. CASE op[g].m # "close"
      BY <1>11, <3>3 DEF Refused, ByLock, ByDepth, Locked, Core, OpenOK
    <3> QED
      BY <3>2, <3>3
  <2>a. op[g].in \in Interps /\ known \subseteq Interps
    BY DEF TypeInv, CallsOK, Ops, ProcessOK
  <2>b. UNCHANGED <<known, crashed, runtime>>
    BY <1>11 DEF Refused
  <2>c. \A i \in Interps : ~closed'[i] => ~closed[i]
    BY <1>11, <2>a DEF Refused, ByLock, ByDepth, Locked, TypeInv, InterpsOK
  <2>3. OneInterpreter'
    <3> SUFFICES ASSUME NEW i \in known, ~closed'[i] PROVE open' = i
      BY <2>b DEF OneInterpreter
    <3>1. open = i
      BY <2>a, <2>c DEF Core, OneInterpreter
    <3>2. CASE op[g].m = "close"
      <4>1. closed'[op[g].in] = TRUE
        BY <1>11, <2>a, <3>2 DEF Refused, ByLock, ByDepth, Locked, TypeInv, InterpsOK
      <4>2. i # op[g].in
        BY <4>1
      <4>3. open' = IF crashed[op[g].in] THEN Freed(op[g].in) ELSE open
        BY <1>11, <3>2 DEF Refused
      <4> QED
        BY <3>1, <4>2, <4>3 DEF Freed
    <3>3. CASE op[g].m # "close"
      BY <1>11, <3>1, <3>3 DEF Refused
    <3> QED
      BY <3>2, <3>3
  <2>4. RuntimeIsItsOwn'
    BY <2>a, <2>b, <2>c DEF Core, RuntimeIsItsOwn
  <2>5. ASSUME NEW h \in Goroutines PROVE CallOK(h)'
    BY <1>11 DEF Refused, ByLock, ByDepth, Locked, Freed, Out, Goto, TypeInv, ProcessOK, InterpsOK, CallsOK, Ops, Core, OneInterpreter, CallOK, LockOK, HeadFinal
  <2>6. ASSUME NEW h \in Goroutines PROVE FramesOK(h)'
    BY <1>11 DEF Refused, ByLock, ByDepth, Locked, Freed, Out, Goto, TypeInv, ProcessOK, InterpsOK, CallsOK, Ops, Core, CallOK, FramesOK, FrameOK
  <2>7. ASSUME NEW h \in Goroutines PROVE LockOK(h)'
    BY <1>11 DEF Refused, ByLock, ByDepth, Locked, Freed, Out, Goto, TypeInv, ProcessOK, InterpsOK, CallsOK, Ops, Core, OneInterpreter, OpenOK, CallOK, LockOK, Holds, Opening, Closing, HeadFinal
  <2> QED
    BY <2>1, <2>2, <2>3, <2>4, <2>5, <2>6, <2>7 DEF Core
<1>12. ASSUME NEW g \in Goroutines, Register(g) PROVE Core'
  <2>1. NewOK'
    BY <1>12 DEF Register, AddHost, TypeInv, ProcessOK, InterpsOK, CallsOK, Ops, Core, NewOK, CallOK, Making
  <2>2. OpenOK'
    BY <1>12 DEF Register, AddHost, TypeInv, ProcessOK, InterpsOK, CallsOK, Ops, Core, NewOK, OpenOK, CallOK, LockOK, Making
  <2>3. OneInterpreter'
    BY <1>12 DEF Register, AddHost, TypeInv, ProcessOK, InterpsOK, CallsOK, Ops, Core, NewOK, OneInterpreter, CallOK, LockOK, Opening, Making
  <2>4. RuntimeIsItsOwn'
    BY <1>12 DEF Register, AddHost, TypeInv, ProcessOK, InterpsOK, CallsOK, Ops, Core, NewOK, OneInterpreter, RuntimeIsItsOwn, CallOK, LockOK, Opening, Making
  <2>5. ASSUME NEW h \in Goroutines PROVE CallOK(h)'
    BY <1>12 DEF Register, AddHost, TypeInv, ProcessOK, InterpsOK, CallsOK, Ops, Core, OneInterpreter, CallOK, LockOK, HeadFinal
  <2>6. ASSUME NEW h \in Goroutines PROVE FramesOK(h)'
    BY <1>12 DEF Register, AddHost, TypeInv, ProcessOK, InterpsOK, CallsOK, Ops, Core, CallOK, FramesOK, FrameOK
  <2>7. ASSUME NEW h \in Goroutines PROVE LockOK(h)'
    BY <1>12 DEF Register, AddHost, TypeInv, ProcessOK, InterpsOK, CallsOK, Ops, Core, OneInterpreter, OpenOK, CallOK, LockOK, Holds, Opening, Closing, HeadFinal
  <2> QED
    BY <2>1, <2>2, <2>3, <2>4, <2>5, <2>6, <2>7 DEF Core
<1>13. ASSUME NEW g \in Goroutines, NEW id \in Ids, CallHost(g, id) PROVE Core'
  <2>1. NewOK'
    BY <1>13 DEF CallHost, Goto, TypeInv, ProcessOK, InterpsOK, CallsOK, Ops, Core, NewOK, CallOK, Making
  <2>2. OpenOK'
    BY <1>13 DEF CallHost, Goto, TypeInv, ProcessOK, InterpsOK, CallsOK, Ops, Core, NewOK, OpenOK, CallOK, LockOK, Making
  <2>3. OneInterpreter'
    BY <1>13 DEF CallHost, Goto, TypeInv, ProcessOK, InterpsOK, CallsOK, Ops, Core, NewOK, OneInterpreter, CallOK, LockOK, Opening, Making
  <2>4. RuntimeIsItsOwn'
    BY <1>13 DEF CallHost, Goto, TypeInv, ProcessOK, InterpsOK, CallsOK, Ops, Core, NewOK, OneInterpreter, RuntimeIsItsOwn, CallOK, LockOK, Opening, Making
  <2>5. ASSUME NEW h \in Goroutines PROVE CallOK(h)'
    BY <1>13 DEF CallHost, Goto, TypeInv, ProcessOK, InterpsOK, CallsOK, Ops, Core, OneInterpreter, CallOK, LockOK, HeadFinal
  <2>6. ASSUME NEW h \in Goroutines PROVE FramesOK(h)'
    <3> DEFINE f == [op |-> op[g], at |-> pc[g]]
    <3>1. f \in Frames /\ pc[g] \in {"body", "finalize"} /\ UNCHANGED known /\ f.op = op[g] /\ f.at = pc[g]
      BY <1>13 DEF CallHost, CallsOK, Frames
    <3>2. /\ stack'[g] = <<f>> \o stack[g] /\ stack[g] \in Seq(Frames)
          /\ h # g => stack'[h] = stack[h]
      BY <1>13 DEF CallHost, CallsOK
    <3>3. /\ stack'[g][1] = f
          /\ \A k \in 1..Len(stack'[g]) : k # 1 => k - 1 \in 1..Len(stack[g]) /\ stack'[g][k] = stack[g][k - 1]
      BY <3>1, <3>2, PushFrame
    <3>4. f.op.in \in known /\ (f.at = "body" => f.op.m = "call") /\ (f.at = "finalize" => f.op.m = "close")
      BY <3>1 DEF Core, CallOK
    <3>5. ~HeadFinal(g)
      BY <3>1 DEF Core, CallOK, LockOK, Closing
    <3> HIDE DEF f
    <3>6. \A k \in 1..Len(stack[g]) : FrameOK(g, k) /\ stack[g][k].at # "finalize"
      BY <3>2, <3>5, FirstFrame DEF Core, FramesOK, FrameOK, HeadFinal
    <3>7. CASE h = g
      BY <3>1, <3>3, <3>4, <3>6, <3>7 DEF FramesOK, FrameOK
    <3>8. CASE h # g
      BY <3>1, <3>2, <3>8 DEF Core, FramesOK, FrameOK
    <3> QED
      BY <3>7, <3>8
  <2>7. ASSUME NEW h \in Goroutines PROVE LockOK(h)'
    BY <1>13 DEF CallHost, Goto, TypeInv, ProcessOK, InterpsOK, CallsOK, Ops, Core, OneInterpreter, OpenOK, CallOK, LockOK, Holds, Opening, Closing, HeadFinal
  <2> QED
    BY <2>1, <2>2, <2>3, <2>4, <2>5, <2>6, <2>7 DEF Core
<1>14. ASSUME NEW g \in Goroutines, HostReturn(g) PROVE Core'
  <2>1. NewOK'
    <3>1. /\ pc[g] = "out" /\ stack[g] # << >> /\ stack[g] \in Seq(Frames)
          /\ pc' = [pc EXCEPT ![g] = Head(stack[g]).at]
          /\ op' = [op EXCEPT ![g] = Head(stack[g]).op]
          /\ stack' = [stack EXCEPT ![g] = Tail(stack[g])]
          /\ UNCHANGED <<process, interps, registry>>
      BY <1>14 DEF HostReturn, Goto, CallsOK
    <3>2. /\ Head(stack[g]) = stack[g][1] /\ 1 \in 1..Len(stack[g])
          /\ Head(stack[g]) \in Frames
      BY <3>1, PopFrame
    <3>3. FrameOK(g, 1)
      BY <3>2 DEF Core, FramesOK
    <3>4. \A u \in Goroutines : Making(u)' => Making(u) /\ op'[u] = op[u]
      BY <3>1, <3>2 DEF CallsOK, Making, Frames
    <3> QED
      BY <3>1, <3>4 DEF Core, NewOK
  <2>2. OpenOK'
    BY <1>14 DEF HostReturn, Goto, TypeInv, ProcessOK, InterpsOK, CallsOK, Ops, Core, NewOK, OpenOK, CallOK, LockOK, Making
  <2>3. OneInterpreter'
    BY <1>14 DEF HostReturn, Goto, TypeInv, ProcessOK, InterpsOK, CallsOK, Ops, Core, NewOK, OneInterpreter, CallOK, LockOK, Opening, Making
  <2>4. RuntimeIsItsOwn'
    BY <1>14 DEF HostReturn, Goto, TypeInv, ProcessOK, InterpsOK, CallsOK, Ops, Core, NewOK, OneInterpreter, RuntimeIsItsOwn, CallOK, LockOK, Opening, Making
  <2>5. ASSUME NEW h \in Goroutines PROVE CallOK(h)'
    <3>1. /\ pc[g] = "out" /\ stack[g] # << >> /\ stack[g] \in Seq(Frames)
          /\ pc' = [pc EXCEPT ![g] = Head(stack[g]).at]
          /\ op' = [op EXCEPT ![g] = Head(stack[g]).op]
          /\ stack' = [stack EXCEPT ![g] = Tail(stack[g])]
          /\ UNCHANGED <<process, interps, registry>>
      BY <1>14 DEF HostReturn, Goto, CallsOK
    <3>2. /\ Head(stack[g]) = stack[g][1] /\ 1 \in 1..Len(stack[g])
          /\ Head(stack[g]) \in Frames
      BY <3>1, PopFrame
    <3>3. FrameOK(g, 1)
      BY <3>2 DEF Core, FramesOK
    <3>4. \A k \in 1..Len(stack'[g]) : k + 1 \in 1..Len(stack[g]) /\ stack'[g][k] = stack[g][k + 1]
      BY <3>1, PopFrame DEF CallsOK
    <3>5. \A k \in 1..Len(stack'[g]) : stack'[g][k].at # "finalize"
      BY <3>4 DEF Core, FramesOK, FrameOK
    <3>6. ~HeadFinal(g)'
      <4>1. stack'[g] # << >> => 1 \in 1..Len(stack'[g]) /\ Head(stack'[g]) = stack'[g][1]
        BY <3>1, PopFrame DEF CallsOK
      <4> QED
        BY <3>5, <4>1 DEF HeadFinal
    <3>7. pc'[g] = stack[g][1].at /\ op'[g] = stack[g][1].op /\ stack[g][1].at \in {"body", "finalize"}
      BY <3>1, <3>2 DEF CallsOK, Frames
    <3>8. h # g => pc'[h] = pc[h] /\ op'[h] = op[h] /\ stack'[h] = stack[h]
      BY <3>1 DEF CallsOK
    <3>9. CASE h = g
      BY <3>1, <3>3, <3>6, <3>7, <3>9 DEF CallOK, FrameOK
    <3>10. CASE h # g
      BY <3>1, <3>8, <3>10 DEF Core, CallOK, HeadFinal
    <3> QED
      BY <3>9, <3>10
  <2>6. ASSUME NEW h \in Goroutines PROVE FramesOK(h)'
    <3>1. /\ pc[g] = "out" /\ stack[g] # << >> /\ stack[g] \in Seq(Frames)
          /\ pc' = [pc EXCEPT ![g] = Head(stack[g]).at]
          /\ op' = [op EXCEPT ![g] = Head(stack[g]).op]
          /\ stack' = [stack EXCEPT ![g] = Tail(stack[g])]
          /\ UNCHANGED <<process, interps, registry>>
      BY <1>14 DEF HostReturn, Goto, CallsOK
    <3>2. /\ Head(stack[g]) = stack[g][1] /\ 1 \in 1..Len(stack[g])
          /\ Head(stack[g]) \in Frames
      BY <3>1, PopFrame
    <3>3. FrameOK(g, 1)
      BY <3>2 DEF Core, FramesOK
    <3>4. \A k \in 1..Len(stack'[g]) : k + 1 \in 1..Len(stack[g]) /\ stack'[g][k] = stack[g][k + 1]
      BY <3>1, PopFrame DEF CallsOK
    <3>5. \A k \in 1..Len(stack'[g]) : stack'[g][k].at # "finalize"
      BY <3>4 DEF Core, FramesOK, FrameOK
    <3>6. ~HeadFinal(g)'
      <4>1. stack'[g] # << >> => 1 \in 1..Len(stack'[g]) /\ Head(stack'[g]) = stack'[g][1]
        BY <3>1, PopFrame DEF CallsOK
      <4> QED
        BY <3>5, <4>1 DEF HeadFinal
    <3>7. pc'[g] = stack[g][1].at /\ op'[g] = stack[g][1].op /\ stack[g][1].at \in {"body", "finalize"}
      BY <3>1, <3>2 DEF CallsOK, Frames
    <3>8. h # g => pc'[h] = pc[h] /\ op'[h] = op[h] /\ stack'[h] = stack[h]
      BY <3>1 DEF CallsOK
    <3>9. CASE h = g
      <4>1. ASSUME NEW k \in 1..Len(stack'[g]) PROVE FrameOK(g, k)'
        <5>1. FrameOK(g, k + 1) /\ stack'[g][k] = stack[g][k + 1] /\ stack'[g][k].at # "finalize"
          BY <3>4, <3>5 DEF Core, FramesOK
        <5> QED
          BY <3>1, <5>1 DEF FrameOK
      <4> QED
        BY <3>9, <4>1 DEF FramesOK
    <3>10. CASE h # g
      BY <3>1, <3>8, <3>10 DEF Core, FramesOK, FrameOK
    <3> QED
      BY <3>9, <3>10
  <2>7. ASSUME NEW h \in Goroutines PROVE LockOK(h)'
    <3>1. /\ pc[g] = "out" /\ stack[g] # << >> /\ stack[g] \in Seq(Frames)
          /\ pc' = [pc EXCEPT ![g] = Head(stack[g]).at]
          /\ op' = [op EXCEPT ![g] = Head(stack[g]).op]
          /\ stack' = [stack EXCEPT ![g] = Tail(stack[g])]
          /\ UNCHANGED <<process, interps, registry>>
      BY <1>14 DEF HostReturn, Goto, CallsOK
    <3>2. /\ Head(stack[g]) = stack[g][1] /\ 1 \in 1..Len(stack[g])
          /\ Head(stack[g]) \in Frames
      BY <3>1, PopFrame
    <3>3. FrameOK(g, 1)
      BY <3>2 DEF Core, FramesOK
    <3>4. \A k \in 1..Len(stack'[g]) : k + 1 \in 1..Len(stack[g]) /\ stack'[g][k] = stack[g][k + 1]
      BY <3>1, PopFrame DEF CallsOK
    <3>5. \A k \in 1..Len(stack'[g]) : stack'[g][k].at # "finalize"
      BY <3>4 DEF Core, FramesOK, FrameOK
    <3>6. ~HeadFinal(g)'
      <4>1. stack'[g] # << >> => 1 \in 1..Len(stack'[g]) /\ Head(stack'[g]) = stack'[g][1]
        BY <3>1, PopFrame DEF CallsOK
      <4> QED
        BY <3>5, <4>1 DEF HeadFinal
    <3>7. pc'[g] = stack[g][1].at /\ op'[g] = stack[g][1].op /\ stack[g][1].at \in {"body", "finalize"}
      BY <3>1, <3>2 DEF CallsOK, Frames
    <3>8. h # g => pc'[h] = pc[h] /\ op'[h] = op[h] /\ stack'[h] = stack[h]
      BY <3>1 DEF CallsOK
    <3>9. CASE h = g
      <4>1. HeadFinal(g) <=> stack[g][1].at = "finalize"
        BY <3>1, <3>2 DEF HeadFinal
      <4>2. ~Opening(g) /\ ~Closing(g) /\ ~Opening(g)'
        BY <3>1, <3>7 DEF Opening, Closing
      <4>3. Closing(g)' <=> stack[g][1].at = "finalize"
        BY <3>3, <3>7 DEF Closing, FrameOK
      <4> QED
        BY <3>1, <3>6, <3>7, <3>9, <4>1, <4>2, <4>3 DEF Core, LockOK, Holds
    <3>10. CASE h # g
      BY <3>1, <3>8, <3>10 DEF Core, LockOK, Holds, Opening, Closing, HeadFinal
    <3> QED
      BY <3>9, <3>10
  <2> QED
    BY <2>1, <2>2, <2>3, <2>4, <2>5, <2>6, <2>7 DEF Core
<1>15. ASSUME NEW g \in Goroutines, BodyDone(g) PROVE Core'
  <2>1. NewOK'
    BY <1>15 DEF BodyDone, Leave, Out, Goto, TypeInv, ProcessOK, InterpsOK, CallsOK, Ops, Core, NewOK, CallOK, Making
  <2>2. OpenOK'
    BY <1>15 DEF BodyDone, Leave, Out, Goto, TypeInv, ProcessOK, InterpsOK, CallsOK, Ops, Core, NewOK, OpenOK, CallOK, LockOK, Making
  <2>3. OneInterpreter'
    BY <1>15 DEF BodyDone, Leave, Out, Goto, TypeInv, ProcessOK, InterpsOK, CallsOK, Ops, Core, NewOK, OneInterpreter, CallOK, LockOK, Opening, Making
  <2>4. RuntimeIsItsOwn'
    BY <1>15 DEF BodyDone, Leave, Out, Goto, TypeInv, ProcessOK, InterpsOK, CallsOK, Ops, Core, NewOK, OneInterpreter, RuntimeIsItsOwn, CallOK, LockOK, Opening, Making
  <2>5. ASSUME NEW h \in Goroutines PROVE CallOK(h)'
    BY <1>15 DEF BodyDone, Leave, Out, Goto, TypeInv, ProcessOK, InterpsOK, CallsOK, Ops, Core, OneInterpreter, CallOK, LockOK, HeadFinal
  <2>6. ASSUME NEW h \in Goroutines PROVE FramesOK(h)'
    BY <1>15 DEF BodyDone, Leave, Out, Goto, TypeInv, ProcessOK, InterpsOK, CallsOK, Ops, Core, CallOK, FramesOK, FrameOK
  <2>7. ASSUME NEW h \in Goroutines PROVE LockOK(h)'
    BY <1>15 DEF BodyDone, Leave, Out, Goto, TypeInv, ProcessOK, InterpsOK, CallsOK, Ops, Core, OneInterpreter, OpenOK, CallOK, LockOK, Holds, Opening, Closing, HeadFinal
  <2> QED
    BY <2>1, <2>2, <2>3, <2>4, <2>5, <2>6, <2>7 DEF Core
<1>16. ASSUME NEW g \in Goroutines, BodyPanic(g) PROVE Core'
  <2>1. NewOK'
    BY <1>16 DEF BodyPanic, Leave, Out, Goto, TypeInv, ProcessOK, InterpsOK, CallsOK, Ops, Core, NewOK, CallOK, Making
  <2>2. OpenOK'
    BY <1>16 DEF BodyPanic, Leave, Out, Goto, TypeInv, ProcessOK, InterpsOK, CallsOK, Ops, Core, NewOK, OpenOK, CallOK, LockOK, Making
  <2>3. OneInterpreter'
    BY <1>16 DEF BodyPanic, Leave, Out, Goto, TypeInv, ProcessOK, InterpsOK, CallsOK, Ops, Core, NewOK, OneInterpreter, CallOK, LockOK, Opening, Making
  <2>4. RuntimeIsItsOwn'
    BY <1>16 DEF BodyPanic, Leave, Out, Goto, TypeInv, ProcessOK, InterpsOK, CallsOK, Ops, Core, NewOK, OneInterpreter, RuntimeIsItsOwn, CallOK, LockOK, Opening, Making
  <2>5. ASSUME NEW h \in Goroutines PROVE CallOK(h)'
    BY <1>16 DEF BodyPanic, Leave, Out, Goto, TypeInv, ProcessOK, InterpsOK, CallsOK, Ops, Core, OneInterpreter, CallOK, LockOK, HeadFinal
  <2>6. ASSUME NEW h \in Goroutines PROVE FramesOK(h)'
    BY <1>16 DEF BodyPanic, Leave, Out, Goto, TypeInv, ProcessOK, InterpsOK, CallsOK, Ops, Core, CallOK, FramesOK, FrameOK
  <2>7. ASSUME NEW h \in Goroutines PROVE LockOK(h)'
    BY <1>16 DEF BodyPanic, Leave, Out, Goto, TypeInv, ProcessOK, InterpsOK, CallsOK, Ops, Core, OneInterpreter, OpenOK, CallOK, LockOK, Holds, Opening, Closing, HeadFinal
  <2> QED
    BY <2>1, <2>2, <2>3, <2>4, <2>5, <2>6, <2>7 DEF Core
<1>17. ASSUME NEW g \in Goroutines, Finalize(g) PROVE Core'
  <2>1. NewOK'
    BY <1>17 DEF Finalize, Goto, TypeInv, ProcessOK, InterpsOK, CallsOK, Ops, Core, NewOK, CallOK, Making
  <2>2. OpenOK'
    <3>1. op[g].in \in known /\ op[g].in \in Interps /\ open = None
      BY <1>17 DEF Finalize, Core, CallOK, LockOK, CallsOK, Ops
    <3>2. closed[op[g].in]
      BY <3>1 DEF Core, OneInterpreter
    <3> QED
      BY <1>17, <3>1, <3>2 DEF Finalize, Core, OpenOK
  <2>3. OneInterpreter'
    BY <1>17 DEF Finalize, Goto, TypeInv, ProcessOK, InterpsOK, CallsOK, Ops, Core, NewOK, OneInterpreter, CallOK, LockOK, Opening, Making
  <2>4. RuntimeIsItsOwn'
    BY <1>17 DEF Finalize, Goto, TypeInv, ProcessOK, InterpsOK, CallsOK, Ops, Core, NewOK, OneInterpreter, RuntimeIsItsOwn, CallOK, LockOK, Opening, Making
  <2>5. ASSUME NEW h \in Goroutines PROVE CallOK(h)'
    BY <1>17 DEF Finalize, Goto, TypeInv, ProcessOK, InterpsOK, CallsOK, Ops, Core, OneInterpreter, CallOK, LockOK, HeadFinal
  <2>6. ASSUME NEW h \in Goroutines PROVE FramesOK(h)'
    BY <1>17 DEF Finalize, Goto, TypeInv, ProcessOK, InterpsOK, CallsOK, Ops, Core, CallOK, FramesOK, FrameOK
  <2>7. ASSUME NEW h \in Goroutines PROVE LockOK(h)'
    BY <1>17 DEF Finalize, Goto, TypeInv, ProcessOK, InterpsOK, CallsOK, Ops, Core, OneInterpreter, OpenOK, CallOK, LockOK, Holds, Opening, Closing, HeadFinal
  <2> QED
    BY <2>1, <2>2, <2>3, <2>4, <2>5, <2>6, <2>7 DEF Core
<1>18. ASSUME NEW g \in Goroutines, FinalizePanic(g) PROVE Core'
  <2>1. NewOK'
    BY <1>18 DEF FinalizePanic, Leave, Out, Goto, TypeInv, ProcessOK, InterpsOK, CallsOK, Ops, Core, NewOK, CallOK, Making
  <2>2. OpenOK'
    BY <1>18 DEF FinalizePanic, Leave, Out, Goto, TypeInv, ProcessOK, InterpsOK, CallsOK, Ops, Core, NewOK, OpenOK, CallOK, LockOK, Making
  <2>3. OneInterpreter'
    BY <1>18 DEF FinalizePanic, Leave, Out, Goto, TypeInv, ProcessOK, InterpsOK, CallsOK, Ops, Core, NewOK, OneInterpreter, CallOK, LockOK, Opening, Making
  <2>4. RuntimeIsItsOwn'
    BY <1>18 DEF FinalizePanic, Leave, Out, Goto, TypeInv, ProcessOK, InterpsOK, CallsOK, Ops, Core, NewOK, OneInterpreter, RuntimeIsItsOwn, CallOK, LockOK, Opening, Making
  <2>5. ASSUME NEW h \in Goroutines PROVE CallOK(h)'
    BY <1>18 DEF FinalizePanic, Leave, Out, Goto, TypeInv, ProcessOK, InterpsOK, CallsOK, Ops, Core, OneInterpreter, CallOK, LockOK, HeadFinal
  <2>6. ASSUME NEW h \in Goroutines PROVE FramesOK(h)'
    BY <1>18 DEF FinalizePanic, Leave, Out, Goto, TypeInv, ProcessOK, InterpsOK, CallsOK, Ops, Core, CallOK, FramesOK, FrameOK
  <2>7. ASSUME NEW h \in Goroutines PROVE LockOK(h)'
    BY <1>18 DEF FinalizePanic, Leave, Out, Goto, TypeInv, ProcessOK, InterpsOK, CallsOK, Ops, Core, OneInterpreter, OpenOK, CallOK, LockOK, Holds, Opening, Closing, HeadFinal
  <2> QED
    BY <2>1, <2>2, <2>3, <2>4, <2>5, <2>6, <2>7 DEF Core
<1>19. ASSUME NEW g \in Goroutines, Forget(g) PROVE Core'
  <2>1. NewOK'
    BY <1>19 DEF Forget, Leave, Out, Goto, TypeInv, ProcessOK, InterpsOK, CallsOK, Ops, Core, NewOK, CallOK, Making
  <2>2. OpenOK'
    BY <1>19 DEF Forget, Leave, Out, Goto, TypeInv, ProcessOK, InterpsOK, CallsOK, Ops, Core, NewOK, OpenOK, CallOK, LockOK, Making
  <2>3. OneInterpreter'
    BY <1>19 DEF Forget, Leave, Out, Goto, TypeInv, ProcessOK, InterpsOK, CallsOK, Ops, Core, NewOK, OneInterpreter, CallOK, LockOK, Opening, Making
  <2>4. RuntimeIsItsOwn'
    BY <1>19 DEF Forget, Leave, Out, Goto, TypeInv, ProcessOK, InterpsOK, CallsOK, Ops, Core, NewOK, OneInterpreter, RuntimeIsItsOwn, CallOK, LockOK, Opening, Making
  <2>5. ASSUME NEW h \in Goroutines PROVE CallOK(h)'
    BY <1>19 DEF Forget, Leave, Out, Goto, TypeInv, ProcessOK, InterpsOK, CallsOK, Ops, Core, OneInterpreter, CallOK, LockOK, HeadFinal
  <2>6. ASSUME NEW h \in Goroutines PROVE FramesOK(h)'
    BY <1>19 DEF Forget, Leave, Out, Goto, TypeInv, ProcessOK, InterpsOK, CallsOK, Ops, Core, CallOK, FramesOK, FrameOK
  <2>7. ASSUME NEW h \in Goroutines PROVE LockOK(h)'
    BY <1>19 DEF Forget, Leave, Out, Goto, TypeInv, ProcessOK, InterpsOK, CallsOK, Ops, Core, OneInterpreter, OpenOK, CallOK, LockOK, Holds, Opening, Closing, HeadFinal
  <2> QED
    BY <2>1, <2>2, <2>3, <2>4, <2>5, <2>6, <2>7 DEF Core
<1>20. ASSUME NEW g \in Goroutines, Wait(g) PROVE Core'
  <2>1. /\ pc[g] = "enter" /\ pc' = [pc EXCEPT ![g] = "lock"]
        /\ UNCHANGED <<process, interps, registry, op, stack>>
    BY <1>20 DEF Wait, Goto
  <2>2. NewOK' /\ OpenOK' /\ OneInterpreter' /\ RuntimeIsItsOwn'
    BY <2>1 DEF CallsOK, Core, NewOK, OpenOK, OneInterpreter, RuntimeIsItsOwn, Making
  <2>3. ASSUME NEW h \in Goroutines PROVE CallOK(h)' /\ FramesOK(h)' /\ LockOK(h)'
    BY <2>1 DEF CallsOK, Core, CallOK, FramesOK, FrameOK, LockOK, Holds, Opening, Closing, HeadFinal
  <2> QED
    BY <2>2, <2>3 DEF Core
<1>21. CASE UNCHANGED vars
  <2>1. NewOK' /\ OpenOK' /\ OneInterpreter' /\ RuntimeIsItsOwn'
    BY <1>21 DEF vars, Core, NewOK, OpenOK, OneInterpreter, RuntimeIsItsOwn, Making
  <2>2. ASSUME NEW h \in Goroutines PROVE CallOK(h)' /\ FramesOK(h)'
    BY <1>21 DEF vars, Core, CallOK, FramesOK, FrameOK, HeadFinal
  <2>3. ASSUME NEW h \in Goroutines PROVE LockOK(h)'
    BY <1>21 DEF vars, Core, LockOK, Holds, Opening, Closing, HeadFinal
  <2> QED
    BY <2>1, <2>2, <2>3 DEF Core
<1> QED
  BY <1>1, <1>2, <1>3, <1>4, <1>5, <1>6, <1>7, <1>8, <1>9,
     <1>10, <1>11, <1>12, <1>13, <1>14, <1>15, <1>16, <1>17, <1>18,
     <1>19, <1>20, <1>21 DEF Next, Step

(* The types and Core hold of every reachable state. *)
LEMMA CoreHolds == Spec => [](TypeInv /\ Core)
BY TypeInit, TypeNext, CoreInit, CoreNext, PTL DEF Spec

(* The variables keep their types. *)
THEOREM TypeCorrect == Spec => []TypeOK
<1>1. TypeInv => TypeOK
  BY DEF TypeInv, ProcessOK, InterpsOK, RegistryOK, CallsOK, TypeOK
<1> QED
  BY <1>1, CoreHolds, PTL

(* What New has returned and Close has not been called for is the one that  *)
(* makes New fail, whatever host functions call (cpython.go, openMu).       *)
THEOREM OneOpen == Spec => []OneInterpreter
<1>1. Core => OneInterpreter
  BY DEF Core
<1> QED
  BY <1>1, CoreHolds, PTL

(* An interpreter in use has the CPython state it made: no late or failing   *)
(* New or Close of another one touches it, whatever host functions call.    *)
THEOREM OwnRuntime == Spec => []RuntimeIsItsOwn
<1>1. Core => RuntimeIsItsOwn
  BY DEF Core
<1> QED
  BY <1>1, CoreHolds, PTL

-----------------------------------------------------------------------------
(* Who holds mu, and what that guards, if no host function closes.          *)

Active(g) == pc[g] \in {"body", "finalize", "forget"}
Below(g, i) == \E k \in 1..Len(stack[g]) : stack[g][k].op.in = i
Using(g, i) == (Active(g) /\ op[g].in = i) \/ Below(g, i)

(* mu is held by who has a method in the interpreter, running or suspended. *)
MuOK(g) == \A i \in Interps : mu[i] = g <=> Using(g, i)

(* Python code of i may run: i is the one that is open, or has crashed.     *)
RunsIn(i) == i \notin finalized /\ (~crashed[i] => open = i /\ runtime = i)

(* Only the outermost method of a goroutine in an interpreter unlocks its   *)
(* mu, and Close is outermost.                                              *)
MethodOK(g) ==
  /\ pc[g] = "body" => RunsIn(op[g].in)
  /\ Active(g) => (op[g].took <=> ~Below(g, op[g].in))
  /\ pc[g] = "lock" => ~Below(g, op[g].in)
  /\ Closing(g) => stack[g] = << >>
  /\ pc[g] = "closeLock" => stack[g] = << >> \/ HeadFinal(g)
  /\ pc[g] = "finalize" => op[g].in \notin finalized
  /\ pc[g] = "forget" => op[g].in \in finalized

SuspendedAt(g, k) ==
  LET f == stack[g][k] IN
  /\ f.at = "body" => RunsIn(f.op.in)
  /\ f.op.took <=> \A j \in (k + 1)..Len(stack[g]) : stack[g][j].op.in # f.op.in

SuspendedOK(g) ==
  /\ \A k \in 1..Len(stack[g]) : SuspendedAt(g, k)
  /\ HeadFinal(g) => Len(stack[g]) = 1 /\ Head(stack[g]).op.in \notin finalized

(* The registry knows of every host function, and whose it is.              *)
RegOK ==
  /\ \A i \in Interps : \A id \in hostIDs[i] : id <= hostNext /\ (i \notin finalized => hostReg[id] = i)
  /\ \A id \in Ids, i \in Interps : hostReg[id] = i => id \in hostIDs[i]
  /\ \A i, j \in Interps, id \in Ids : id \in hostIDs[i] /\ id \in hostIDs[j] => i = j

(* Depth leaks in interpreters that let nobody in any more.                 *)
LeakOK == \A i \in Interps : leaked[i] => closed[i] \/ crashed[i]

InUse ==
  /\ RegOK /\ NothingLeftBehind /\ LeakOK
  /\ \A g \in Goroutines : MethodOK(g) /\ SuspendedOK(g) /\ MuOK(g)

-----------------------------------------------------------------------------

LEMMA InUseInit == Init => InUse  \* nobody holds mu at first, and nothing is registered
<1> SUFFICES ASSUME Init PROVE InUse
  OBVIOUS
<1>1. RegOK /\ NothingLeftBehind /\ LeakOK
  BY LifecycleAssumption DEF Init, RegOK, NothingLeftBehind, LeakOK
<1>2. \A g \in Goroutines : MethodOK(g) /\ SuspendedOK(g)
  BY DEF Init, MethodOK, SuspendedOK, SuspendedAt, Active, Closing, HeadFinal
<1>3. \A g \in Goroutines : MuOK(g)
  BY LifecycleAssumption DEF Init, MuOK, Using, Below, Active
<1> QED
  BY <1>1, <1>2, <1>3 DEF InUse

LEMMA FrameTypes ==  \* what a suspended method is
  ASSUME TypeInv, NEW g \in Goroutines, NEW k \in 1..Len(stack[g])
  PROVE  stack[g][k] \in Frames /\ stack[g][k].op.in \in Interps
<1>1. stack[g] \in Seq(Frames)
  BY DEF TypeInv, CallsOK
<1>2. stack[g][k] \in Frames
  BY <1>1
<1> QED
  BY <1>2 DEF Frames, Ops

(* A new host function gets an id no other one has. *)
LEMMA AddHostKeeps ==
  ASSUME TypeInv, RegOK, NEW i \in Interps, AddHost(i), UNCHANGED finalized
  PROVE  RegOK'
<1> USE DEF TypeInv, RegistryOK
<1>1. hostNext \in Nat /\ hostNext' = hostNext + 1 /\ hostNext' \in Ids
  BY AddHostTypes
<1>2. /\ hostReg' = [hostReg EXCEPT ![hostNext'] = i]
      /\ hostIDs' = [hostIDs EXCEPT ![i] = @ \cup {hostNext'}]
  BY DEF AddHost
<1>3. \A j \in Interps : hostIDs'[j] = IF j = i THEN hostIDs[j] \cup {hostNext'} ELSE hostIDs[j]
  BY <1>2
<1>4. \A id \in Ids : hostReg'[id] = IF id = hostNext' THEN i ELSE hostReg[id]
  BY <1>2
<1>5. \A j \in Interps : \A id \in hostIDs[j] : id \in Ids /\ id # hostNext' /\ id <= hostNext'
  BY <1>1 DEF RegOK, Ids
<1>6. hostNext' <= hostNext'
  BY <1>1
<1>7. ASSUME NEW j \in Interps, NEW id \in hostIDs'[j]
      PROVE  id <= hostNext' /\ (j \notin finalized' => hostReg'[id] = j)
  <2>1. CASE id \in hostIDs[j]
    BY <1>4, <1>5, <2>1 DEF RegOK
  <2>2. CASE id \notin hostIDs[j]
    BY <1>1, <1>3, <1>4, <1>6, <2>2
  <2> QED
    BY <2>1, <2>2
<1>8. ASSUME NEW id \in Ids, NEW j \in Interps, hostReg'[id] = j PROVE id \in hostIDs'[j]
  <2>1. CASE id = hostNext'
    BY <1>3, <1>4, <1>8, <2>1
  <2>2. CASE id # hostNext'
    <3>1. hostReg[id] = j
      BY <1>4, <1>8, <2>2
    <3>2. id \in hostIDs[j]
      BY <3>1 DEF RegOK
    <3> QED
      BY <1>3, <3>2
  <2> QED
    BY <2>1, <2>2
<1>9. ASSUME NEW j \in Interps, NEW k \in Interps, NEW id \in Ids,
             id \in hostIDs'[j], id \in hostIDs'[k]
      PROVE  j = k
  <2>1. CASE id = hostNext'
    BY <1>3, <1>5, <1>9, <2>1
  <2>2. CASE id # hostNext'
    <3>1. id \in hostIDs[j] /\ id \in hostIDs[k]
      <4>1. \A m \in Interps : id \in hostIDs'[m] => id \in hostIDs[m]
        BY <1>3, <2>2
      <4> QED
        BY <1>9, <4>1
    <3> QED
      BY <3>1 DEF RegOK
  <2> QED
    BY <2>1, <2>2
<1> QED
  BY <1>7, <1>8, <1>9 DEF RegOK

(* A goroutine that does not step keeps its part, if the step leaves the    *)
(* interpreters it uses as they are.                                        *)
LEMMA FramesKept ==
  ASSUME TypeInv, InUse, NEW h \in Goroutines, UNCHANGED stack[h],
         \A i \in Interps : Below(h, i) /\ RunsIn(i) => RunsIn(i)',
         \A i \in Interps : Below(h, i) /\ i \notin finalized => i \notin finalized'
  PROVE  SuspendedOK(h)' /\ \A i \in Interps : Below(h, i)' <=> Below(h, i)
<1>1. \A i \in Interps : Below(h, i)' <=> Below(h, i)
  BY DEF Below
<1>2. ASSUME NEW k \in 1..Len(stack[h]) PROVE SuspendedAt(h, k)'
  <2>1. SuspendedAt(h, k) /\ stack[h][k].op.in \in Interps /\ Below(h, stack[h][k].op.in)
    BY FrameTypes DEF InUse, SuspendedOK, Below
  <2>2. PICK j \in Interps : j = stack[h][k].op.in
    BY <2>1
  <2>3. RunsIn(j) => RunsIn(j)'
    BY <2>1, <2>2
  <2> QED
    BY <2>1, <2>2, <2>3 DEF SuspendedAt, RunsIn
<1>3. HeadFinal(h)' => Len(stack'[h]) = 1 /\ Head(stack'[h]).op.in \notin finalized'
  <2> SUFFICES ASSUME HeadFinal(h) PROVE Len(stack[h]) = 1 /\ Head(stack[h]).op.in \notin finalized'
    BY DEF HeadFinal
  <2>1. Len(stack[h]) = 1 /\ Head(stack[h]).op.in \notin finalized
    BY DEF InUse, SuspendedOK
  <2>2. stack[h] # << >> /\ Head(stack[h]) = stack[h][1] /\ 1 \in 1..Len(stack[h])
    BY FirstFrame DEF HeadFinal, TypeInv, CallsOK
  <2>3. Head(stack[h]).op.in \in Interps /\ Below(h, Head(stack[h]).op.in)
    BY <2>2, FrameTypes DEF Below
  <2> QED
    BY <2>1, <2>3
<1> QED
  BY <1>1, <1>2, <1>3 DEF SuspendedOK

LEMMA OthersKept ==  \* ... the method in progress too
  ASSUME TypeInv, InUse, NEW h \in Goroutines, UNCHANGED <<pc[h], op[h], stack[h]>>,
         \A i \in Interps : Using(h, i) /\ RunsIn(i) => RunsIn(i)',
         \A i \in Interps : Using(h, i) /\ i \notin finalized => i \notin finalized',
         finalized \subseteq finalized'
  PROVE  /\ MethodOK(h)' /\ SuspendedOK(h)'
         /\ \A i \in Interps : Using(h, i)' <=> Using(h, i)
<1>1. SuspendedOK(h)' /\ \A i \in Interps : Below(h, i)' <=> Below(h, i)
  BY FramesKept DEF Using
<1>2. PICK j \in Interps : j = op[h].in
  BY DEF TypeInv, CallsOK, Ops
<1>3. (Active(h)' <=> Active(h)) /\ (Active(h) => Using(h, j))
  BY <1>2 DEF Active, Using
<1>4. pc[h] = "body" => RunsIn(j)'
  BY <1>2, <1>3 DEF InUse, MethodOK, Active
<1>5. /\ pc[h] = "finalize" => j \notin finalized'
      /\ pc[h] = "forget" => j \in finalized'
  BY <1>2, <1>3 DEF InUse, MethodOK, Active
<1>6. (Closing(h)' <=> Closing(h)) /\ (HeadFinal(h)' <=> HeadFinal(h))
  BY DEF Closing, HeadFinal
<1>7. Below(h, j)' <=> Below(h, j)
  BY <1>1
<1>8. MethodOK(h)'
  <2>1. /\ Active(h) => (op[h].took <=> ~Below(h, j))
        /\ pc[h] = "lock" => ~Below(h, j)
        /\ Closing(h) => stack[h] = << >>
        /\ pc[h] = "closeLock" => stack[h] = << >> \/ HeadFinal(h)
    BY <1>2 DEF InUse, MethodOK
  <2>2. j = op'[h].in
    BY <1>2
  <2> QED
    BY <1>3, <1>4, <1>5, <1>6, <1>7, <2>1, <2>2 DEF MethodOK, RunsIn, Below
<1> QED
  BY <1>1, <1>3, <1>8 DEF Using

(* A step that leaves every mu alone, and what may run.                     *)
LEMMA QuietStep ==
  ASSUME TypeInv, InUse, NEW g \in Goroutines, UNCHANGED <<mu, stack, finalized>>,
         \A h \in Goroutines : h # g => UNCHANGED <<pc[h], op[h]>>,
         \A i \in Interps : RunsIn(i) => RunsIn(i)',
         MethodOK(g)', \A i \in Interps : Using(g, i)' <=> Using(g, i)
  PROVE  \A h \in Goroutines : MethodOK(h)' /\ SuspendedOK(h)' /\ MuOK(h)'
<1> SUFFICES ASSUME NEW h \in Goroutines PROVE MethodOK(h)' /\ SuspendedOK(h)' /\ MuOK(h)'
  OBVIOUS
<1>1. MethodOK(h)' /\ SuspendedOK(h)' /\ \A i \in Interps : Using(h, i)' <=> Using(h, i)
  <2>1. CASE h = g
    <3>1. SuspendedOK(g)'
      BY FramesKept
    <3> QED
      BY <2>1, <3>1
  <2>2. CASE h # g
    BY <2>2, OthersKept
  <2> QED
    BY <2>1, <2>2
<1> QED
  BY <1>1 DEF InUse, MuOK

(* Nothing is open, or the interpreter that stops being open had crashed:   *)
(* who runs Python code runs it in a crashed one, whatever New and Close do. *)
LEMMA OpenStep ==
  ASSUME TypeInv, UNCHANGED <<finalized, crashed>>, open = None \/ crashed[open]
  PROVE  \A i \in Interps : RunsIn(i) => RunsIn(i)'
BY LifecycleAssumption DEF RunsIn

(* The goroutine comes out of its method, by leave().                       *)
LEMMA LeaveStep ==
  ASSUME TypeInv, InUse, NEW g \in Goroutines, Active(g), Leave(g), Out(g),
         UNCHANGED <<stack, finalized>>, \A i \in Interps : RunsIn(i) => RunsIn(i)'
  PROVE  \A h \in Goroutines : MethodOK(h)' /\ SuspendedOK(h)' /\ MuOK(h)'
<1> SUFFICES ASSUME NEW h \in Goroutines PROVE MethodOK(h)' /\ SuspendedOK(h)' /\ MuOK(h)'
  OBVIOUS
<1> DEFINE j == op[g].in
<1>1. /\ j \in Interps /\ mu[j] = g /\ (op[g].took <=> ~Below(g, j))
      /\ mu' = IF op[g].took THEN [mu EXCEPT ![j] = Nobody] ELSE mu
      /\ mu \in [Interps -> Goroutines \cup {Nobody}]
  BY DEF Leave, TypeInv, CallsOK, Ops, InterpsOK, InUse, MethodOK, MuOK, Using
<1>2. /\ pc'[g] = "out" /\ \A u \in Goroutines : u # g => UNCHANGED <<pc[u], op[u]>>
  BY DEF Out, Goto, TypeInv, CallsOK
<1> HIDE DEF j
<1>3. CASE h = g
  <2>1. SuspendedOK(g)' /\ \A i \in Interps : Below(g, i)' <=> Below(g, i)
    BY FramesKept
  <2>2. MethodOK(g)'
    BY <1>2 DEF MethodOK, Active, Closing
  <2>3. \A i \in Interps : Using(g, i)' <=> Below(g, i)
    BY <1>2, <2>1 DEF Using, Active
  <2>4. \A i \in Interps : mu[i] = g <=> (i = j \/ Below(g, i))
    BY DEF InUse, MuOK, Using, j
  <2>5. \A i \in Interps : mu'[i] = g <=> Below(g, i)
    BY <1>1, <2>4, LifecycleAssumption
  <2> QED
    BY <1>3, <2>1, <2>2, <2>3, <2>5 DEF MuOK
<1>4. CASE h # g
  <2>1. MethodOK(h)' /\ SuspendedOK(h)' /\ \A i \in Interps : Using(h, i)' <=> Using(h, i)
    BY <1>2, <1>4, OthersKept
  <2>2. \A i \in Interps : mu'[i] = h <=> mu[i] = h
    BY <1>1, <1>4, LifecycleAssumption
  <2> QED
    BY <2>1, <2>2 DEF InUse, MuOK
<1> QED
  BY <1>3, <1>4

(* Whom enter() lets in: a method of the open interpreter.  It locks mu     *)
(* unless its goroutine has another one there.                              *)
LEMMA Admitted ==
  ASSUME TypeInv, Core, InUse, NEW g \in Goroutines, Enter(g)
  PROVE  /\ open = op[g].in /\ open \in Interps /\ runtime = open
         /\ open \notin finalized /\ ~crashed[open]
         /\ mu[open] \in {Nobody, g} /\ ~Active(g)
         /\ ByLock(g) <=> ~Below(g, open)
         /\ op[g].m = "close" => stack[g] = << >>
<1>1. /\ ByLock(g) \/ (ByDepth(g) /\ mu[op[g].in] = g)
      /\ ~closed[op[g].in] /\ ~crashed[op[g].in] /\ pc[g] \in {"enter", "lock"}
  BY DEF Enter, ByLock, ByDepth
<1>2. op[g].in \in known /\ op[g].in \in Interps
  BY <1>1 DEF Core, CallOK, TypeInv, CallsOK, Ops
<1>3. open = op[g].in /\ runtime = op[g].in /\ op[g].in \notin finalized
  BY <1>1, <1>2 DEF Core, OneInterpreter, RuntimeIsItsOwn, OpenOK, TypeInv, ProcessOK
<1>4. mu[op[g].in] = g <=> Below(g, op[g].in)
  BY <1>1, <1>2 DEF InUse, MuOK, Using, Active
<1>5. op[g].m = "close" => stack[g] = << >>
  BY <1>1 DEF InUse, MethodOK, Closing
<1>6. CASE ByLock(g)
  <2>1. mu[op[g].in] = Nobody
    BY <1>6 DEF ByLock, Locked
  <2> QED
    BY <1>1, <1>2, <1>3, <1>4, <1>5, <1>6, <2>1, LifecycleAssumption DEF Active
<1>7. CASE ByDepth(g) /\ mu[op[g].in] = g
  <2>1. ~ByLock(g)
    BY <1>7 DEF ByLock, ByDepth
  <2> QED
    BY <1>1, <1>2, <1>3, <1>4, <1>5, <1>7, <2>1 DEF Active
<1> QED
  BY <1>1, <1>6, <1>7

(* A step before a method is let in, or in New.                             *)
LEMMA PlainStep ==
  ASSUME TypeInv, InUse, NEW g \in Goroutines,
         UNCHANGED <<interps, registry, stack, finalized>>,
         \A h \in Goroutines : h # g => UNCHANGED <<pc[h], op[h]>>,
         \A i \in Interps : RunsIn(i) => RunsIn(i)',
         pc[g] \notin {"body", "finalize", "forget"}, pc'[g] \notin {"body", "finalize", "forget"},
         pc'[g] = "lock" => \A k \in 1..Len(stack[g]) : stack[g][k].op.in # op'[g].in,
         Closing(g)' => stack[g] = << >>,
         pc'[g] = "closeLock" => stack[g] = << >> \/ HeadFinal(g)
  PROVE  InUse'
<1>1. RegOK' /\ NothingLeftBehind' /\ LeakOK'
  BY DEF interps, registry, InUse, RegOK, NothingLeftBehind, LeakOK
<1>2. MethodOK(g)'
  BY DEF MethodOK, Active, Below, HeadFinal
<1>3. \A i \in Interps : Using(g, i)' <=> Using(g, i)
  BY DEF Using, Active, Below
<1>4. UNCHANGED mu
  BY DEF interps
<1> QED
  BY <1>1, <1>2, <1>3, <1>4, QuietStep DEF InUse

(* Every step keeps it. *)
LEMMA InUseNext == "close" \notin HostMethods /\ TypeInv /\ Core /\ InUse /\ [Next]_vars => InUse'
<1> SUFFICES ASSUME "close" \notin HostMethods, TypeInv, Core, InUse, [Next]_vars PROVE InUse'
  OBVIOUS
<1> USE LifecycleAssumption
<1>1. ASSUME NEW g \in Goroutines, NEW i \in Interps, StartNew(g, i) \/ StartCall(g, i) PROVE InUse'
  <2>1. /\ pc[g] = "out" /\ pc'[g] \in {"newLock", "enter"} /\ op'[g].m # "close"
        /\ \A h \in Goroutines : h # g => UNCHANGED <<pc[h], op[h]>>
        /\ UNCHANGED <<process, interps, registry, stack>>
    BY <1>1 DEF StartNew, StartCall, Begin, Callable, Goto, TypeInv, CallsOK
  <2>2. \A j \in Interps : RunsIn(j) => RunsIn(j)'
    BY <2>1 DEF process, interps, RunsIn
  <2> QED
    BY <2>1, <2>2, PlainStep DEF Closing, process
<1>2. ASSUME NEW g \in Goroutines, NEW i \in Interps, StartClose(g, i) PROVE InUse'
  <2>1. /\ pc[g] = "out" /\ pc'[g] = "closeLock"
        /\ \A h \in Goroutines : h # g => UNCHANGED <<pc[h], op[h]>>
        /\ UNCHANGED <<process, interps, registry, stack>>
    BY <1>2 DEF StartClose, Begin, Callable, Goto, TypeInv, CallsOK
  <2>2. stack[g] = << >> \/ HeadFinal(g)
    BY <1>2 DEF StartClose, Begin, Callable, HeadFinal
  <2>3. \A j \in Interps : RunsIn(j) => RunsIn(j)'
    BY <2>1 DEF process, interps, RunsIn
  <2> QED
    BY <2>1, <2>2, <2>3, PlainStep DEF Closing, process
<1>3. ASSUME NEW g \in Goroutines, NewLock(g) \/ Initialize(g) \/ NewDone(g) \/ NewFails(g) PROVE InUse'
  <2>1. /\ pc[g] \in {"newLock", "init", "redirect"} /\ pc'[g] \in {"out", "init", "redirect"}
        /\ \A h \in Goroutines : h # g => UNCHANGED <<pc[h], op[h]>>
        /\ UNCHANGED <<finalized, interps, registry, stack>>
    BY <1>3 DEF NewLock, Initialize, NewDone, NewFails, Out, Goto, TypeInv, CallsOK
  <2>2. \/ UNCHANGED <<open, runtime>>
        \/ open = None
    BY <1>3 DEF NewLock, Initialize, NewDone, NewFails, Core, LockOK, Opening
  <2>3. \A j \in Interps : RunsIn(j) => RunsIn(j)'
    BY <2>1, <2>2, OpenStep DEF interps, RunsIn
  <2> QED
    BY <2>1, <2>3, PlainStep DEF Closing
<1>4. ASSUME NEW g \in Goroutines, CloseLock(g) PROVE InUse'
  <2>1. /\ pc[g] = "closeLock" /\ pc'[g] = "enter" /\ openMu = Nobody
        /\ \A h \in Goroutines : h # g => UNCHANGED <<pc[h], op[h]>>
        /\ UNCHANGED <<open, runtime, finalized, interps, registry, stack>>
    BY <1>4 DEF CloseLock, Goto, TypeInv, CallsOK
  <2>2. ~HeadFinal(g)
    BY <2>1 DEF Core, LockOK, Holds
  <2>3. stack[g] = << >>
    BY <2>1, <2>2 DEF InUse, MethodOK
  <2>4. \A j \in Interps : RunsIn(j) => RunsIn(j)'
    BY <2>1 DEF interps, RunsIn
  <2> QED
    BY <2>1, <2>3, <2>4, PlainStep
<1>5. ASSUME NEW g \in Goroutines, Wait(g) PROVE InUse'
  <2>1. /\ pc[g] = "enter" /\ pc'[g] = "lock" /\ mu[op[g].in] = Nobody /\ op[g].in \in Interps
        /\ \A h \in Goroutines : h # g => UNCHANGED pc[h]
        /\ UNCHANGED <<process, interps, registry, op, stack>>
    BY <1>5 DEF Wait, Locked, Goto, TypeInv, CallsOK, Ops
  <2>2. ~Below(g, op[g].in)
    BY <2>1 DEF InUse, MuOK, Using
  <2>3. Closing(g)' => stack[g] = << >>
    BY <2>1 DEF Closing, InUse, MethodOK
  <2>4. \A j \in Interps : RunsIn(j) => RunsIn(j)'
    BY <2>1 DEF process, interps, RunsIn
  <2> QED
    BY <2>1, <2>2, <2>3, <2>4, PlainStep DEF Below, process
<1>6. ASSUME NEW g \in Goroutines, Redirect(g) \/ Register(g) PROVE InUse'
  <2>1. /\ pc[g] \in {"body", "redirect"} /\ AddHost(op[g].in) /\ op[g].in \in Interps
        /\ UNCHANGED <<process, interps, calls>>
    BY <1>6 DEF Redirect, Register, TypeInv, CallsOK, Ops
  <2>2. op[g].in \notin finalized
    BY <1>6 DEF Redirect, Register, InUse, MethodOK, RunsIn, Core, NewOK, OpenOK, Making
  <2>3. RegOK'
    BY <2>1, AddHostKeeps DEF InUse, process
  <2>4. NothingLeftBehind'
    <3>1. hostReg' = [hostReg EXCEPT ![hostNext'] = op[g].in]
      BY <2>1 DEF AddHost
    <3> QED
      BY <2>1, <2>2, <3>1 DEF process, calls, InUse, NothingLeftBehind, TypeInv, RegistryOK
  <2>5. LeakOK'
    BY <2>1 DEF interps, InUse, LeakOK
  <2>6. \A h \in Goroutines : MethodOK(h)' /\ SuspendedOK(h)' /\ MuOK(h)'
    <3>1. \A j \in Interps : RunsIn(j) => RunsIn(j)'
      BY <2>1 DEF process, interps, RunsIn
    <3>2. MethodOK(g)' /\ \A j \in Interps : Using(g, j)' <=> Using(g, j)
      <4>1. UNCHANGED <<pc[g], op[g], stack[g], mu, finalized>>
        BY <2>1 DEF process, interps, calls
      <4> QED
        BY <3>1, <4>1, OthersKept
    <3> QED
      BY <2>1, <3>1, <3>2, QuietStep DEF process, interps, calls
  <2> QED
    BY <2>3, <2>4, <2>5, <2>6 DEF InUse
<1>7. ASSUME NEW g \in Goroutines, Refused(g) PROVE InUse'
  <2>1. /\ pc[g] \in {"enter", "lock"} /\ pc'[g] = "out" /\ op[g].in \in Interps
        /\ \A h \in Goroutines : h # g => UNCHANGED <<pc[h], op[h]>>
        /\ UNCHANGED <<runtime, finalized, mu, crashed, registry, stack>>
    BY <1>7 DEF Refused, ByLock, ByDepth, Out, Goto, TypeInv, CallsOK, Ops
  <2>2. open' # open => crashed[open]
    BY <1>7 DEF Refused, Freed
  <2>3. RegOK' /\ NothingLeftBehind'
    BY <2>1 DEF registry, InUse, RegOK, NothingLeftBehind
  <2>4. LeakOK'
    <3>1. /\ \A i \in Interps : leaked'[i] => leaked[i] \/ i = op[g].in
          /\ closed[op[g].in] \/ crashed[op[g].in]
          /\ \A i \in Interps : closed[i] => closed'[i]
      BY <1>7, <2>1 DEF Refused, TypeInv, InterpsOK
    <3> QED
      BY <2>1, <3>1 DEF InUse, LeakOK
  <2>5. \A j \in Interps : RunsIn(j) => RunsIn(j)'
    <3>1. CASE UNCHANGED open
      BY <2>1, <3>1 DEF RunsIn
    <3>2. CASE open' # open
      BY <2>1, <2>2, <3>2, OpenStep
    <3> QED
      BY <3>1, <3>2
  <2>6. MethodOK(g)' /\ \A j \in Interps : Using(g, j)' <=> Using(g, j)
    BY <2>1 DEF MethodOK, Active, Closing, Using, Below
  <2> QED
    BY <2>1, <2>3, <2>4, <2>5, <2>6, QuietStep DEF InUse
<1>8. ASSUME NEW g \in Goroutines, Enter(g) PROVE InUse'
  <2>1. /\ open = op[g].in /\ open \in Interps /\ runtime = open
        /\ open \notin finalized /\ ~crashed[open]
        /\ mu[open] \in {Nobody, g} /\ ~Active(g)
        /\ ByLock(g) <=> ~Below(g, open)
        /\ op[g].m = "close" => stack[g] = << >>
    BY <1>8, Admitted
  <2>2. PICK j \in Interps : j = open
    BY <2>1
  <2>3. /\ mu' = [mu EXCEPT ![j] = g] /\ mu \in [Interps -> Goroutines \cup {Nobody}]
        /\ op'[g].in = j /\ op'[g].m = op[g].m /\ (op'[g].took <=> ~Below(g, j))
        /\ \A h \in Goroutines : h # g => UNCHANGED <<pc[h], op[h]>>
        /\ pc'[g] = IF op[g].m = "close" THEN "finalize" ELSE "body"
        /\ op[g].m # "close" => UNCHANGED <<open, closed>>
        /\ \A i \in Interps : closed[i] => closed'[i]
        /\ UNCHANGED <<runtime, finalized, leaked, crashed, registry, stack>>
    <3>1. /\ mu' = [mu EXCEPT ![j] = g] /\ mu \in [Interps -> Goroutines \cup {Nobody}]
          /\ op' = [op EXCEPT ![g].took = ByLock(g)]
          /\ pc' = [pc EXCEPT ![g] = IF op[g].m = "close" THEN "finalize" ELSE "body"]
          /\ op[g].m # "close" => UNCHANGED <<open, closed>>
          /\ UNCHANGED <<runtime, finalized, leaked, crashed, registry, stack>>
      BY <1>8, <2>1, <2>2 DEF Enter, Goto, TypeInv, InterpsOK
    <3>2. op'[g].in = op[g].in /\ op'[g].m = op[g].m /\ op'[g].took = ByLock(g)
      BY <3>1 DEF TypeInv, CallsOK, Ops
    <3>3. \A i \in Interps : closed[i] => closed'[i]
      BY <1>8 DEF Enter, TypeInv, InterpsOK
    <3> QED
      BY <2>1, <2>2, <3>1, <3>2, <3>3 DEF TypeInv, CallsOK
  <2>4. RegOK' /\ NothingLeftBehind' /\ LeakOK'
    BY <2>1, <2>3 DEF registry, InUse, RegOK, NothingLeftBehind, LeakOK, Active
  <2>5. \A i \in Interps : i # j \/ op[g].m # "close" => (RunsIn(i) => RunsIn(i)')
    <3>1. \A i \in Interps : i # j => (RunsIn(i) => crashed[i])
      BY <2>2 DEF RunsIn
    <3> QED
      BY <2>3, <3>1 DEF RunsIn
  <2>6. ASSUME NEW h \in Goroutines PROVE MethodOK(h)' /\ SuspendedOK(h)' /\ MuOK(h)'
    <3>1. CASE h = g
      <4>1. \A i \in Interps : Below(g, i) /\ RunsIn(i) => RunsIn(i)'
        <5>1. op[g].m = "close" => \A i \in Interps : ~Below(g, i)
          BY <2>1 DEF Below
        <5> QED
          BY <2>5, <5>1
      <4>2. SuspendedOK(g)' /\ \A i \in Interps : Below(g, i)' <=> Below(g, i)
        BY <2>3, <4>1, FramesKept
      <4>3. RunsIn(j) /\ (op[g].m # "close" => RunsIn(j)')
        BY <2>1, <2>2, <2>5 DEF RunsIn
      <4>4. MethodOK(g)'
        BY <2>1, <2>2, <2>3, <4>2, <4>3 DEF MethodOK, Active, Closing, RunsIn, Below
      <4>5. \A i \in Interps : mu'[i] = g <=> (mu[i] = g \/ i = j)
        BY <2>3
      <4>6. \A i \in Interps : Using(g, i)' <=> (Using(g, i) \/ i = j)
        BY <2>1, <2>3, <4>2 DEF Using, Active
      <4> QED
        BY <3>1, <4>2, <4>4, <4>5, <4>6 DEF InUse, MuOK
    <3>2. CASE h # g
      <4>1. ~Using(h, j) /\ mu[j] # h
        BY <2>1, <2>2, <3>2 DEF InUse, MuOK
      <4>2. MethodOK(h)' /\ SuspendedOK(h)' /\ \A i \in Interps : Using(h, i)' <=> Using(h, i)
        BY <2>3, <2>5, <3>2, <4>1, OthersKept
      <4>3. \A i \in Interps : mu'[i] = h <=> mu[i] = h
        BY <2>3, <3>2, <4>1
      <4> QED
        BY <4>2, <4>3 DEF InUse, MuOK
    <3> QED
      BY <3>1, <3>2
  <2> QED
    BY <2>4, <2>6 DEF InUse
<1>9. ASSUME NEW g \in Goroutines, NEW id \in Ids, CallHost(g, id) PROVE InUse'
  <2> DEFINE f == [op |-> op[g], at |-> pc[g]]
  <2>1. f \in Frames /\ pc[g] \in {"body", "finalize"} /\ f.op = op[g] /\ f.at = pc[g]
    BY <1>9 DEF CallHost, TypeInv, CallsOK, Frames
  <2>2. /\ stack'[g] = <<f>> \o stack[g] /\ stack[g] \in Seq(Frames)
        /\ \A h \in Goroutines : h # g => UNCHANGED <<pc[h], stack[h]>>
        /\ pc'[g] = "out" /\ UNCHANGED <<process, interps, registry, op>>
    BY <1>9 DEF CallHost, Goto, TypeInv, CallsOK
  <2>3. /\ stack'[g][1] = f /\ Head(stack'[g]) = f /\ stack'[g] # << >>
        /\ Len(stack[g]) \in Nat /\ Len(stack'[g]) = Len(stack[g]) + 1
        /\ \A k \in 1..Len(stack'[g]) : k # 1 => k - 1 \in 1..Len(stack[g]) /\ stack'[g][k] = stack[g][k - 1]
        /\ \A k \in 1..Len(stack[g]) : k + 1 \in 1..Len(stack'[g]) /\ stack'[g][k + 1] = stack[g][k]
    BY <2>1, <2>2, PushFrame
  <2>4. /\ f.at = "body" => RunsIn(f.op.in)
        /\ f.op.took <=> ~Below(g, f.op.in)
        /\ f.at = "finalize" => stack[g] = << >> /\ f.op.in \notin finalized
    BY <2>1 DEF Core, CallOK, InUse, MethodOK, Active, Closing
  <2>5. PICK j \in Interps : j = f.op.in
    BY <2>1 DEF Frames, Ops
  <2> HIDE DEF f
  <2>6. \A i \in Interps : RunsIn(i)' <=> RunsIn(i)
    BY <2>2 DEF process, interps, RunsIn
  <2>7. RegOK' /\ NothingLeftBehind' /\ LeakOK'
    <3>1. \A h \in Goroutines : pc[h] = "forget" <=> pc'[h] = "forget"
      BY <2>1, <2>2
    <3> QED
      BY <2>2, <3>1 DEF process, interps, registry, InUse, RegOK, NothingLeftBehind, LeakOK
  <2>8. \A i \in Interps : Below(g, i)' <=> (Below(g, i) \/ i = j)
    <3>1. ASSUME NEW i \in Interps, Below(g, i)' PROVE Below(g, i) \/ i = j
      BY <2>3, <2>5, <3>1 DEF Below
    <3>2. ASSUME NEW i \in Interps, Below(g, i) PROVE Below(g, i)'
      BY <2>3, <3>2 DEF Below
    <3>3. Below(g, j)'
      <4>1. 1 \in 1..Len(stack'[g])
        BY <2>3
      <4> QED
        BY <2>3, <2>5, <4>1 DEF Below
    <3> QED
      BY <3>1, <3>2, <3>3
  <2>9. MethodOK(g)' /\ MuOK(g)'
    <3>1. MethodOK(g)'
      BY <2>2 DEF MethodOK, Active, Closing
    <3>2. \A i \in Interps : Using(g, i)' <=> Using(g, i)
      BY <2>1, <2>2, <2>5, <2>8 DEF Using, Active
    <3> QED
      BY <2>2, <3>1, <3>2 DEF interps, InUse, MuOK
  <2>10. SuspendedOK(g)'
    <3>1. ASSUME NEW k \in 1..Len(stack'[g]) PROVE SuspendedAt(g, k)'
      <4>1. CASE k = 1
        <5>1. (f.op.took <=> \A m \in 2..Len(stack'[g]) : stack'[g][m].op.in # f.op.in)
          <6>1. Below(g, f.op.in) <=> \E m \in 2..Len(stack'[g]) : stack'[g][m].op.in = f.op.in
            <7>1. \A m \in 2..Len(stack'[g]) : m - 1 \in 1..Len(stack[g]) /\ stack'[g][m] = stack[g][m - 1]
              BY <2>3
            <7>2. \A m \in 1..Len(stack[g]) : m + 1 \in 2..Len(stack'[g]) /\ stack'[g][m + 1] = stack[g][m]
              BY <2>3
            <7> QED
              BY <7>1, <7>2 DEF Below
          <6> QED
            BY <2>4, <6>1
        <5>2. f.at = "body" => RunsIn(j)'
          BY <2>4, <2>5, <2>6
        <5> QED
          BY <2>3, <2>5, <4>1, <5>1, <5>2 DEF SuspendedAt, RunsIn
      <4>2. CASE k # 1
        <5>1. /\ k - 1 \in 1..Len(stack[g]) /\ stack'[g][k] = stack[g][k - 1]
              /\ SuspendedAt(g, k - 1)
          BY <2>3, <4>2 DEF InUse, SuspendedOK
        <5>2. PICK i \in Interps : i = stack[g][k - 1].op.in
          BY <5>1, FrameTypes
        <5>3. stack[g][k - 1].at = "body" => RunsIn(i)'
          BY <2>6, <5>1, <5>2 DEF SuspendedAt
        <5>4. (\A m \in k..Len(stack[g]) : stack[g][m].op.in # i)
                <=> \A m \in (k + 1)..Len(stack'[g]) : stack'[g][m].op.in # i
          <6>1. \A m \in (k + 1)..Len(stack'[g]) : m - 1 \in k..Len(stack[g]) /\ stack'[g][m] = stack[g][m - 1]
            BY <2>3, <4>2
          <6>2. \A m \in k..Len(stack[g]) : m + 1 \in (k + 1)..Len(stack'[g]) /\ stack'[g][m + 1] = stack[g][m]
            BY <2>3, <4>2
          <6> QED
            BY <6>1, <6>2
        <5>5. stack[g][k - 1].op.took <=> \A m \in k..Len(stack[g]) : stack[g][m].op.in # i
          BY <5>1, <5>2 DEF SuspendedAt
        <5> QED
          BY <5>1, <5>2, <5>3, <5>4, <5>5 DEF SuspendedAt, RunsIn
      <4> QED
        BY <4>1, <4>2
    <3>2. HeadFinal(g)' => Len(stack'[g]) = 1 /\ Head(stack'[g]).op.in \notin finalized'
      BY <2>2, <2>3, <2>4 DEF HeadFinal, process
    <3> QED
      BY <3>1, <3>2 DEF SuspendedOK
  <2>11. ASSUME NEW h \in Goroutines, h # g PROVE MethodOK(h)' /\ SuspendedOK(h)' /\ MuOK(h)'
    <3>1. MethodOK(h)' /\ SuspendedOK(h)' /\ \A i \in Interps : Using(h, i)' <=> Using(h, i)
      BY <2>2, <2>6, <2>11, OthersKept DEF process
    <3> QED
      BY <2>2, <3>1 DEF interps, InUse, MuOK
  <2> QED
    BY <2>7, <2>9, <2>10, <2>11 DEF InUse
<1>10. ASSUME NEW g \in Goroutines, HostReturn(g) PROVE InUse'
  <2>1. /\ pc[g] = "out" /\ stack[g] # << >> /\ stack[g] \in Seq(Frames)
        /\ pc'[g] = Head(stack[g]).at /\ op'[g] = Head(stack[g]).op
        /\ stack'[g] = Tail(stack[g])
        /\ \A h \in Goroutines : h # g => UNCHANGED <<pc[h], op[h], stack[h]>>
        /\ UNCHANGED <<process, interps, registry>>
    BY <1>10 DEF HostReturn, Goto, TypeInv, CallsOK
  <2>2. /\ Head(stack[g]) = stack[g][1] /\ 1 \in 1..Len(stack[g])
        /\ Head(stack[g]) \in Frames
        /\ Len(stack'[g]) \in Nat /\ Len(stack[g]) = Len(stack'[g]) + 1
        /\ \A k \in 1..Len(stack'[g]) : k + 1 \in 1..Len(stack[g]) /\ stack'[g][k] = stack[g][k + 1]
        /\ stack'[g] # << >> => 1 \in 1..Len(stack'[g]) /\ Head(stack'[g]) = stack'[g][1]
    BY <2>1, PopFrame
  <2>3. PICK f \in Frames : f = stack[g][1]
    BY <2>2
  <2>4. PICK j \in Interps : j = f.op.in
    BY DEF Frames, Ops
  <2>5. FrameOK(g, 1) /\ SuspendedAt(g, 1)
    BY <2>2 DEF Core, FramesOK, InUse, SuspendedOK
  <2>6. \A i \in Interps : RunsIn(i)' <=> RunsIn(i)
    BY <2>1 DEF process, interps, RunsIn
  <2>7. /\ f.at \in {"body", "finalize"} /\ (f.at = "body" => RunsIn(j) /\ f.op.m = "call")
        /\ f.at = "finalize" => Len(stack[g]) = 1 /\ j \notin finalized
    <3>1. f.at = "finalize" => HeadFinal(g)
      BY <2>1, <2>2, <2>3 DEF HeadFinal
    <3> QED
      BY <2>2, <2>3, <2>4, <2>5, <3>1 DEF Frames, FrameOK, SuspendedAt, InUse, SuspendedOK
  <2>8. RegOK' /\ NothingLeftBehind' /\ LeakOK'
    <3>1. \A h \in Goroutines : pc[h] = "forget" => h # g /\ pc'[h] = "forget" /\ op'[h] = op[h]
      BY <2>1
    <3> QED
      BY <2>1, <3>1 DEF process, interps, registry, InUse, RegOK, NothingLeftBehind, LeakOK
  <2>9. \A i \in Interps : Below(g, i) <=> (Below(g, i)' \/ i = j)
    <3>1. ASSUME NEW i \in Interps, Below(g, i)' PROVE Below(g, i)
      BY <2>2, <3>1 DEF Below
    <3>2. ASSUME NEW i \in Interps, Below(g, i) PROVE Below(g, i)' \/ i = j
      <4>1. PICK k \in 1..Len(stack[g]) : stack[g][k].op.in = i
        BY <3>2 DEF Below
      <4>2. CASE k = 1
        BY <2>3, <2>4, <4>1, <4>2
      <4>3. CASE k # 1
        <5>1. k - 1 \in 1..Len(stack'[g]) /\ stack'[g][k - 1] = stack[g][(k - 1) + 1]
          BY <2>2, <4>3
        <5> QED
          BY <4>1, <5>1 DEF Below
      <4> QED
        BY <4>2, <4>3
    <3>3. Below(g, j)
      BY <2>2, <2>3, <2>4 DEF Below
    <3> QED
      BY <3>1, <3>2, <3>3
  <2>10. f.op.took <=> ~Below(g, j)'
    <3>1. \A m \in 2..Len(stack[g]) : m - 1 \in 1..Len(stack'[g]) /\ stack'[g][m - 1] = stack[g][(m - 1) + 1]
      BY <2>2
    <3>2. \A m \in 1..Len(stack'[g]) : m + 1 \in 2..Len(stack[g]) /\ stack'[g][m] = stack[g][m + 1]
      BY <2>2
    <3>3. Below(g, j)' <=> \E m \in 2..Len(stack[g]) : stack[g][m].op.in = j
      <4>1. ASSUME NEW m \in 2..Len(stack[g]), stack[g][m].op.in = j PROVE Below(g, j)'
        <5>1. m - 1 \in 1..Len(stack'[g]) /\ stack'[g][m - 1] = stack[g][m]
          BY <3>1
        <5> QED
          BY <4>1, <5>1 DEF Below
      <4>2. ASSUME Below(g, j)' PROVE \E m \in 2..Len(stack[g]) : stack[g][m].op.in = j
        BY <3>2, <4>2 DEF Below
      <4> QED
        BY <4>1, <4>2
    <3>4. f.op.took <=> \A m \in 2..Len(stack[g]) : stack[g][m].op.in # j
      <4>1. 1 + 1 = 2
        OBVIOUS
      <4> QED
        BY <2>3, <2>4, <2>5, <4>1 DEF SuspendedAt
    <3>5. CASE Below(g, j)'
      <4>1. ~(\A m \in 2..Len(stack[g]) : stack[g][m].op.in # j)
        BY <3>3, <3>5
      <4>2. ~f.op.took
        BY <3>4, <4>1
      <4> QED
        BY <3>5, <4>2
    <3>6. CASE ~Below(g, j)'
      <4>1. \A m \in 2..Len(stack[g]) : stack[g][m].op.in # j
        BY <3>3, <3>6
      <4>2. f.op.took
        BY <3>4, <4>1
      <4> QED
        BY <3>6, <4>2
    <3> QED
      BY <3>5, <3>6
  <2>11. MethodOK(g)' /\ MuOK(g)'
    <3>1. ASSUME Len(stack[g]) = 1 PROVE stack'[g] = << >>
      <4>1. Len(stack'[g]) = 0
        BY <2>2, <3>1
      <4>2. 1 \notin 1..Len(stack'[g])
        BY <4>1
      <4> QED
        BY <2>2, <4>2
    <3>2. op'[g] = f.op /\ op'[g].in = j /\ pc'[g] = f.at
      BY <2>1, <2>2, <2>3, <2>4
    <3>3. f.at = "body" => RunsIn(j)'
      BY <2>6, <2>7
    <3>4. (pc[g] = "body" => RunsIn(op[g].in))'
      BY <3>2, <3>3 DEF RunsIn
    <3>5. (Active(g) => (op[g].took <=> ~Below(g, op[g].in)))'
      BY <2>10, <3>2 DEF Below
    <3>6. MethodOK(g)'
      BY <2>1, <2>7, <3>1, <3>2, <3>4, <3>5 DEF MethodOK, Closing, process
    <3>7. \A i \in Interps : Using(g, i)' <=> Using(g, i)
      BY <2>1, <2>7, <2>9, <3>2 DEF Using, Active
    <3> QED
      BY <2>1, <3>6, <3>7 DEF interps, InUse, MuOK
  <2>12. SuspendedOK(g)'
    <3>1. ASSUME NEW k \in 1..Len(stack'[g]) PROVE SuspendedAt(g, k)'
      <4>1. /\ k + 1 \in 1..Len(stack[g]) /\ stack'[g][k] = stack[g][k + 1] /\ SuspendedAt(g, k + 1)
        BY <2>2 DEF InUse, SuspendedOK
      <4>2. PICK i \in Interps : i = stack[g][k + 1].op.in
        BY <4>1, FrameTypes
      <4>3. stack[g][k + 1].at = "body" => RunsIn(i)'
        BY <2>6, <4>1, <4>2 DEF SuspendedAt
      <4>4. (\A m \in (k + 2)..Len(stack[g]) : stack[g][m].op.in # i)
              <=> \A m \in (k + 1)..Len(stack'[g]) : stack'[g][m].op.in # i
        <5>1. \A m \in (k + 2)..Len(stack[g]) : m - 1 \in (k + 1)..Len(stack'[g]) /\ stack'[g][m - 1] = stack[g][(m - 1) + 1] /\ (m - 1) + 1 = m
          BY <2>2
        <5>2. \A m \in (k + 1)..Len(stack'[g]) : m + 1 \in (k + 2)..Len(stack[g]) /\ stack'[g][m] = stack[g][m + 1]
          BY <2>2
        <5>3. ASSUME NEW m \in (k + 2)..Len(stack[g]), stack[g][m].op.in = i
              PROVE  \E n \in (k + 1)..Len(stack'[g]) : stack'[g][n].op.in = i
          BY <5>1, <5>3
        <5>4. ASSUME NEW m \in (k + 1)..Len(stack'[g]), stack'[g][m].op.in = i
              PROVE  \E n \in (k + 2)..Len(stack[g]) : stack[g][n].op.in = i
          BY <5>2, <5>4
        <5> QED
          BY <5>3, <5>4
      <4>5. stack[g][k + 1].op.took <=> \A m \in (k + 2)..Len(stack[g]) : stack[g][m].op.in # i
        <5>1. (k + 1) + 1 = k + 2
          OBVIOUS
        <5> QED
          BY <4>1, <4>2, <5>1 DEF SuspendedAt
      <4> QED
        BY <4>1, <4>2, <4>3, <4>4, <4>5 DEF SuspendedAt, RunsIn
    <3>2. ~HeadFinal(g)'
      <4>1. stack'[g] # << >> => stack'[g][1].at # "finalize"
        <5>1. \A k \in 1..Len(stack'[g]) : FrameOK(g, k + 1) /\ k + 1 # 1
          BY <2>2 DEF Core, FramesOK
        <5> QED
          BY <2>2, <5>1 DEF FrameOK
      <4> QED
        BY <2>2, <4>1 DEF HeadFinal
    <3> QED
      BY <3>1, <3>2 DEF SuspendedOK
  <2>13. ASSUME NEW h \in Goroutines, h # g PROVE MethodOK(h)' /\ SuspendedOK(h)' /\ MuOK(h)'
    <3>1. MethodOK(h)' /\ SuspendedOK(h)' /\ \A i \in Interps : Using(h, i)' <=> Using(h, i)
      BY <2>1, <2>6, <2>13, OthersKept DEF process
    <3> QED
      BY <2>1, <3>1 DEF interps, InUse, MuOK
  <2> QED
    BY <2>8, <2>11, <2>12, <2>13 DEF InUse
<1>11. ASSUME NEW g \in Goroutines, BodyDone(g) \/ BodyPanic(g) \/ FinalizePanic(g) PROVE InUse'
  <2>1. /\ pc[g] \in {"body", "finalize"} /\ Leave(g) /\ Out(g) /\ UNCHANGED <<leaked, closed, stack>>
        /\ \A h \in Goroutines : h # g => UNCHANGED <<pc[h], op[h]>>
        /\ UNCHANGED <<open, runtime, finalized, registry>>
    BY <1>11 DEF BodyDone, BodyPanic, FinalizePanic, Out, Goto, TypeInv, CallsOK, process
  <2>2. \A i \in Interps : crashed[i] => crashed'[i]
    BY <1>11 DEF BodyDone, BodyPanic, FinalizePanic, TypeInv, InterpsOK
  <2>3. \A i \in Interps : RunsIn(i) => RunsIn(i)'
    BY <2>1, <2>2 DEF RunsIn
  <2>4. RegOK' /\ NothingLeftBehind' /\ LeakOK'
    <3>1. \A h \in Goroutines : pc[h] = "forget" => h # g
      BY <2>1
    <3> QED
      BY <2>1, <2>2, <3>1 DEF registry, InUse, RegOK, NothingLeftBehind, LeakOK
  <2>5. Active(g)
    BY <2>1 DEF Active
  <2> QED
    BY <2>1, <2>3, <2>4, <2>5, LeaveStep DEF InUse
<1>12. ASSUME NEW g \in Goroutines, Finalize(g) PROVE InUse'
  <2>1. PICK j \in Interps : j = op[g].in
    BY DEF TypeInv, CallsOK, Ops
  <2>2. /\ pc[g] = "finalize" /\ pc'[g] = "forget" /\ finalized' = finalized \cup {j}
        /\ \A h \in Goroutines : h # g => UNCHANGED pc[h]
        /\ open = None /\ stack[g] = << >> /\ mu[j] = g
        /\ UNCHANGED <<open, interps, registry, op, stack>>
    BY <1>12, <2>1 DEF Finalize, Goto, TypeInv, CallsOK, Core, CallOK, LockOK, Closing, InUse, MethodOK, MuOK, Using, Active
  <2>3. \A i \in Interps : i # j => (RunsIn(i) => RunsIn(i)')
    BY <2>2 DEF interps, RunsIn
  <2>4. RegOK' /\ LeakOK'
    BY <2>2 DEF interps, registry, InUse, RegOK, LeakOK
  <2>5. NothingLeftBehind'
    <3>1. ASSUME NEW i \in finalized', \A h \in Goroutines : pc'[h] = "forget" => op'[h].in # i,
                 NEW id \in Ids
          PROVE  hostReg'[id] # i
      <4>1. i # j
        BY <2>1, <2>2, <3>1
      <4>2. i \in finalized /\ \A h \in Goroutines : pc[h] = "forget" => op[h].in # i
        BY <2>2, <3>1, <4>1
      <4> QED
        BY <2>2, <4>2 DEF registry, InUse, NothingLeftBehind
    <3> QED
      BY <3>1 DEF NothingLeftBehind
  <2>6. MethodOK(g)' /\ SuspendedOK(g)' /\ MuOK(g)'
    <3>1. \A i \in Interps : ~Below(g, i) /\ ~Below(g, i)'
      BY <2>2 DEF Below
    <3>2. SuspendedOK(g)'
      BY <2>2, <3>1, FramesKept
    <3>3. op[g].took
      BY <2>1, <2>2, <3>1 DEF InUse, MethodOK, Active
    <3>4. (Active(g) => (op[g].took <=> ~Below(g, op[g].in)))'
      BY <2>2, <3>3 DEF Below
    <3>5. MethodOK(g)'
      BY <2>1, <2>2, <3>4 DEF MethodOK, Closing
    <3>6. \A i \in Interps : Using(g, i)' <=> Using(g, i)
      BY <2>2, <3>1 DEF Using, Active
    <3> QED
      BY <2>2, <3>2, <3>5, <3>6 DEF interps, InUse, MuOK
  <2>7. ASSUME NEW h \in Goroutines, h # g PROVE MethodOK(h)' /\ SuspendedOK(h)' /\ MuOK(h)'
    <3>1. ~Using(h, j)
      BY <2>2, <2>7 DEF InUse, MuOK
    <3>2. MethodOK(h)' /\ SuspendedOK(h)' /\ \A i \in Interps : Using(h, i)' <=> Using(h, i)
      BY <2>2, <2>3, <2>7, <3>1, OthersKept
    <3> QED
      BY <2>2, <3>2 DEF interps, InUse, MuOK
  <2> QED
    BY <2>4, <2>5, <2>6, <2>7 DEF InUse
<1>13. ASSUME NEW g \in Goroutines, Forget(g) PROVE InUse'
  <2>1. PICK j \in Interps : j = op[g].in
    BY DEF TypeInv, CallsOK, Ops
  <2>2. /\ pc[g] = "forget" /\ Leave(g) /\ Out(g) /\ j \in finalized
        /\ hostReg' = [id \in Ids |-> IF id \in hostIDs[j] THEN None ELSE hostReg[id]]
        /\ \A h \in Goroutines : h # g => UNCHANGED <<pc[h], op[h]>>
        /\ UNCHANGED <<open, runtime, finalized, leaked, closed, crashed, hostIDs, hostNext, stack>>
    BY <1>13, <2>1 DEF Forget, Out, Goto, TypeInv, CallsOK, InUse, MethodOK
  <2>3. \A i \in Interps : RunsIn(i) => RunsIn(i)'
    BY <2>2 DEF RunsIn
  <2>4. RegOK' /\ LeakOK'
    BY <2>2 DEF InUse, RegOK, LeakOK, TypeInv, RegistryOK
  <2>5. NothingLeftBehind'
    <3>1. ASSUME NEW i \in finalized, \A h \in Goroutines : pc'[h] = "forget" => op'[h].in # i,
                 NEW id \in Ids
          PROVE  hostReg'[id] # i
      <4>1. i \in Interps
        BY DEF TypeInv, ProcessOK
      <4>2. CASE i = j
        BY <2>2, <4>1, <4>2 DEF InUse, RegOK
      <4>3. CASE i # j
        <5>1. \A h \in Goroutines : pc[h] = "forget" => op[h].in # i
          BY <2>1, <2>2, <3>1, <4>3
        <5> QED
          BY <2>2, <4>1, <5>1 DEF InUse, NothingLeftBehind
      <4> QED
        BY <4>2, <4>3
    <3> QED
      BY <2>2, <3>1 DEF NothingLeftBehind
  <2>6. Active(g)
    BY <2>2 DEF Active
  <2> QED
    BY <2>2, <2>3, <2>4, <2>5, <2>6, LeaveStep DEF InUse
<1>14. CASE UNCHANGED vars
  <2>1. RegOK' /\ NothingLeftBehind' /\ LeakOK'
    BY <1>14 DEF vars, process, interps, registry, calls, InUse, RegOK, NothingLeftBehind, LeakOK
  <2>2. ASSUME NEW h \in Goroutines PROVE MethodOK(h)' /\ SuspendedOK(h)'
    BY <1>14 DEF vars, process, interps, calls, InUse, MethodOK, SuspendedOK, SuspendedAt, Active, Below, RunsIn, Closing, HeadFinal
  <2>3. ASSUME NEW h \in Goroutines PROVE MuOK(h)'
    BY <1>14 DEF vars, interps, calls, InUse, MuOK, Using, Below, Active
  <2> QED
    BY <2>1, <2>2, <2>3 DEF InUse
<1> QED
  BY <1>1, <1>2, <1>3, <1>4, <1>5, <1>6, <1>7, <1>8, <1>9,
     <1>10, <1>11, <1>12, <1>13, <1>14 DEF Next, Step

(* If no host function closes, InUse holds of every reachable state. *)
LEMMA InUseHolds == "close" \notin HostMethods => (Spec => [](TypeInv /\ Core /\ InUse))
<1> SUFFICES ASSUME "close" \notin HostMethods PROVE Spec => [](TypeInv /\ Core /\ InUse)
  OBVIOUS
<1>1. TypeInv /\ Core /\ InUse /\ [Next]_vars => InUse'
  BY InUseNext
<1> QED
  BY <1>1, CoreHolds, InUseInit, PTL DEF Spec

(* Python code finds the host functions of its interpreter registered, and  *)
(* as that interpreter's, until its Py_FinalizeEx is over.                  *)
THEOREM CallbacksFound == "close" \notin HostMethods => (Spec => []CallbacksReach)
<1> SUFFICES ASSUME "close" \notin HostMethods PROVE Spec => []CallbacksReach
  OBVIOUS
<1>1. TypeInv /\ Core /\ InUse => CallbacksReach
  <2> SUFFICES ASSUME TypeInv, Core, InUse, NEW g \in Goroutines,
                      pc[g] \in {"body", "finalize"}, NEW id \in hostIDs[op[g].in]
               PROVE  hostReg[id] = op[g].in
    BY DEF CallbacksReach
  <2>1. op[g].in \in Interps
    BY DEF TypeInv, CallsOK, Ops
  <2>2. op[g].in \notin finalized
    BY DEF InUse, MethodOK, RunsIn
  <2> QED
    BY <2>1, <2>2 DEF InUse, RegOK
<1> QED
  BY <1>1, InUseHolds, PTL

(* A Close that got through Py_FinalizeEx leaves no Go closure registered.  *)
THEOREM RegistryEmptied == "close" \notin HostMethods => (Spec => []NothingLeftBehind)
<1> SUFFICES ASSUME "close" \notin HostMethods PROVE Spec => []NothingLeftBehind
  OBVIOUS
<1>1. InUse => NothingLeftBehind
  BY DEF InUse
<1> QED
  BY <1>1, InUseHolds, PTL

(* Python code that runs, or waits for a host function, has the CPython     *)
(* state of its interpreter, unless that has crashed: a Close waits for all *)
(* of it.                                                                   *)
THEOREM RuntimeWhileUsed == "close" \notin HostMethods => (Spec => []FramesHaveRuntime)
<1> SUFFICES ASSUME "close" \notin HostMethods PROVE Spec => []FramesHaveRuntime
  OBVIOUS
<1>1. InUse => FramesHaveRuntime
  <2> SUFFICES ASSUME InUse, NEW g \in Goroutines
               PROVE  /\ pc[g] = "body" /\ ~crashed[op[g].in] => runtime = op[g].in
                      /\ \A k \in 1..Len(stack[g]) :
                           stack[g][k].at = "body" /\ ~crashed[stack[g][k].op.in] => runtime = stack[g][k].op.in
    BY DEF FramesHaveRuntime
  <2> QED
    BY DEF InUse, MethodOK, SuspendedOK, SuspendedAt, RunsIn
<1> QED
  BY <1>1, InUseHolds, PTL

-----------------------------------------------------------------------------
(* What can keep a goroutine waiting for openMu or mu.                      *)

WaitsForOpen(g) == pc[g] \in {"newLock", "closeLock"} /\ openMu # Nobody

(* In mu.Lock, or kept out of the open interpreter by another goroutine.    *)
WaitsForMu(g) ==
  LET i == op[g].in IN
  \/ pc[g] = "lock" /\ Locked(i)
  \/ pc[g] = "enter" /\ Locked(i) /\ mu[i] # g /\ ~closed[i] /\ ~crashed[i]

Waits(g) == WaitsForOpen(g) \/ WaitsForMu(g)

(* Who waits for openMu has no mu, so that its holder can wait for a mu.    *)
(* Who waits for a mu waits for a goroutine that has a method in that       *)
(* interpreter, which will unlock it: or it is Stuck, and nobody will.  And *)
(* as long as the interpreter has not crashed, that goroutine waits for     *)
(* nothing.                                                                 *)
LocksInOrder ==
  \A g \in Goroutines :
    /\ WaitsForOpen(g) => openMu \in Goroutines \ {g} /\ \A i \in Interps : mu[i] # g
    /\ WaitsForMu(g) =>
         \/ mu[op[g].in] = Nobody /\ Stuck(g)
         \/ LET h == mu[op[g].in] IN
            /\ h \in Goroutines \ {g} /\ Using(h, op[g].in)
            /\ ~crashed[op[g].in] => ~Waits(h)

(* Host functions that neither open nor close never wait for openMu.        *)
OnlyCalls == HostMethods \cap {"new", "close"} = {} /\ FinalMethods \cap {"new", "close"} = {}
OutermostLock == \A g \in Goroutines : pc[g] \in {"newLock", "closeLock"} => stack[g] = << >>

LEMMA OutermostNext ==  \* they are methods called from outside that do
  OnlyCalls /\ TypeInv /\ OutermostLock /\ [Next]_vars => OutermostLock'
<1> SUFFICES ASSUME OnlyCalls, TypeInv, OutermostLock, [Next]_vars,
                    NEW h \in Goroutines, pc'[h] \in {"newLock", "closeLock"}
             PROVE  stack'[h] = << >>
  BY DEF OutermostLock
<1>1. ASSUME NEW g \in Goroutines, NEW i \in Interps, StartNew(g, i) \/ StartClose(g, i)
      PROVE  stack'[h] = << >>
  <2>1. stack[g] = << >> /\ UNCHANGED stack
    BY <1>1 DEF StartNew, StartClose, Begin, Callable, OnlyCalls
  <2>2. h # g => pc[h] = pc'[h]
    BY <1>1 DEF StartNew, StartClose, Begin, Goto, TypeInv, CallsOK
  <2> QED
    BY <2>1, <2>2 DEF OutermostLock
<1>2. ASSUME NEW g \in Goroutines,
             \/ Step(g) \/ Redirect(g) \/ Register(g)
             \/ \E i \in Interps : StartCall(g, i)
      PROVE  stack'[h] = << >>
  <2>1. UNCHANGED stack
    BY <1>2 DEF Step, NewLock, Initialize, NewDone, NewFails, CloseLock, Wait, Enter, Refused,
                BodyDone, BodyPanic, Finalize, FinalizePanic, Forget,
                Redirect, Register, StartCall, calls
  <2>2. pc'[h] = pc[h]
    BY <1>2 DEF Step, NewLock, Initialize, NewDone, NewFails, CloseLock, Wait, Enter, Refused,
                BodyDone, BodyPanic, Finalize, FinalizePanic, Forget,
                Redirect, Register, StartCall, calls, Begin, Out, Goto, TypeInv, CallsOK
  <2> QED
    BY <2>1, <2>2 DEF OutermostLock
<1>3. ASSUME NEW g \in Goroutines, HostReturn(g) \/ \E id \in Ids : CallHost(g, id)
      PROVE  stack'[h] = << >>
  <2>1. HostReturn(g) => Head(stack[g]).at \in {"body", "finalize"}
    BY PopFrame DEF HostReturn, TypeInv, CallsOK, Frames
  <2>2. h # g /\ pc'[h] = pc[h] /\ stack'[h] = stack[h]
    BY <1>3, <2>1 DEF HostReturn, CallHost, Goto, TypeInv, CallsOK
  <2> QED
    BY <2>2 DEF OutermostLock
<1>4. CASE UNCHANGED vars
  BY <1>4 DEF vars, calls, OutermostLock
<1> QED
  BY <1>1, <1>2, <1>3, <1>4 DEF Next

(* In an interpreter that has not crashed: no other one is open, ...        *)
LEMMA InsideOpen ==
  ASSUME TypeInv, Core, InUse, NEW h \in Goroutines, NEW i \in Interps, Below(h, i), ~crashed[i]
  PROVE  stack[h] # << >> /\ open \in {i, None}
<1>1. PICK k \in 1..Len(stack[h]) : stack[h][k].op.in = i
  BY DEF Below
<1>2. /\ stack[h] \in Seq(Frames) /\ stack[h] # << >> /\ stack[h][k] \in Frames
      /\ FrameOK(h, k) /\ SuspendedAt(h, k) /\ Head(stack[h]) = stack[h][1]
  BY <1>1, FrameTypes, FirstFrame DEF TypeInv, CallsOK, Core, FramesOK, InUse, SuspendedOK
<1>3. CASE stack[h][k].at = "body"
  BY <1>1, <1>2, <1>3 DEF SuspendedAt, RunsIn
<1>4. CASE stack[h][k].at = "finalize"
  BY <1>2, <1>4 DEF FrameOK, HeadFinal, Core, LockOK
<1> QED
  BY <1>2, <1>3, <1>4 DEF Frames

(* ... and so nobody locks the mu of another one before its goroutine does. *)
NoneLater ==
  \A h \in Goroutines, i \in Interps :
    pc[h] = "lock" /\ Below(h, i) /\ ~crashed[i] => ~Locked(op[h].in)

LEMMA NoneLaterNext ==  \* a mu stays free for it
  TypeInv /\ Core /\ InUse /\ NoneLater /\ [Next]_vars => NoneLater'
<1> SUFFICES ASSUME TypeInv, Core, InUse, NoneLater, [Next]_vars,
                    NEW h \in Goroutines, NEW i \in Interps,
                    pc'[h] = "lock", Below(h, i)', ~crashed'[i]
             PROVE  ~Locked(op[h].in)'
  BY DEF NoneLater
<1> USE DEF process, interps, registry, calls
<1>1. ASSUME NEW g \in Goroutines, Wait(g) PROVE ~Locked(op[h].in)'
  BY <1>1 DEF Wait, Goto, TypeInv, CallsOK, NoneLater, Below, Locked
<1>2. ASSUME NEW g \in Goroutines, Enter(g) PROVE ~Locked(op[h].in)'
  <2>1. /\ h # g /\ pc[h] = "lock" /\ op'[h] = op[h] /\ Below(h, i) /\ ~crashed[i]
        /\ mu' = [mu EXCEPT ![op[g].in] = g] /\ UNCHANGED leaked
    BY <1>2 DEF Enter, Goto, TypeInv, CallsOK, Below
  <2>2. open \in {i, None} /\ open = op[g].in /\ open \in Interps
    BY <1>2, <2>1, InsideOpen, Admitted
  <2>3. op[h].in # i /\ ~Locked(op[h].in)
    BY <2>1 DEF InUse, MethodOK, NoneLater
  <2> QED
    BY <2>1, <2>2, <2>3, LifecycleAssumption DEF Locked, TypeInv, InterpsOK
<1>3. ASSUME NEW g \in Goroutines, Refused(g) PROVE ~Locked(op[h].in)'
  <2>1. /\ h # g /\ pc[h] = "lock" /\ op'[h] = op[h] /\ Below(h, i) /\ ~crashed[i] /\ UNCHANGED mu
        /\ leaked' = [leaked EXCEPT ![op[g].in] = @ \/ ByDepth(g)]
    BY <1>3 DEF Refused, Out, Goto, TypeInv, CallsOK, Below
  <2>2. ~Locked(op[h].in) /\ op[h].in \in Interps
    BY <2>1 DEF NoneLater, TypeInv, CallsOK, Ops
  <2>3. leaked'[op[h].in] = leaked[op[h].in]
    BY <2>1, <2>2 DEF ByDepth, TypeInv, InterpsOK
  <2> QED
    BY <2>1, <2>2, <2>3 DEF Locked
<1>4. ASSUME NEW g \in Goroutines, BodyDone(g) \/ BodyPanic(g) \/ FinalizePanic(g) \/ Forget(g)
      PROVE  ~Locked(op[h].in)'
  <2>1. /\ h # g /\ pc[h] = "lock" /\ op'[h] = op[h] /\ Below(h, i) /\ Leave(g) /\ UNCHANGED leaked
    BY <1>4 DEF BodyDone, BodyPanic, FinalizePanic, Forget, Out, Goto, TypeInv, CallsOK, Below
  <2>2. crashed[i] => crashed'[i]
    BY <1>4 DEF BodyDone, BodyPanic, FinalizePanic, Forget, TypeInv, InterpsOK
  <2>3. ~Locked(op[h].in) /\ op[h].in \in Interps
    BY <2>1, <2>2 DEF NoneLater, TypeInv, CallsOK, Ops
  <2>4. mu'[op[h].in] \in {mu[op[h].in], Nobody}
    BY <2>1, <2>3 DEF Leave, TypeInv, InterpsOK
  <2> QED
    BY <2>1, <2>3, <2>4 DEF Locked
<1>5. ASSUME NEW g \in Goroutines,
             \/ NewLock(g) \/ Initialize(g) \/ NewDone(g) \/ NewFails(g)
             \/ CloseLock(g) \/ Finalize(g) \/ Redirect(g) \/ Register(g)
             \/ \E j \in Interps : StartNew(g, j) \/ StartCall(g, j) \/ StartClose(g, j)
      PROVE  ~Locked(op[h].in)'
  <2>1. pc[h] = "lock" /\ op'[h] = op[h] /\ Below(h, i) /\ UNCHANGED <<mu, leaked, crashed>>
    BY <1>5 DEF NewLock, Initialize, NewDone, NewFails, CloseLock, Finalize, Redirect, Register,
                StartNew, StartCall, StartClose, Begin, Out, Goto, TypeInv, CallsOK, Below
  <2> QED
    BY <2>1 DEF NoneLater, Locked
<1>6. ASSUME NEW g \in Goroutines, HostReturn(g) \/ \E id \in Ids : CallHost(g, id)
      PROVE  ~Locked(op[h].in)'
  <2>1. HostReturn(g) => Head(stack[g]).at \in {"body", "finalize"}
    BY PopFrame DEF HostReturn, TypeInv, CallsOK, Frames
  <2>2. pc[h] = "lock" /\ op'[h] = op[h] /\ stack'[h] = stack[h] /\ UNCHANGED <<mu, leaked, crashed>>
    BY <1>6, <2>1 DEF HostReturn, CallHost, Goto, TypeInv, CallsOK
  <2> QED
    BY <2>2 DEF NoneLater, Locked, Below
<1>7. CASE UNCHANGED vars
  BY <1>7 DEF vars, NoneLater, Locked, Below
<1> QED
  BY <1>1, <1>2, <1>3, <1>4, <1>5, <1>6, <1>7 DEF Next, Step

(* Who holds the mu of an interpreter that has not crashed waits for        *)
(* nothing.                                                                 *)
LEMMA HolderGoesOn ==
  ASSUME TypeInv, Core, InUse, OutermostLock, NoneLater,
         NEW h \in Goroutines, NEW i \in Interps, mu[i] = h, ~crashed[i]
  PROVE  ~Waits(h)
<1>1. CASE Active(h)
  BY <1>1 DEF Active, Waits, WaitsForOpen, WaitsForMu
<1>2. CASE Below(h, i)
  <2>1. stack[h] # << >> /\ open \in {i, None}
    BY <1>2, InsideOpen
  <2>2. ~WaitsForOpen(h)
    BY <2>1 DEF WaitsForOpen, OutermostLock
  <2>3. pc[h] = "lock" => ~Locked(op[h].in)
    BY <1>2 DEF NoneLater
  <2>4. ASSUME pc[h] = "enter", ~closed[op[h].in] PROVE mu[op[h].in] = h
    <3>1. op[h].in \in known /\ op[h].in \in Interps
      BY <2>4 DEF Core, CallOK, TypeInv, CallsOK, Ops
    <3>2. open = op[h].in
      BY <2>4, <3>1 DEF Core, OneInterpreter
    <3> QED
      BY <2>1, <3>1, <3>2, LifecycleAssumption
  <2> QED
    BY <2>2, <2>3, <2>4 DEF Waits, WaitsForMu
<1> QED
  BY <1>1, <1>2 DEF InUse, MuOK, Using

LEMMA Ordered ==  \* the order of the locks, in one state
  ASSUME TypeInv, Core, InUse, OutermostLock, NoneLater
  PROVE  LocksInOrder
<1>1. ASSUME NEW g \in Goroutines, WaitsForOpen(g)
      PROVE  openMu \in Goroutines \ {g} /\ \A i \in Interps : mu[i] # g
  <2>1. stack[g] = << >> /\ pc[g] \in {"newLock", "closeLock"} /\ openMu # Nobody
    BY <1>1 DEF WaitsForOpen, OutermostLock
  <2>2. openMu # g
    BY <2>1 DEF Core, LockOK, Holds, Opening, Closing, HeadFinal
  <2>3. \A i \in Interps : ~Using(g, i)
    BY <2>1 DEF Using, Active, Below
  <2> QED
    BY <2>1, <2>2, <2>3 DEF TypeInv, ProcessOK, InUse, MuOK
<1>2. ASSUME NEW g \in Goroutines, WaitsForMu(g)
      PROVE  \/ mu[op[g].in] = Nobody /\ Stuck(g)
             \/ LET h == mu[op[g].in] IN
                /\ h \in Goroutines \ {g} /\ Using(h, op[g].in)
                /\ ~crashed[op[g].in] => ~Waits(h)
  <2>1. PICK i \in Interps : i = op[g].in
    BY DEF TypeInv, CallsOK, Ops
  <2>2. mu[i] \in Goroutines \cup {Nobody}
    BY DEF TypeInv, InterpsOK
  <2>3. CASE mu[i] = Nobody
    BY <1>2, <2>1, <2>3 DEF WaitsForMu, Locked, Stuck, InUse, LeakOK
  <2>4. CASE mu[i] # Nobody
    <3>1. PICK h \in Goroutines : h = mu[i]
      BY <2>2, <2>4
    <3>2. Using(h, i)
      BY <3>1 DEF InUse, MuOK
    <3>3. h # g
      BY <1>2, <2>1, <3>1, <3>2 DEF WaitsForMu, InUse, MethodOK, Using, Active
    <3>4. ~crashed[i] => ~Waits(h)
      BY <3>1, HolderGoesOn
    <3> QED
      BY <2>1, <3>1, <3>2, <3>3, <3>4
  <2> QED
    BY <2>3, <2>4
<1> QED
  BY <1>1, <1>2 DEF LocksInOrder

(* New and Close take openMu before mu, calls take mu only: unless host     *)
(* functions open or close interpreters themselves, who waits for one of    *)
(* them waits for a goroutine that has it and goes on, as far as the        *)
(* interpreter has not crashed.  The exception is a mu left locked by a     *)
(* leak of depth, which nobody has.                                         *)
THEOREM NoLockCycle == OnlyCalls => (Spec => []LocksInOrder)
<1> SUFFICES ASSUME OnlyCalls PROVE Spec => []LocksInOrder
  OBVIOUS
<1>1. Init => OutermostLock /\ NoneLater
  BY DEF Init, OutermostLock, NoneLater
<1>2. TypeInv /\ OutermostLock /\ [Next]_vars => OutermostLock'
  BY OutermostNext
<1>3. TypeInv /\ Core /\ InUse /\ NoneLater /\ [Next]_vars => NoneLater'
  BY NoneLaterNext
<1>4. Spec => [](TypeInv /\ Core /\ InUse)
  BY InUseHolds DEF OnlyCalls
<1>5. TypeInv /\ Core /\ InUse /\ OutermostLock /\ NoneLater => LocksInOrder
  BY Ordered
<1> QED
  BY <1>1, <1>2, <1>3, <1>4, <1>5, PTL DEF Spec

=============================================================================
