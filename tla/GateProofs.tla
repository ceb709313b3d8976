----------------------------- MODULE GateProofs -----------------------------
(***************************************************************************)
(* Theorems about Gate, for any number of goroutines that call in any      *)
(* order, any nesting of host functions, and panics and host functions     *)
(* wherever C code runs.                                                   *)
(***************************************************************************)
EXTENDS Gate, FiniteSetTheorems, TLAPS

(* g holds the mutex: it has locked it, or is in a host function it called  *)
(* while it held it.                                                        *)
Owner(g) ==
  \/ pc[g] \in {"add", "check", "refused", "drain", "body", "leave", "unlock"}
  \/ stack[g] # << >>

OwnersHoldMu == \A g \in Goroutines : Owner(g) => mu
OneOwner == \A g, h \in Goroutines : Owner(g) /\ Owner(h) => g = h
OwnerCounted ==
  /\ depth >= 0
  /\ \A g \in Goroutines : Owner(g) => depth >= Share(g)
LockPathOutermost ==
  \A g \in Goroutines :
    pc[g] \in {"lock", "add", "check", "refused", "unlock"} =>
      stack[g] = << >>
StraysPoisoned ==
  \A g \in Goroutines :
    pc[g] \in {"nest", "nestCheck"} /\ stack[g] = << >> => Poisoned

(* Inductive: who may hold the mutex, until a call strays. *)
GateInv ==
  ~strayed => /\ OwnersHoldMu
              /\ OneOwner
              /\ OwnerCounted
              /\ LockPathOutermost
              /\ StraysPoisoned
              /\ ~fatal

-----------------------------------------------------------------------------

(* What suspending a method in a host function, and resuming it, does to    *)
(* the stack.                                                               *)
LEMMA PushFrame ==
  ASSUME NEW s \in Seq(Frames), NEW f \in Frames
  PROVE  /\ <<f>> \o s \in Seq(Frames)
         /\ <<f>> \o s # << >>
         /\ Len(<<f>> \o s) = Len(s) + 1
  OBVIOUS

(* What popping a stack of frames leaves. *)
LEMMA PopFrame ==
  ASSUME NEW s \in Seq(Frames), s # << >>
  PROVE  /\ Head(s) \in Frames
         /\ Tail(s) \in Seq(Frames)
         /\ Len(Tail(s)) = Len(s) - 1
         /\ Len(s) \in Nat \ {0}
  OBVIOUS

(* Only the empty stack has no frames. *)
LEMMA EmptyStack ==
  ASSUME NEW s \in Seq(Frames)
  PROVE  Len(s) \in Nat /\ (Len(s) = 0 <=> s = << >>)
  OBVIOUS

(* The types, and the bounds they need to be finite. *)
TypeInv ==
  /\ TypeOK
  /\ \A g \in Goroutines : Len(stack[g]) \in 0..MaxNest

DepthInv == TypeInv /\ DepthCoversCalls

(* The calls in progress can be counted. *)
LEMMA InProgressFinite ==
  IsFiniteSet(InProgress) /\ Cardinality(InProgress) \in Nat
<1>1. IsFiniteSet(1..(MaxNest + 1))
  BY GateAssumption, FS_Interval
<1>2. IsFiniteSet(Goroutines \X (1..(MaxNest + 1)))
  BY <1>1, GateAssumption, FS_Product
<1>3. InProgress \in SUBSET (Goroutines \X (1..(MaxNest + 1)))
  BY DEF InProgress
<1>4. IsFiniteSet(InProgress)
  BY <1>2, <1>3, FS_Subset
<1>. QED
  BY <1>4, FS_CardinalityType

(* They are those that the goroutines have, level by level. *)
LEMMA SameShares ==
  ASSUME \A h \in Goroutines : Share(h)' = Share(h)
  PROVE  InProgress' = InProgress
  BY DEF InProgress

(* A goroutine that goes one level deeper adds one call. *)
LEMMA OneMore ==
  ASSUME NEW g \in Goroutines,
         Share(g) \in Nat, Share(g) <= MaxNest, Share(g)' = Share(g) + 1,
         \A h \in Goroutines \ {g} : Share(h)' = Share(h)
  PROVE  Cardinality(InProgress') = Cardinality(InProgress) + 1
<1> DEFINE c == <<g, Share(g) + 1>>
<1>1. c \notin InProgress
  BY DEF InProgress
<1>2. InProgress' = InProgress \cup {c}
  <2>1. ASSUME NEW h \in Goroutines, NEW n \in 1..(MaxNest + 1)
        PROVE  n <= Share(h)' <=> (n <= Share(h) \/ <<h, n>> = c)
    BY GateAssumption
  <2>. QED
    BY <2>1, GateAssumption DEF InProgress
<1>. QED
  BY <1>1, <1>2, InProgressFinite, FS_AddElement

(* One that comes back takes one away. *)
LEMMA OneLess ==
  ASSUME NEW g \in Goroutines,
         Share(g) \in Nat \ {0}, Share(g) <= MaxNest + 1,
         Share(g)' = Share(g) - 1,
         \A h \in Goroutines \ {g} : Share(h)' = Share(h)
  PROVE  /\ Cardinality(InProgress') = Cardinality(InProgress) - 1
         /\ Cardinality(InProgress') \in Nat
<1> DEFINE c == <<g, Share(g)>>
<1>1. c \in InProgress
  BY GateAssumption DEF InProgress
<1>2. InProgress' = InProgress \ {c}
  <2>1. ASSUME NEW h \in Goroutines, NEW n \in 1..(MaxNest + 1)
        PROVE  n <= Share(h)' <=> (n <= Share(h) /\ <<h, n>> # c)
    BY GateAssumption
  <2>. QED
    BY <2>1, GateAssumption DEF InProgress
<1>3. IsFiniteSet(InProgress \ {c})
  BY InProgressFinite, FS_RemoveElement
<1>. QED
  BY <1>1, <1>2, <1>3, InProgressFinite, FS_RemoveElement, FS_CardinalityType

(* depth covers the calls in progress, and the variables keep their types.  *)
THEOREM DepthInvariant == Spec => []DepthInv
<1> USE DEF Goto, Move, Outermost
<1>1. Init => DepthInv
  <2> SUFFICES ASSUME Init PROVE DepthInv
    OBVIOUS
  <2>1. << >> \in Seq(Frames) /\ Len(<< >>) = 0
    OBVIOUS
  <2>2. stack \in [Goroutines -> Seq(Frames)]
    BY <2>1 DEF Init
  <2>3. pc \in [Goroutines -> PCs] /\ method \in [Goroutines -> Methods]
    BY DEF Init, PCs, Methods
  <2>4. depth \in Nat
    BY DEF Init
  <2>5. /\ mu \in BOOLEAN /\ closed \in BOOLEAN /\ crashed \in BOOLEAN
        /\ fatal \in BOOLEAN /\ strayed \in BOOLEAN
    BY Zenon DEF Init
  <2>6. \A g \in Goroutines : Len(stack[g]) \in 0..MaxNest
    BY <2>1, GateAssumption DEF Init
  <2>7. InProgress = {}
    <3>1. \A g \in Goroutines : Share(g) = 0
      BY <2>1 DEF Init, Share
    <3>. QED
      BY <3>1 DEF InProgress
  <2>8. DepthCoversCalls
    BY <2>7, FS_EmptySet DEF DepthCoversCalls, Init
  <2>. QED
    BY <2>2, <2>3, <2>4, <2>5, <2>6, <2>8 DEF TypeOK, TypeInv, DepthInv
<1>2. DepthInv /\ [Next]_vars => DepthInv'
  <2> SUFFICES ASSUME DepthInv, [Next]_vars
               PROVE  DepthInv'
    OBVIOUS
  <2> DEFINE Same == \A h \in Goroutines : Share(h)' = Share(h)
             Others(g) == \A h \in Goroutines \ {g} : Share(h)' = Share(h)
  <2>a. \A g \in Goroutines : Len(stack[g]) \in Nat /\ Len(stack[g]) <= MaxNest
    BY GateAssumption DEF DepthInv, TypeInv
  <2>b. Cardinality(InProgress) \in Nat
    BY InProgressFinite
  <2>c. ASSUME Same, TypeInv', depth' = depth PROVE DepthInv'
    BY <2>c, SameShares DEF DepthInv, DepthCoversCalls
  <2>d. "call" \in Methods
    BY DEF Methods
  <2> USE <2>a, <2>d, GateAssumption
          DEF DepthInv, TypeInv, TypeOK, PCs, flags
  <2>1. ASSUME NEW g \in Goroutines, NestAdd(g) PROVE DepthInv'
    <3>1. TypeInv'
      BY <2>1 DEF NestAdd
    <3>2. Share(g) \in Nat /\ Share(g) <= MaxNest /\ Share(g)' = Share(g) + 1
      BY <2>1 DEF NestAdd, Share
    <3>3. Others(g) /\ depth' = depth + 1
      BY <2>1 DEF NestAdd, Share
    <3>4. Cardinality(InProgress') = Cardinality(InProgress) + 1
      BY <3>2, <3>3, OneMore
    <3>. QED
      BY <2>b, <3>1, <3>3, <3>4 DEF DepthCoversCalls
  <2>2. ASSUME NEW g \in Goroutines, NestCheck(g) PROVE DepthInv'
    <3>1. TypeInv'
      BY <2>2 DEF NestCheck, Admit, Refuse
    <3>2. CASE Poisoned
      <4>1. Share(g) \in Nat \ {0} /\ Share(g) <= MaxNest + 1
        BY <2>2 DEF NestCheck, Share
      <4>2. Share(g)' = Share(g) - 1 /\ Others(g) /\ depth' = depth
        BY <2>2, <3>2 DEF NestCheck, Refuse, Share
      <4>3. Cardinality(InProgress') = Cardinality(InProgress) - 1
        BY <4>1, <4>2, OneLess
      <4>. QED
        BY <2>b, <3>1, <4>2, <4>3 DEF DepthCoversCalls
    <3>3. CASE ~Poisoned
      <4>1. Same /\ depth' = depth
        BY <2>2, <3>3 DEF NestCheck, Admit, Share
      <4>. QED
        BY <2>c, <3>1, <4>1
    <3>. QED
      BY <3>2, <3>3
  <2>3. ASSUME NEW g \in Goroutines, Lock(g) PROVE DepthInv'
    <3>1. TypeInv' /\ Same /\ depth' = depth
      BY <2>3 DEF Lock, Share
    <3>. QED
      BY <2>c, <3>1
  <2>4. ASSUME NEW g \in Goroutines, LockAdd(g) PROVE DepthInv'
    <3>1. TypeInv'
      BY <2>4 DEF LockAdd
    <3>2. Share(g) \in Nat /\ Share(g) <= MaxNest /\ Share(g)' = Share(g) + 1
      BY <2>4 DEF LockAdd, Share
    <3>3. Others(g) /\ depth' = depth + 1
      BY <2>4 DEF LockAdd, Share
    <3>4. Cardinality(InProgress') = Cardinality(InProgress) + 1
      BY <3>2, <3>3, OneMore
    <3>. QED
      BY <2>b, <3>1, <3>3, <3>4 DEF DepthCoversCalls
  <2>5. ASSUME NEW g \in Goroutines, LockCheck(g) PROVE DepthInv'
    <3>1. TypeInv' /\ Same /\ depth' = depth
      BY <2>5 DEF LockCheck, Refuse, Share
    <3>. QED
      BY <2>c, <3>1
  <2>6. ASSUME NEW g \in Goroutines, DrainDone(g) PROVE DepthInv'
    <3>1. TypeInv' /\ Same /\ depth' = depth
      BY <2>6 DEF DrainDone, Admit, Share
    <3>. QED
      BY <2>c, <3>1
  <2>7. ASSUME NEW g \in Goroutines, DrainPanic(g) PROVE DepthInv'
    <3>1. TypeInv'
      BY <2>7 DEF DrainPanic
    <3>2. Share(g) \in Nat \ {0} /\ Share(g) <= MaxNest + 1
      BY <2>7 DEF DrainPanic, Share
    <3>3. Share(g)' = Share(g) - 1 /\ Others(g) /\ depth' = depth
      BY <2>7 DEF DrainPanic, Share
    <3>4. Cardinality(InProgress') = Cardinality(InProgress) - 1
      BY <3>2, <3>3, OneLess
    <3>. QED
      BY <2>b, <3>1, <3>3, <3>4 DEF DepthCoversCalls
  <2>8. ASSUME NEW g \in Goroutines, BodyDone(g) PROVE DepthInv'
    <3>1. TypeInv' /\ Same /\ depth' = depth
      BY <2>8 DEF BodyDone, Share
    <3>. QED
      BY <2>c, <3>1
  <2>9. ASSUME NEW g \in Goroutines, BodyPanic(g) PROVE DepthInv'
    <3>1. TypeInv' /\ Same /\ depth' = depth
      BY <2>9 DEF BodyPanic, Share
    <3>. QED
      BY <2>c, <3>1
  <2>10. ASSUME NEW g \in Goroutines, Leave(g) PROVE DepthInv'
    <3>1. Share(g) \in Nat \ {0} /\ Share(g) <= MaxNest + 1
      BY <2>10 DEF Leave, Share
    <3>2. Share(g)' = Share(g) - 1 /\ Others(g) /\ depth' = depth - 1
      BY <2>10 DEF Leave, Share
    <3>3. /\ Cardinality(InProgress') = Cardinality(InProgress) - 1
          /\ Cardinality(InProgress') \in Nat
      BY <3>1, <3>2, OneLess
    <3>4. depth' \in Nat /\ DepthCoversCalls'
      BY <2>b, <3>2, <3>3 DEF DepthCoversCalls
    <3>. QED
      BY <2>10, <3>4 DEF Leave
  <2>11. ASSUME NEW g \in Goroutines, Unlock(g) PROVE DepthInv'
    <3>1. TypeInv' /\ Same /\ depth' = depth
      BY <2>11 DEF Unlock, Share
    <3>. QED
      BY <2>c, <3>1
  <2>12. ASSUME NEW g \in Goroutines, CallHost(g) PROVE DepthInv'
    <3>1. pc[g] \in Phases
      BY <2>12 DEF CallHost
    <3> DEFINE f == [method |-> method[g], at |-> pc[g]]
    <3>2. f \in Frames
      BY <3>1 DEF Frames
    <3>3. /\ <<f>> \o stack[g] \in Seq(Frames)
          /\ Len(<<f>> \o stack[g]) = Len(stack[g]) + 1
      BY <3>2, PushFrame
    <3>4. /\ stack' \in [Goroutines -> Seq(Frames)]
          /\ Len(stack'[g]) = Len(stack[g]) + 1
          /\ Len(stack'[g]) \in 0..MaxNest
          /\ \A h \in Goroutines \ {g} :
                stack'[h] = stack[h] /\ pc'[h] = pc[h]
      BY <3>3, <2>12 DEF CallHost
    <3>5. TypeInv'
      BY <3>4, <2>12 DEF CallHost
    <3>6. /\ Share(g)' = Len(stack'[g]) /\ Share(g) = Len(stack[g]) + 1
          /\ Others(g) /\ depth' = depth
      BY <3>1, <3>4, <2>12 DEF CallHost, Share, Phases
    <3>. QED
      BY <2>c, <3>4, <3>5, <3>6
  <2>13. ASSUME NEW g \in Goroutines, HostReturn(g) PROVE DepthInv'
    <3>1. /\ Head(stack[g]) \in Frames /\ Tail(stack[g]) \in Seq(Frames)
          /\ Len(Tail(stack[g])) = Len(stack[g]) - 1
          /\ Len(stack[g]) \in Nat \ {0}
      BY <2>13, PopFrame DEF HostReturn
    <3>2. Head(stack[g]).at \in Phases /\ Head(stack[g]).method \in Methods
      BY <3>1 DEF Frames
    <3>3. TypeInv'
      BY <3>1, <3>2, <2>13 DEF HostReturn, Phases
    <3>4. /\ stack'[g] = Tail(stack[g]) /\ pc'[g] = Head(stack[g]).at
          /\ pc[g] = "out" /\ depth' = depth
          /\ \A h \in Goroutines \ {g} :
                stack'[h] = stack[h] /\ pc'[h] = pc[h]
      BY <2>13 DEF HostReturn
    <3>5. Share(g)' = Len(stack'[g]) + 1 /\ Share(g) = Len(stack[g])
      <4>1. pc'[g] \in {"drain", "body"}
        BY <3>2, <3>4 DEF Phases
      <4>2. /\ Share(g)' = Len(stack'[g]) + 1
            /\ Share(g) = Len(stack[g]) + 0
        BY <4>1, <3>4 DEF Share
      <4>. QED
        BY <4>2
    <3>6. Others(g)
      BY <3>4 DEF Share
    <3>. QED
      BY <2>c, <3>1, <3>3, <3>4, <3>5, <3>6
  <2>14. ASSUME NEW g \in Goroutines, NEW m \in Methods, Enter(g, m)
         PROVE  DepthInv'
    <3>1. TypeInv' /\ Same /\ depth' = depth
      BY <2>14 DEF Enter, Share
    <3>. QED
      BY <2>c, <3>1
  <2>15. CASE UNCHANGED vars
    <3>1. TypeInv' /\ Same /\ depth' = depth
      BY <2>15 DEF vars, Share
    <3>. QED
      BY <2>c, <3>1
  <2>. QED
    BY <2>1, <2>2, <2>3, <2>4, <2>5, <2>6, <2>7, <2>8, <2>9, <2>10, <2>11,
       <2>12, <2>13, <2>14, <2>15 DEF Next, Step
<1>. QED
  BY <1>1, <1>2, PTL DEF Spec

(* The values of the variables keep their types; above all, depth never     *)
(* goes below zero, whatever calls overlap (cpython.go, leave).             *)
THEOREM TypeCorrect == Spec => []TypeOK
<1>1. DepthInv => TypeOK
  BY DEF DepthInv, TypeInv
<1>. QED
  BY <1>1, DepthInvariant, PTL

(* depth counts at least every call in progress (cpython.go, enter, leave). *)
THEOREM DepthCovers == Spec => []DepthCoversCalls
<1>1. DepthInv => DepthCoversCalls
  BY DEF DepthInv
<1>. QED
  BY <1>1, DepthInvariant, PTL

(* Until a call strays, who may hold the mutex is who does. *)
LEMMA GateInvariant == Spec => []GateInv
<1> USE DEF Goto, Move, Outermost
<1>1. Init => GateInv
  BY DEF Init, GateInv, OwnersHoldMu, OneOwner, OwnerCounted,
         LockPathOutermost, StraysPoisoned, Owner
<1>2. DepthInv /\ GateInv /\ [Next]_vars => GateInv'
  <2> SUFFICES ASSUME DepthInv, GateInv, [Next]_vars, ~strayed'
               PROVE  /\ OwnersHoldMu'
                      /\ OneOwner'
                      /\ OwnerCounted'
                      /\ LockPathOutermost'
                      /\ StraysPoisoned'
                      /\ ~fatal'
    BY DEF GateInv
  <2> DEFINE Goal == /\ OwnersHoldMu' /\ OneOwner' /\ OwnerCounted'
                     /\ LockPathOutermost' /\ StraysPoisoned' /\ ~fatal'
  <2>0. ~strayed
    BY DEF Next, Step, NestAdd, NestCheck, Lock, LockAdd, LockCheck,
           DrainDone, DrainPanic, BodyDone, BodyPanic, Leave, Unlock,
           CallHost, HostReturn, Enter, vars, DepthInv, TypeInv, TypeOK
  <2>00. \A g \in Goroutines :
           Len(stack[g]) \in Nat /\ (Len(stack[g]) = 0 <=> stack[g] = << >>)
    BY EmptyStack DEF DepthInv, TypeInv, TypeOK
  <2> USE <2>0, <2>00 DEF GateInv, OwnersHoldMu, OneOwner, OwnerCounted,
                   LockPathOutermost, StraysPoisoned, Owner, Share, Poisoned,
                   flags, DepthInv, TypeInv, TypeOK
  <2>1. ASSUME NEW g \in Goroutines, NestAdd(g) PROVE Goal
    BY <2>1 DEF NestAdd
  <2>2. ASSUME NEW g \in Goroutines, NestCheck(g) PROVE Goal
    BY <2>2 DEF NestCheck, Admit, Refuse
  <2>3. ASSUME NEW g \in Goroutines, Lock(g) PROVE Goal
    BY <2>3 DEF Lock
  <2>4. ASSUME NEW g \in Goroutines, LockAdd(g) PROVE Goal
    BY <2>4 DEF LockAdd
  <2>5. ASSUME NEW g \in Goroutines, LockCheck(g) PROVE Goal
    BY <2>5 DEF LockCheck, Refuse
  <2>6. ASSUME NEW g \in Goroutines, DrainDone(g) PROVE Goal
    BY <2>6 DEF DrainDone, Admit
  <2>7. ASSUME NEW g \in Goroutines, DrainPanic(g) PROVE Goal
    BY <2>7 DEF DrainPanic
  <2>8. ASSUME NEW g \in Goroutines, BodyDone(g) PROVE Goal
    BY <2>8 DEF BodyDone
  <2>9. ASSUME NEW g \in Goroutines, BodyPanic(g) PROVE Goal
    BY <2>9 DEF BodyPanic
  <2>10. ASSUME NEW g \in Goroutines, Leave(g) PROVE Goal
    BY <2>10 DEF Leave
  <2>11. ASSUME NEW g \in Goroutines, Unlock(g) PROVE Goal
    BY <2>11 DEF Unlock
  <2>12. ASSUME NEW g \in Goroutines, CallHost(g) PROVE Goal
    <3>1. pc[g] \in Phases
      BY <2>12, GateAssumption DEF CallHost
    <3> DEFINE f == [method |-> method[g], at |-> pc[g]]
    <3>2. f \in Frames
      BY <3>1 DEF Frames
    <3>3. /\ stack'[g] # << >>
          /\ Len(stack'[g]) = Len(stack[g]) + 1
          /\ pc'[g] = "out"
          /\ \A h \in Goroutines \ {g} :
                stack'[h] = stack[h] /\ pc'[h] = pc[h]
      BY <3>2, <2>12, PushFrame DEF CallHost
    <3>4. Owner(g) /\ Share(g)' = Share(g)
      BY <3>1, <3>3 DEF Phases
    <3>5. /\ mu' = mu /\ depth' = depth /\ fatal' = fatal
          /\ (Poisoned <=> Poisoned')
      BY <2>12 DEF CallHost
    <3>6. OwnersHoldMu' /\ OneOwner'
      BY <3>3, <3>4, <3>5
    <3>7. OwnerCounted'
      BY <3>3, <3>4, <3>5
    <3>8. LockPathOutermost' /\ StraysPoisoned'
      BY <3>3, <3>5
    <3>. QED
      BY <3>5, <3>6, <3>7, <3>8
  <2>13. ASSUME NEW g \in Goroutines, HostReturn(g) PROVE Goal
    <3>1. stack[g] # << >>
      BY <2>13 DEF HostReturn
    <3>2. Head(stack[g]).at \in Phases
      BY <3>1, PopFrame DEF Frames
    <3>3. /\ Len(stack'[g]) = Len(stack[g]) - 1
          /\ Len(stack'[g]) \in Nat
          /\ Len(stack'[g]) = 0 <=> stack'[g] = << >>
          /\ pc'[g] \in Phases
          /\ \A h \in Goroutines \ {g} :
                stack'[h] = stack[h] /\ pc'[h] = pc[h]
      BY <3>1, <3>2, <2>13, PopFrame, EmptyStack DEF HostReturn
    <3>4. Owner(g) /\ Share(g)' = Share(g)
      BY <3>1, <3>3, <2>13 DEF HostReturn, Phases
    <3>5. /\ mu' = mu /\ depth' = depth /\ fatal' = fatal
          /\ (Poisoned <=> Poisoned')
      BY <2>13 DEF HostReturn
    <3>6. OwnersHoldMu' /\ OneOwner'
      BY <3>3, <3>4, <3>5
    <3>7. OwnerCounted'
      <4>1. depth' >= Share(g)'
        BY <3>4, <3>5
      <4>2. ASSUME NEW h \in Goroutines \ {g}, Owner(h)' PROVE depth' >= Share(h)'
        BY <3>3, <3>5, <4>2
      <4> QED
        BY <3>5, <4>1, <4>2
    <3>8. StraysPoisoned'
      BY <3>3, <3>5 DEF Phases
    <3>9. LockPathOutermost'
      BY <3>3, <3>5 DEF Phases
    <3>. QED
      BY <3>5, <3>6, <3>7, <3>8, <3>9
  <2>14. ASSUME NEW g \in Goroutines, NEW m \in Methods, Enter(g, m)
         PROVE  Goal
    <3>1. /\ mu' = mu /\ depth' = depth /\ fatal' = fatal /\ stack' = stack
          /\ (Poisoned <=> Poisoned') /\ pc[g] = "out"
          /\ pc' = [pc EXCEPT ![g] = IF depth > 0 THEN "nest" ELSE "lock"]
      BY <2>14 DEF Enter
    <3>2. depth > 0 /\ stack[g] = << >> => Poisoned
      BY <2>14 DEF Enter
    <3>3. stack[g] # << >> => depth > 0
      OBVIOUS
    <3>4. OwnersHoldMu' /\ OneOwner' /\ OwnerCounted' /\ LockPathOutermost'
      BY <3>1, <3>3
    <3>5. StraysPoisoned' /\ ~fatal'
      BY <3>1, <3>2
    <3>. QED
      BY <3>4, <3>5
  <2>15. CASE UNCHANGED vars
    BY <2>15 DEF vars
  <2>. QED
    BY <2>1, <2>2, <2>3, <2>4, <2>5, <2>6, <2>7, <2>8, <2>9, <2>10, <2>11,
       <2>12, <2>13, <2>14, <2>15 DEF Next, Step
<1>. QED
  BY <1>1, <1>2, DepthInvariant, PTL DEF Spec

(* Until an outermost call of a healthy interpreter is let in by depth > 0, *)
(* C code of two goroutines is never in progress at once and leave() never  *)
(* unlocks a free mutex (cpython.go, enter and leave).                      *)
THEOREM Serialization == Spec => []SerializedUnlessStrayed
<1>1. GateInv => SerializedUnlessStrayed
  BY DEF GateInv, OneOwner, Owner, SerializedUnlessStrayed, Serialized, Inside,
         UnlocksOnlyLocked, Outermost
<1>. QED
  BY <1>1, GateInvariant, PTL

-----------------------------------------------------------------------------

(* Past the check of enter(), innermost. *)
Past(l) == l \in {"drain", "body", "leave"}

(* A goroutine's level counts its waiting frames and the call it is in. *)
LEMMA Levels ==
  ASSUME TypeInv, NEW g \in Goroutines
  PROVE  /\ Level[g] \in Nat
         /\ Level[g] = Len(stack[g]) + IF Past(pc[g]) THEN 1 ELSE 0
         /\ Level[g] > 0 <=> (stack[g] # << >> \/ Past(pc[g]))
<1>1. Len(stack[g]) \in Nat /\ (Len(stack[g]) = 0 <=> stack[g] = << >>)
  BY EmptyStack DEF TypeInv, TypeOK
<1>2. Level[g] = Len(stack[g]) + IF Past(pc[g]) THEN 1 ELSE 0
  BY DEF Level, Past
<1>3. CASE Past(pc[g])
  <2>1. Level[g] = Len(stack[g]) + 1
    BY <1>2, <1>3
  <2> QED
    BY <1>1, <1>2, <1>3, <2>1
<1>4. CASE ~Past(pc[g])
  <2>1. Level[g] = Len(stack[g]) + 0
    BY <1>2, <1>4
  <2> QED
    BY <1>1, <1>2, <1>4, <2>1
<1> QED
  BY <1>3, <1>4

(* A step that leaves the stacks alone changes the level of g at most. *)
LEMMA LevelStep ==
  ASSUME TypeInv, NEW g \in Goroutines, NEW l, stack' = stack, pc' = [pc EXCEPT ![g] = l]
  PROVE  /\ (Past(l) <=> Past(pc[g])) => Level' = Level
         /\ (Past(l) /\ ~Past(pc[g])) => Level' = [Level EXCEPT ![g] = @ + 1]
         /\ (~Past(l) /\ Past(pc[g])) => Level' = [Level EXCEPT ![g] = @ - 1]
<1> DEFINE At(k) == Len(stack[g]) + IF Past(k) THEN 1 ELSE 0
<1>1. /\ pc'[g] = l /\ \A h \in Goroutines \ {g} : pc'[h] = pc[h]
      /\ Len(stack[g]) \in Nat
  BY EmptyStack DEF TypeInv, TypeOK
<1>2. /\ DOMAIN Level = Goroutines
      /\ Level' = [Level EXCEPT ![g] = At(l)]
      /\ Level[g] = At(pc[g])
  BY <1>1 DEF Level, Past
<1>3. /\ (Past(l) <=> Past(pc[g])) => At(l) = At(pc[g])
      /\ (Past(l) /\ ~Past(pc[g])) => At(l) = At(pc[g]) + 1
      /\ (~Past(l) /\ Past(pc[g])) => At(l) = At(pc[g]) - 1
  <2> DEFINE n == Len(stack[g])
  <2>1. /\ Past(l) => At(l) = n + 1
        /\ ~Past(l) => At(l) = n + 0
        /\ Past(pc[g]) => At(pc[g]) = n + 1
        /\ ~Past(pc[g]) => At(pc[g]) = n + 0
    BY Zenon
  <2>2. n \in Nat /\ (n + 1) - 1 = n + 0 /\ (n + 0) + 1 = n + 1
    BY <1>1
  <2> HIDE DEF At, n
  <2> QED
    BY <2>1, <2>2, Zenon
<1>4. /\ At(l) = At(pc[g]) => Level' = Level
      /\ At(l) = At(pc[g]) + 1 => Level' = [Level EXCEPT ![g] = @ + 1]
      /\ At(l) = At(pc[g]) - 1 => Level' = [Level EXCEPT ![g] = @ - 1]
  <2> HIDE DEF At
  <2> QED
    BY <1>2, Zenon DEF Level
<1> HIDE DEF At
<1> QED
  BY <1>3, <1>4, Zenon

(* Until a call strays, who passes a check is the only one inside. *)
LEMMA AloneInside ==
  ASSUME TypeInv, GateInv, ~strayed, NEW g \in Goroutines, Owner(g)
  PROVE  \A h \in Goroutines \ {g} : Level[h] = 0
<1>1. \A h \in Goroutines \ {g} : ~Owner(h)
  BY DEF GateInv, OneOwner
<1>2. \A h \in Goroutines \ {g} : Level[h] \in Nat /\ ~(Level[h] > 0)
  BY <1>1, Levels DEF Owner, Past
<1> QED
  BY <1>2

(* Inside a host function or back from it, a goroutine has as many methods  *)
(* in progress as before: suspended, it counts as one of the stack.         *)
LEMMA HostLevels ==
  ASSUME TypeInv, NEW g \in Goroutines, CallHost(g) \/ HostReturn(g)
  PROVE  Level' = Level
<1>1. /\ \A h \in Goroutines \ {g} : stack'[h] = stack[h] /\ pc'[h] = pc[h]
      /\ g \in DOMAIN pc /\ g \in DOMAIN stack /\ stack[g] \in Seq(Frames)
      /\ method[g] \in Methods
  BY DEF CallHost, HostReturn, Goto, Move, TypeInv, TypeOK
<1>2. CASE CallHost(g)
  <2>1. pc[g] \in Phases
    BY <1>2, GateAssumption DEF CallHost
  <2> DEFINE f == [method |-> method[g], at |-> pc[g]]
  <2>2. Len(<<f>> \o stack[g]) = Len(stack[g]) + 1 /\ Len(stack[g]) \in Nat
    BY <1>1, <2>1, PushFrame, EmptyStack DEF Frames
  <2>3. stack'[g] = <<f>> \o stack[g] /\ pc'[g] = "out"
    BY <1>1, <1>2 DEF CallHost, Goto, Move
  <2>4. Len(stack'[g]) + 0 = Len(stack[g]) + 1
    BY <2>2, <2>3
  <2>5. \A h \in Goroutines : Level[h]' = Level[h]
    BY <1>1, <2>1, <2>3, <2>4 DEF Level, Phases
  <2> QED
    BY <2>5 DEF Level
<1>3. CASE HostReturn(g)
  <2>1. stack[g] # << >> /\ stack[g] \in Seq(Frames)
    BY <1>1, <1>3 DEF HostReturn, Outermost
  <2>2. /\ Head(stack[g]).at \in Phases
        /\ Len(Tail(stack[g])) = Len(stack[g]) - 1 /\ Len(stack[g]) \in Nat
    BY <2>1, PopFrame DEF Frames
  <2>3. stack'[g] = Tail(stack[g]) /\ pc[g] = "out" /\ pc'[g] \in Phases
    BY <1>1, <1>3, <2>2 DEF HostReturn, Goto
  <2>4. Len(stack'[g]) + 1 = Len(stack[g]) + 0
    BY <2>2, <2>3
  <2>5. \A h \in Goroutines : Level[h]' = Level[h]
    BY <1>1, <2>3, <2>4 DEF Level, Phases
  <2> QED
    BY <2>5 DEF Level
<1> QED
  BY <1>2, <1>3

(* Its callers get what SerializedCalls promises, until a call strays: one  *)
(* goroutine goes further in at a time, from within, and none once the      *)
(* interpreter is dead (cpython.go, enter, check and leave).                *)
THEOREM Refinement == Spec => ImplementsSerializedCalls
<1> USE DEF Goto, Move, flags
<1>1. Init => Promised!Init
  <2>1. Len(<< >>) = 0
    OBVIOUS
  <2> QED
    BY <2>1 DEF Init, Promised!Init, Level, Poisoned
<1>2. TypeInv /\ GateInv /\ [Next]_vars => [strayed' \/ Promised!Next]_(Promised!vars)
  <2> SUFFICES ASSUME TypeInv, GateInv, [Next]_vars, ~strayed'
               PROVE  Promised!Next \/ (Level' = Level /\ Poisoned' = Poisoned)
    BY DEF Promised!vars
  <2> DEFINE Goal == Promised!Next \/ (Level' = Level /\ Poisoned' = Poisoned)
  <2>0. ~strayed
    BY DEF Next, Step, NestAdd, NestCheck, Lock, LockAdd, LockCheck,
           DrainDone, DrainPanic, BodyDone, BodyPanic, Leave, Unlock,
           CallHost, HostReturn, Enter, vars, TypeInv, TypeOK
  <2>1. ASSUME NEW g \in Goroutines, Level[g] > 0, Level' = Level, Poisoned => Poisoned' PROVE Goal
    BY <2>1 DEF Promised!Next, Promised!Die, Poisoned
  <2>2. ASSUME NEW g \in Goroutines, ~Poisoned, Owner(g),
               Level' = [Level EXCEPT ![g] = @ + 1]
        PROVE  Goal
    BY <2>0, <2>2, AloneInside DEF Promised!Next, Promised!GoIn, Poisoned
  <2>3. ASSUME NEW g \in Goroutines, Level[g] > 0, UNCHANGED flags,
               Level' = [Level EXCEPT ![g] = @ - 1]
        PROVE  Goal
    BY <2>3 DEF Promised!Next, Promised!GoOut, Poisoned
  <2>4. ASSUME NEW g \in Goroutines,
               NestAdd(g) \/ Lock(g) \/ LockAdd(g) \/ BodyDone(g) \/ Unlock(g)
                 \/ \E m \in Methods : Enter(g, m)
        PROVE  Goal
    BY <2>4, LevelStep
       DEF NestAdd, Lock, LockAdd, BodyDone, Unlock, Enter, Past, Poisoned
  <2>5. ASSUME NEW g \in Goroutines, NestCheck(g) PROVE Goal
    <3>1. CASE Poisoned
      <4>1. Level' = Level
        BY <2>5, <3>1, LevelStep DEF NestCheck, Refuse, Past
      <4>2. Poisoned'
        BY <2>5, <3>1 DEF NestCheck, Refuse, Poisoned
      <4> QED
        BY <3>1, <4>1, <4>2
    <3>2. CASE ~Poisoned
      <4>1. Owner(g)
        BY <2>0, <2>5, <3>2 DEF NestCheck, GateInv, StraysPoisoned, Owner
      <4>2. Level' = [Level EXCEPT ![g] = @ + 1]
        BY <2>5, <3>2, LevelStep DEF NestCheck, Admit, Past
      <4> QED
        BY <2>2, <3>2, <4>1, <4>2
    <3> QED
      BY <3>1, <3>2
  <2>6. ASSUME NEW g \in Goroutines, LockCheck(g) PROVE Goal
    <3>1. CASE Poisoned
      <4>1. Level' = Level
        BY <2>6, <3>1, LevelStep DEF LockCheck, Refuse, Past
      <4>2. Poisoned'
        BY <2>6, <3>1 DEF LockCheck, Refuse, Poisoned
      <4> QED
        BY <3>1, <4>1, <4>2
    <3>2. CASE ~Poisoned
      <4>1. Owner(g)
        BY <2>6 DEF LockCheck, Owner
      <4>2. Level' = [Level EXCEPT ![g] = @ + 1]
        BY <2>6, <3>2, LevelStep DEF LockCheck, Past
      <4> QED
        BY <2>2, <3>2, <4>1, <4>2
    <3> QED
      BY <3>1, <3>2
  <2>7. ASSUME NEW g \in Goroutines, DrainDone(g) \/ BodyPanic(g) PROVE Goal
    <3>1. Level[g] > 0
      BY <2>7, Levels DEF DrainDone, BodyPanic, Past
    <3>2. Level' = Level
      BY <2>7, LevelStep DEF DrainDone, Admit, BodyPanic, Past
    <3>3. Poisoned => Poisoned'
      BY <2>7 DEF DrainDone, Admit, BodyPanic, Poisoned
    <3> QED
      BY <2>1, <3>1, <3>2, <3>3
  <2>8. ASSUME NEW g \in Goroutines, DrainPanic(g) \/ Leave(g) PROVE Goal
    <3>1. CASE pc[g] = "refused"
      <4>1. Level' = Level
        BY <2>8, <3>1, LevelStep DEF DrainPanic, Leave, Past
      <4>2. Poisoned' = Poisoned
        BY <2>8 DEF DrainPanic, Leave, Poisoned
      <4> QED
        BY <4>1, <4>2
    <3>2. CASE pc[g] # "refused"
      <4>1. Past(pc[g])
        BY <2>8, <3>2 DEF DrainPanic, Leave, Past
      <4>2. Level[g] > 0
        BY <4>1, Levels
      <4>3. Level' = [Level EXCEPT ![g] = @ - 1] /\ UNCHANGED flags
        BY <2>8, <4>1, LevelStep DEF DrainPanic, Leave, Past
      <4> QED
        BY <2>3, <4>2, <4>3
    <3> QED
      BY <3>1, <3>2
  <2>9. ASSUME NEW g \in Goroutines, CallHost(g) PROVE Goal
    <3>1. Poisoned' = Poisoned
      BY <2>9 DEF CallHost, Poisoned
    <3> QED
      BY <2>9, <3>1, HostLevels
  <2>10. ASSUME NEW g \in Goroutines, HostReturn(g) PROVE Goal
    <3>1. Poisoned' = Poisoned
      BY <2>10 DEF HostReturn, Poisoned
    <3> QED
      BY <2>10, <3>1, HostLevels
  <2>11. ASSUME UNCHANGED vars PROVE Goal
    BY <2>11 DEF vars, Level, Poisoned
  <2> HIDE DEF Goal
  <2>12. ASSUME NEW g \in Goroutines,
               Step(g) \/ CallHost(g) \/ HostReturn(g) \/ \E m \in Methods : Enter(g, m)
         PROVE  Goal
    <3>1. CASE Step(g)
      BY <3>1, <2>4, <2>5, <2>6, <2>7, <2>8, Zenon DEF Step
    <3>2. CASE CallHost(g)
      BY <3>2, <2>9
    <3>3. CASE HostReturn(g)
      BY <3>3, <2>10
    <3>4. CASE \E m \in Methods : Enter(g, m)
      BY <3>4, <2>4
    <3> QED
      BY <2>12, <3>1, <3>2, <3>3, <3>4
  <2>13. Goal
    <3>1. CASE Next
      BY <3>1, <2>12 DEF Next
    <3> QED
      BY <2>11, <3>1
  <2> QED
    BY <2>13 DEF Goal
<1>3. DepthInv => TypeInv
  BY DEF DepthInv
<1> QED
  BY <1>1, <1>2, <1>3, DepthInvariant, GateInvariant, PTL DEF Spec, ImplementsSerializedCalls

-----------------------------------------------------------------------------

(* A locked mutex: somebody is about to count its call, or to unlock it.    *)
MutexCounted == mu => depth > 0 \/ \E g \in Goroutines : pc[g] \in {"add", "unlock"}

(* ... or has a call in progress, whose leave() may be the one that unlocks *)
(* it, unless depth has leaked.                                             *)
Busy(g) == Share(g) > 0 \/ pc[g] \in {"add", "unlock"}
MutexNotLost == mu => Leaked \/ \E g \in Goroutines : Busy(g)

LEMMA MutexCountedNext ==  \* who leaves with depth at zero unlocks
  DepthInv /\ MutexCounted /\ [Next]_vars => MutexCounted'
<1> SUFFICES ASSUME DepthInv, MutexCounted, [Next]_vars, mu', ~(depth' > 0)
             PROVE  \E h \in Goroutines : pc'[h] \in {"add", "unlock"}
  BY DEF MutexCounted
<1>0. pc \in [Goroutines -> PCs] /\ depth \in Nat
  BY DEF DepthInv, TypeInv, TypeOK
<1> USE <1>0 DEF Goto, Move
<1>1. ASSUME NEW g \in Goroutines, Lock(g) \/ Leave(g)
      PROVE  pc'[g] \in {"add", "unlock"}
  <2>1. CASE Lock(g)
    BY <2>1 DEF Lock
  <2>2. CASE Leave(g)
    <3>1. depth \in Nat /\ depth > 0 /\ depth' = depth - 1
      <4>1. g \in Goroutines /\ Share(g) \in Nat \ {0} /\ Share(g) <= MaxNest + 1
        BY <2>2, GateAssumption DEF Leave, Share, DepthInv, TypeInv, TypeOK
      <4>2. <<g, 1>> \in InProgress
        BY <4>1, GateAssumption DEF InProgress
      <4>3. Cardinality(InProgress) \in Nat \ {0}
        BY <4>2, InProgressFinite, FS_EmptySet
      <4> QED
        BY <2>2, <4>3 DEF Leave, DepthInv, DepthCoversCalls
    <3>2. depth' = 0
      BY <3>1
    <3> QED
      BY <2>2, <3>2 DEF Leave
  <2> QED
    BY <1>1, <2>1, <2>2
<1>2. ASSUME NEW g \in Goroutines, NestAdd(g) \/ LockAdd(g) \/ Unlock(g) PROVE FALSE
  <2>1. CASE NestAdd(g) \/ LockAdd(g)
    <3>1. depth' = depth + 1
      BY <2>1 DEF NestAdd, LockAdd
    <3> QED
      BY <3>1
  <2>2. CASE Unlock(g)
    BY <2>2 DEF Unlock
  <2> QED
    BY <1>2, <2>1, <2>2
<1>3. ASSUME NEW g \in Goroutines,
             \/ NestCheck(g) \/ LockCheck(g) \/ DrainDone(g) \/ DrainPanic(g)
             \/ BodyDone(g) \/ BodyPanic(g) \/ CallHost(g) \/ HostReturn(g)
             \/ \E m \in Methods : Enter(g, m)
      PROVE  \E h \in Goroutines : pc'[h] \in {"add", "unlock"}
  <2>1. mu /\ ~(depth > 0)
    BY <1>3 DEF NestCheck, LockCheck, DrainDone, DrainPanic, BodyDone, BodyPanic,
                CallHost, HostReturn, Enter
  <2>2. pc[g] \notin {"add", "unlock"} /\ \A h \in Goroutines \ {g} : pc'[h] = pc[h]
    BY <1>3, GateAssumption DEF NestCheck, LockCheck, DrainDone, DrainPanic, BodyDone,
         BodyPanic, CallHost, HostReturn, Enter, Admit, Refuse, Phases
  <2> QED
    BY <2>1, <2>2 DEF MutexCounted
<1>4. CASE UNCHANGED vars
  BY <1>4 DEF vars, MutexCounted
<1> QED
  BY <1>1, <1>2, <1>3, <1>4 DEF Next, Step

(* No caller waits for a mutex that nobody has: while mu is locked, some    *)
(* call is on its way to unlock it, however calls overlap and panic, unless *)
(* an enter() that failed or a drain() that panicked left depth too high.   *)
THEOREM MutexComesBack == Spec => []MutexNotLost
<1>1. Init => MutexCounted
  BY DEF Init, MutexCounted
<1>2. DepthInv /\ MutexCounted => MutexNotLost
  <2> SUFFICES ASSUME DepthInv, mu, depth > 0, ~Leaked
               PROVE  \E g \in Goroutines : Busy(g)
    BY DEF MutexCounted, MutexNotLost, Busy
  <2>1. depth \in Nat /\ Cardinality(InProgress) \in Nat /\ IsFiniteSet(InProgress)
    BY InProgressFinite DEF DepthInv, TypeInv, TypeOK
  <2>2. Cardinality(InProgress) # 0
    BY <2>1 DEF Leaked
  <2>3. PICK c \in InProgress : TRUE
    BY <2>1, <2>2, FS_EmptySet
  <2>4. c[1] \in Goroutines /\ c[2] \in 1..(MaxNest + 1) /\ c[2] <= Share(c[1])
    BY <2>3 DEF InProgress
  <2>5. Share(c[1]) \in Nat
    <3>1. Len(stack[c[1]]) \in Nat
      BY <2>4, EmptyStack DEF DepthInv, TypeInv, TypeOK
    <3>2. \A n \in Nat : n + 0 \in Nat /\ n + 1 \in Nat
      OBVIOUS
    <3>3. \/ Share(c[1]) = Len(stack[c[1]]) + 1
          \/ Share(c[1]) = Len(stack[c[1]]) + 0
      BY DEF Share
    <3> QED
      BY <3>1, <3>2, <3>3
  <2> QED
    BY <2>4, <2>5, GateAssumption DEF Busy
<1> QED
  BY <1>1, <1>2, MutexCountedNext, DepthInvariant, PTL DEF Spec

=============================================================================
