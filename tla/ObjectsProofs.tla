---------------------------- MODULE ObjectsProofs ----------------------------
(***************************************************************************)
(* Theorems about Objects, for any number of handles and goroutines and    *)
(* any nesting of host functions: where the reference of a handle is, and  *)
(* that it is not given back while C code works with it.                   *)
(***************************************************************************)
EXTENDS Objects, TLAPS

HandlesOK ==
  /\ held \in [Objects -> {"unborn", "app", "garbage"}]
  /\ p \in [Objects -> BOOLEAN]
  /\ armed \in [Objects -> BOOLEAN]

QueuesOK ==
  /\ swapped \subseteq Objects /\ pending \subseteq Objects
  /\ todo \subseteq Objects /\ dropped \subseteq Objects
  /\ decs \in [Objects -> 0..1]
  /\ dead \in BOOLEAN /\ leaked \in BOOLEAN /\ strayed \in BOOLEAN

CallsOK ==
  /\ pc \in [Goroutines -> PCs]
  /\ op \in [Goroutines -> Ops]
  /\ stack \in [Goroutines -> Seq(Frames)]

(* mu, as SerializedCalls promises it. *)
OneInside == ~strayed => \A g, h \in Goroutines : Inside(g) /\ Inside(h) => g = h

(* Only an outermost method drains: one that does is at the bottom.         *)
AtBottom(s) == \A i \in 1..Len(s) : s[i].at = "del" => i = Len(s)
DrainsOutermost ==
  \A g \in Goroutines :
    /\ pc[g] \in {"drain", "del"} => stack[g] = << >>
    /\ AtBottom(stack[g])

(* Which methods get where. *)
FrameOK(f, gone) ==
  /\ f.at = "ptr" => f.m = "use"
  /\ f.at \in {"decref", "after"} => f.m = "release"
  /\ f.at = "c" => f.m # "release" /\ (f.m = "close" => gone)
  /\ f.m \in {"use", "release"} => f.o \in Objects
Now(g) == [m |-> op[g].m, o |-> op[g].o, at |-> pc[g]]
FramesOK ==
  \A g \in Goroutines :
    /\ FrameOK(Now(g), dead)
    /\ \A f \in Suspended(g) : FrameOK(f, dead)

(* A Release of o by g has yet to give the reference back: g is in it, or   *)
(* waits for a host function that its drain called.                         *)
Doing(g, o) == op[g].m = "release" /\ op[g].o = o /\ pc[g] \in {"enter", "drain", "del", "decref"}
Waiting(g, o) == \E f \in Suspended(g) : f.m = "release" /\ f.o = o /\ f.at = "del"
Releases(g, o) == Doing(g, o) \/ Waiting(g, o)

(* There is one such Release at a time. *)
ReleasedOnce ==
  \A o \in Objects, g \in Goroutines :
    /\ ~(Doing(g, o) /\ Waiting(g, o))
    /\ \A h \in Goroutines : Releases(g, o) /\ Releases(h, o) => g = h

(* What drain has taken from the queue, it is about to give back. *)
Drains(g) == pc[g] \in {"drain", "del"} \/ \E f \in Suspended(g) : f.at = "del"
SomeoneDrains == todo # {} => \E g \in Goroutines : Drains(g)

(* The application's part, once its Release is under way. *)
NotOwnBorrow ==
  \A g \in Goroutines : \A f \in Suspended(g) :
    op[g].m = "release" /\ pc[g] \in {"enter", "decref"} => ~Borrows(f, op[g].o)

IInv ==
  /\ HandlesOK /\ QueuesOK /\ CallsOK
  /\ OneInside /\ DrainsOutermost /\ FramesOK
  /\ ReleasedOnce /\ SomeoneDrains /\ NotOwnBorrow
  /\ ExactlyOneOwner
  /\ BorrowedStaysAlive

-----------------------------------------------------------------------------

(* The frames of a stack. *)
FramesOf(s) == {s[i] : i \in 1..Len(s)}

(* What a call of a host function does to the stack of its goroutine.       *)
LEMMA Push ==
  ASSUME NEW s \in Seq(Frames), NEW f \in Frames
  PROVE  /\ <<f>> \o s \in Seq(Frames)
         /\ <<f>> \o s # << >>
         /\ FramesOf(<<f>> \o s) = FramesOf(s) \cup {f}
         /\ (f.at = "del" => s = << >>) /\ AtBottom(s) => AtBottom(<<f>> \o s)
<1> DEFINE t == <<f>> \o s
<1>1. t \in Seq(Frames) /\ t # << >> /\ Len(t) = Len(s) + 1 /\ Len(s) \in Nat
  OBVIOUS
<1>2. t[1] = f /\ \A i \in 1..Len(s) : t[i + 1] = s[i]
  OBVIOUS
<1>3. \A i \in 1..Len(t) : i = 1 \/ (i - 1 \in 1..Len(s) /\ t[i] = s[i - 1])
  <2> SUFFICES ASSUME NEW i \in 1..Len(t), i # 1 PROVE i - 1 \in 1..Len(s) /\ t[i] = s[i - 1]
    OBVIOUS
  <2>1. i - 1 \in 1..Len(s) /\ (i - 1) + 1 = i
    BY <1>1
  <2> QED
    BY <1>2, <2>1
<1>4. FramesOf(t) = FramesOf(s) \cup {f}
  <2>1. FramesOf(t) \subseteq FramesOf(s) \cup {f}
    BY <1>2, <1>3 DEF FramesOf
  <2>2. f \in FramesOf(t)
    BY <1>1, <1>2 DEF FramesOf
  <2>3. ASSUME NEW i \in 1..Len(s) PROVE s[i] \in FramesOf(t)
    <3>1. i + 1 \in 1..Len(t)
      BY <1>1
    <3> QED
      BY <1>2, <3>1 DEF FramesOf
  <2> QED
    BY <2>1, <2>2, <2>3 DEF FramesOf
<1>5. ASSUME f.at = "del" => s = << >>, AtBottom(s) PROVE AtBottom(t)
  <2> SUFFICES ASSUME NEW i \in 1..Len(t), t[i].at = "del" PROVE i = Len(t)
    BY DEF AtBottom
  <2>1. CASE i = 1
    <3>1. s = << >>
      BY <1>2, <1>5, <2>1
    <3> QED
      BY <1>1, <2>1, <3>1
  <2>2. CASE i # 1
    <3>1. i - 1 \in 1..Len(s) /\ s[i - 1].at = "del"
      BY <1>3, <2>2
    <3>2. i - 1 = Len(s)
      BY <1>5, <3>1 DEF AtBottom
    <3> QED
      BY <1>1, <3>2
  <2> QED
    BY <2>1, <2>2
<1> QED
  BY <1>1, <1>4, <1>5

(* The empty stack. *)
LEMMA Empty ==
  ASSUME NEW s \in Seq(Frames)
  PROVE  Len(s) \in Nat /\ (Len(s) = 0 <=> s = << >>)
  OBVIOUS

(* Above the bottom, nothing drains. *)
LEMMA Above ==
  ASSUME NEW s \in Seq(Frames), NEW f \in Frames, AtBottom(<<f>> \o s)
  PROVE  (f.at = "del" => s = << >>) /\ AtBottom(s)
<1> DEFINE t == <<f>> \o s
<1>1. Len(t) = Len(s) + 1 /\ Len(s) \in Nat /\ t[1] = f
  OBVIOUS
<1>2. \A i \in 1..Len(s) : i + 1 \in 1..Len(t) /\ t[i + 1] = s[i]
  OBVIOUS
<1>3. AtBottom(t)
  OBVIOUS
<1> HIDE DEF t
<1>4. ASSUME f.at = "del" PROVE s = << >>
  <2>1. 1 \in 1..Len(t)
    BY <1>1
  <2>2. 1 = Len(t)
    BY <1>1, <1>3, <1>4, <2>1 DEF AtBottom
  <2> QED
    BY <1>1, <2>2, Empty
<1>5. ASSUME NEW i \in 1..Len(s), s[i].at = "del" PROVE i = Len(s)
  <2>1. i + 1 = Len(t)
    BY <1>2, <1>3, <1>5 DEF AtBottom
  <2>2. i \in Nat
    BY <1>1
  <2> QED
    BY <1>1, <2>1, <2>2
<1> QED
  BY <1>4, <1>5 DEF AtBottom

(* And its return. *)
LEMMA Pop ==
  ASSUME NEW s \in Seq(Frames), s # << >>, AtBottom(s)
  PROVE  /\ Head(s) \in Frames
         /\ Tail(s) \in Seq(Frames)
         /\ FramesOf(s) = FramesOf(Tail(s)) \cup {Head(s)}
         /\ Head(s).at = "del" => Tail(s) = << >>
         /\ AtBottom(Tail(s))
<1>1. Head(s) \in Frames /\ Tail(s) \in Seq(Frames)
  OBVIOUS
<1>2. s = <<Head(s)>> \o Tail(s)
  OBVIOUS
<1>3. AtBottom(<<Head(s)>> \o Tail(s))
  BY <1>2
<1> QED
  BY <1>1, <1>2, <1>3, Push, Above

-----------------------------------------------------------------------------

(* A call of a host function suspends the method that g is in... *)
LEMMA Pushed ==
  ASSUME CallsOK, DrainsOutermost, NEW g \in Goroutines, CallHost(g)
  PROVE  /\ CallsOK' /\ DrainsOutermost'
         /\ stack'[g] # << >> /\ pc'[g] = "out"
         /\ Suspended(g)' = Suspended(g) \cup {Now(g)}
         /\ \A h \in Goroutines \ {g} : Suspended(h)' = Suspended(h)
<1>1. /\ pc' = [pc EXCEPT ![g] = "out"] /\ op' = op
      /\ stack' = [stack EXCEPT ![g] = <<Now(g)>> \o stack[g]]
  BY DEF CallHost, Goto, Now
<1>2. Now(g) \in Frames /\ stack[g] \in Seq(Frames) /\ Now(g).at = pc[g]
  BY ObjectsAssumption DEF CallsOK, CallHost, Now, Frames, Ops
<1>3. stack'[g] = <<Now(g)>> \o stack[g] /\ \A h \in Goroutines \ {g} : stack'[h] = stack[h]
  BY <1>1 DEF CallsOK
<1>4. /\ stack'[g] \in Seq(Frames) /\ stack'[g] # << >>
      /\ FramesOf(stack'[g]) = FramesOf(stack[g]) \cup {Now(g)}
      /\ AtBottom(stack'[g])
  BY <1>2, <1>3, Push DEF DrainsOutermost
<1>5. pc' \in [Goroutines -> PCs] /\ pc'[g] = "out" /\ \A h \in Goroutines \ {g} : pc'[h] = pc[h]
  BY <1>1 DEF CallsOK, PCs
<1>6. stack' \in [Goroutines -> Seq(Frames)]
  BY <1>1, <1>3, <1>4 DEF CallsOK
<1>7. CallsOK'
  BY <1>1, <1>5, <1>6 DEF CallsOK
<1>8. DrainsOutermost'
  BY <1>3, <1>4, <1>5 DEF DrainsOutermost
<1>9. /\ Suspended(g)' = Suspended(g) \cup {Now(g)}
      /\ \A h \in Goroutines \ {g} : Suspended(h)' = Suspended(h)
  BY <1>3, <1>4 DEF Suspended, FramesOf
<1> QED
  BY <1>4, <1>5, <1>7, <1>8, <1>9

(* ... and its return resumes that method. *)
LEMMA Popped ==
  ASSUME CallsOK, DrainsOutermost, NEW g \in Goroutines, HostReturn(g)
  PROVE  /\ CallsOK' /\ DrainsOutermost'
         /\ stack[g] # << >> /\ pc[g] = "out" /\ pc'[g] \in Inner
         /\ Suspended(g) = Suspended(g)' \cup {Now(g)'}
         /\ pc'[g] = "del" => stack'[g] = << >>
         /\ \A h \in Goroutines \ {g} :
              /\ Suspended(h)' = Suspended(h)
              /\ pc'[h] = pc[h] /\ op'[h] = op[h] /\ stack'[h] = stack[h]
<1> DEFINE f == Head(stack[g])
<1>1. /\ pc' = [pc EXCEPT ![g] = f.at]
      /\ op' = [op EXCEPT ![g] = [m |-> f.m, o |-> f.o]]
      /\ stack' = [stack EXCEPT ![g] = Tail(stack[g])]
      /\ pc[g] = "out" /\ stack[g] # << >>
  BY DEF HostReturn, Goto, Outermost
<1>2. stack[g] \in Seq(Frames) /\ AtBottom(stack[g])
  BY DEF CallsOK, DrainsOutermost
<1>3. /\ f \in Frames /\ Tail(stack[g]) \in Seq(Frames)
      /\ FramesOf(stack[g]) = FramesOf(Tail(stack[g])) \cup {f}
      /\ f.at = "del" => Tail(stack[g]) = << >>
      /\ AtBottom(Tail(stack[g]))
  BY <1>1, <1>2, Pop
<1> HIDE DEF f
<1>4. /\ pc'[g] = f.at /\ op'[g] = [m |-> f.m, o |-> f.o] /\ stack'[g] = Tail(stack[g])
      /\ \A h \in Goroutines \ {g} : pc'[h] = pc[h] /\ op'[h] = op[h] /\ stack'[h] = stack[h]
  BY <1>1 DEF CallsOK
<1>5. f.at \in Inner /\ [m |-> f.m, o |-> f.o] \in Ops /\ Now(g)' = f
  BY <1>3, <1>4 DEF Frames, Ops, Now
<1>6. CallsOK'
  <2>1. pc' \in [Goroutines -> PCs]
    BY <1>1, <1>5 DEF CallsOK, PCs
  <2>2. op' \in [Goroutines -> Ops]
    BY <1>1, <1>5 DEF CallsOK
  <2>3. stack' \in [Goroutines -> Seq(Frames)]
    BY <1>1, <1>3 DEF CallsOK
  <2> QED
    BY <2>1, <2>2, <2>3 DEF CallsOK
<1>7. DrainsOutermost'
  BY <1>3, <1>4, <1>5 DEF DrainsOutermost, Inner
<1>8. /\ Suspended(g) = Suspended(g)' \cup {Now(g)'}
      /\ \A h \in Goroutines \ {g} : Suspended(h)' = Suspended(h)
  <2>1. Suspended(g) = FramesOf(stack[g]) /\ Suspended(g)' = FramesOf(Tail(stack[g]))
    BY <1>4 DEF Suspended, FramesOf
  <2>2. \A h \in Goroutines \ {g} : Suspended(h)' = Suspended(h)
    BY <1>4 DEF Suspended
  <2> QED
    BY <1>3, <1>5, <2>1, <2>2
<1> QED
  BY <1>1, <1>3, <1>4, <1>5, <1>6, <1>7, <1>8

(* Where no stack changes, nothing is suspended or resumed. *)
LEMMA StackKept ==
  ASSUME stack' = stack
  PROVE  \A g : Suspended(g)' = Suspended(g)
  BY DEF Suspended

(* All but calls and returns of host functions: one goroutine, at its pc.   *)
LEMMA OneMoves ==
  ASSUME NEW g \in Goroutines, CallsOK,
         \/ Step(g)
         \/ \E m \in Methods, o \in Objects \cup {NoObject} : Call(g, m, o)
         \/ \E o \in Objects : Release(g, o)
  PROVE  /\ stack' = stack
         /\ CallsOK'
         /\ \A h \in Goroutines \ {g} : pc'[h] = pc[h] /\ op'[h] = op[h]
<1> USE DEF CallsOK, PCs, Inner, Goto
<1>1. ASSUME Step(g) PROVE stack' = stack /\ op' = op /\ \E l \in PCs : pc' = [pc EXCEPT ![g] = l]
  <2>1. CASE Refused(g)
    BY <2>1 DEF Refused
  <2>2. CASE EnterNested(g)
    BY <2>2 DEF EnterNested, AfterEnter
  <2>3. CASE EnterOutermost(g)
    BY <2>3 DEF EnterOutermost
  <2>4. CASE \E o \in Objects : DrainOne(g, o)
    BY <2>4 DEF DrainOne
  <2>5. CASE DelDone(g) \/ DrainPanic(g) \/ DrainDone(g)
    BY <2>5 DEF DelDone, DrainPanic, DrainDone, AfterEnter
  <2>6. CASE Ptr(g)
    BY <2>6 DEF Ptr
  <2>7. CASE DecRef(g)
    BY <2>7 DEF DecRef
  <2>8. CASE Return(g) \/ ReturnRelease(g) \/ ReturnClose(g) \/ Panic(g)
    BY <2>8 DEF Return, ReturnRelease, ReturnClose, Panic
  <2> QED
    BY <1>1, <2>1, <2>2, <2>3, <2>4, <2>5, <2>6, <2>7, <2>8 DEF Step
<1>2. CASE Step(g)
  BY <1>1, <1>2
<1>3. CASE \E m \in Methods, o \in Objects \cup {NoObject} : Call(g, m, o)
  BY <1>3 DEF Call, Ops
<1>4. CASE \E o \in Objects : Release(g, o)
  BY <1>4 DEF Release, Ops, Methods
<1> QED
  BY <1>2, <1>3, <1>4

-----------------------------------------------------------------------------

(* Suspended methods are in Inner, so Releases is Releasing of some one.    *)
LEMMA Frame ==
  ASSUME CallsOK, NEW g \in Goroutines, NEW f \in Suspended(g)
  PROVE  f \in Frames
<1>1. stack[g] \in Seq(Frames)
  BY DEF CallsOK
<1>2. PICK i \in 1..Len(stack[g]) : f = stack[g][i]
  BY DEF Suspended
<1> QED
  BY <1>1, <1>2

LEMMA FrameNext ==  \* the same, after a step
  ASSUME CallsOK', NEW g \in Goroutines, NEW f \in Suspended(g)'
  PROVE  f \in Frames
<1>1. stack'[g] \in Seq(Frames)
  BY DEF CallsOK
<1>2. PICK i \in 1..Len(stack'[g]) : f = stack'[g][i]
  BY DEF Suspended
<1> QED
  BY <1>1, <1>2

LEMMA ReleasingIs ==  \* Releasing, split by goroutine
  ASSUME CallsOK, NEW o \in Objects
  PROVE  Releasing(o) <=> \E g \in Goroutines : Releases(g, o)
<1>1. ASSUME NEW g \in Goroutines
      PROVE  Releases(g, o) <=> \E f \in InProgress(g) :
               f.m = "release" /\ f.o = o /\ f.at \in {"enter", "drain", "del", "decref"}
  <2>1. InProgress(g) = Suspended(g) \cup {Now(g)}
    BY DEF InProgress, Suspended, Now
  <2>2. Now(g).m = op[g].m /\ Now(g).o = op[g].o /\ Now(g).at = pc[g]
    BY DEF Now
  <2>3. \A f \in Suspended(g) : f.at \in Inner
    BY Frame DEF Frames
  <2> QED
    BY <2>1, <2>2, <2>3 DEF Releases, Doing, Waiting, Inner
<1> QED
  BY <1>1 DEF Releasing

LEMMA ReleasingIsNext ==  \* the same, after a step
  ASSUME CallsOK', NEW o \in Objects
  PROVE  Releasing(o)' <=> \E g \in Goroutines : Releases(g, o)'
<1>1. ASSUME NEW g \in Goroutines
      PROVE  Releases(g, o)' <=> \E f \in InProgress(g)' :
               f.m = "release" /\ f.o = o /\ f.at \in {"enter", "drain", "del", "decref"}
  <2>1. InProgress(g)' = Suspended(g)' \cup {Now(g)'}
    BY DEF InProgress, Suspended, Now
  <2>2. Now(g)'.m = op'[g].m /\ Now(g)'.o = op'[g].o /\ Now(g)'.at = pc'[g]
    BY DEF Now
  <2>3. \A f \in Suspended(g)' : f.at \in Inner
    BY FrameNext DEF Frames
  <2> QED
    BY <2>1, <2>2, <2>3 DEF Releases, Doing, Waiting, Inner
<1> QED
  BY <1>1 DEF Releasing

(* ExactlyOneOwner without its set of places. *)
InOnePlace(o) ==
  /\ held[o] # "unborn" <=>
       p[o] \/ Releasing(o) \/ o \in swapped \/ o \in pending
            \/ o \in todo \/ o \in dropped \/ decs[o] = 1
  /\ p[o] => ~Releasing(o) /\ o \notin swapped \cup pending \cup todo \cup dropped /\ decs[o] # 1
  /\ Releasing(o) => o \notin swapped \cup pending \cup todo \cup dropped /\ decs[o] # 1
  /\ o \in swapped => o \notin pending \cup todo \cup dropped /\ decs[o] # 1
  /\ o \in pending => o \notin todo \cup dropped /\ decs[o] # 1
  /\ o \in todo => o \notin dropped /\ decs[o] # 1
  /\ o \in dropped => decs[o] # 1

(* The two agree... *)
LEMMA OnePlace ==
  ExactlyOneOwner <=> (\A o \in Objects : InOnePlace(o)) /\ (dropped # {} => dead \/ leaked)
<1> SUFFICES ASSUME NEW o \in Objects
             PROVE  (IF held[o] = "unborn" THEN Places(o) = {} ELSE \E x \in Places(o) : Places(o) = {x})
                      <=> InOnePlace(o)
  BY DEF ExactlyOneOwner
<1>1. /\ "handle" \in Places(o) <=> p[o]
      /\ "release" \in Places(o) <=> Releasing(o)
      /\ "finalizer" \in Places(o) <=> o \in swapped
      /\ "queue" \in Places(o) <=> o \in pending
      /\ "drain" \in Places(o) <=> o \in todo
      /\ "dropped" \in Places(o) <=> o \in dropped
      /\ "back" \in Places(o) <=> decs[o] = 1
      /\ \A x \in Places(o) : x \in {"handle", "release", "finalizer", "queue", "drain", "dropped", "back"}
  BY DEF Places
<1> QED
  BY <1>1 DEF InOnePlace

LEMMA OnePlaceNext ==  \* ... and after a step
  ExactlyOneOwner' <=> (\A o \in Objects : InOnePlace(o)') /\ (dropped' # {} => dead' \/ leaked')
<1> SUFFICES ASSUME NEW o \in Objects
             PROVE  (IF held'[o] = "unborn" THEN Places(o)' = {} ELSE \E x \in Places(o)' : Places(o)' = {x})
                      <=> InOnePlace(o)'
  BY DEF ExactlyOneOwner
<1>1. /\ "handle" \in Places(o)' <=> p'[o]
      /\ "release" \in Places(o)' <=> Releasing(o)'
      /\ "finalizer" \in Places(o)' <=> o \in swapped'
      /\ "queue" \in Places(o)' <=> o \in pending'
      /\ "drain" \in Places(o)' <=> o \in todo'
      /\ "dropped" \in Places(o)' <=> o \in dropped'
      /\ "back" \in Places(o)' <=> decs'[o] = 1
      /\ \A x \in Places(o)' : x \in {"handle", "release", "finalizer", "queue", "drain", "dropped", "back"}
  BY DEF Places
<1> QED
  BY <1>1 DEF InOnePlace

-----------------------------------------------------------------------------

(* A step begins no Release and ends none... *)
ReleasesKept ==
  \A h \in Goroutines, u \in Objects :
    (Releases(h, u)' <=> Releases(h, u)) /\ ~(Doing(h, u) /\ Waiting(h, u))'

(* ... or it ends the one of g. *)
ReleasesEnds(g) ==
  \A h \in Goroutines, u \in Objects :
    /\ Releases(h, u)' <=> Releases(h, u) /\ ~(h = g /\ u = op[g].o)
    /\ ~(Doing(h, u) /\ Waiting(h, u))'

(* What is left of a step of g, if it does not touch the stacks. *)
LEMMA OfOne ==
  ASSUME CallsOK, ReleasedOnce, NEW g \in Goroutines, stack' = stack,
         \A h \in Goroutines \ {g} : pc'[h] = pc[h] /\ op'[h] = op[h]
  PROVE  /\ (\A u \in Objects : Doing(g, u)' <=> Doing(g, u)) => ReleasesKept
         /\ (\A u \in Objects : (Doing(g, u)' <=> Doing(g, u) /\ u # op[g].o))
              /\ (Doing(g, op[g].o) \/ op[g].o \notin Objects) => ReleasesEnds(g)
         /\ \A h \in Goroutines, u \in Objects : Waiting(h, u)' <=> Waiting(h, u)
         /\ \A h \in Goroutines \ {g}, u \in Objects : Doing(h, u)' <=> Doing(h, u)
<1>1. \A h \in Goroutines, u \in Objects : Waiting(h, u)' <=> Waiting(h, u)
  BY StackKept DEF Waiting
<1>2. \A h \in Goroutines \ {g}, u \in Objects : Doing(h, u)' <=> Doing(h, u)
  BY DEF Doing
<1>3. \A h \in Goroutines, u \in Objects : ~(Doing(h, u) /\ Waiting(h, u))
  BY DEF ReleasedOnce
<1>4. ASSUME \A u \in Objects : Doing(g, u)' <=> Doing(g, u) PROVE ReleasesKept
  BY <1>1, <1>2, <1>3, <1>4 DEF ReleasesKept, Releases
<1>5. ASSUME \A u \in Objects : (Doing(g, u)' <=> Doing(g, u) /\ u # op[g].o),
             Doing(g, op[g].o) \/ op[g].o \notin Objects
      PROVE  ReleasesEnds(g)
  BY <1>1, <1>2, <1>3, <1>5 DEF ReleasesEnds, Releases
<1> QED
  BY <1>1, <1>2, <1>4, <1>5

(* The steps that keep every Release where it is, or bring it further. *)
LEMMA Keeps ==
  ASSUME CallsOK, FramesOK, ReleasedOnce, NEW g \in Goroutines,
         \/ (Refused(g) \/ DrainPanic(g)) /\ op[g].m # "release"
         \/ EnterNested(g) \/ EnterOutermost(g)
         \/ (\E o \in Objects : DrainOne(g, o)) \/ DelDone(g) \/ DrainDone(g)
         \/ Ptr(g)
         \/ Return(g) \/ ReturnRelease(g) \/ ReturnClose(g) \/ Panic(g)
         \/ \E m \in Methods, o \in Objects \cup {NoObject} : Call(g, m, o)
  PROVE  ReleasesKept
<1> USE DEF CallsOK, Goto, Doing
<1>0. /\ stack' = stack
      /\ \A h \in Goroutines \ {g} : pc'[h] = pc[h] /\ op'[h] = op[h]
  BY OneMoves DEF Step
<1> SUFFICES \A u \in Objects : Doing(g, u)' <=> Doing(g, u)
  BY <1>0, OfOne
<1>1. CASE (Refused(g) \/ DrainPanic(g)) /\ op[g].m # "release"
  BY <1>1 DEF Refused, DrainPanic
<1>2. CASE EnterNested(g) \/ DrainDone(g)
  BY <1>2 DEF EnterNested, DrainDone, AfterEnter
<1>3. CASE EnterOutermost(g)
  BY <1>3 DEF EnterOutermost
<1>4. CASE (\E o \in Objects : DrainOne(g, o)) \/ DelDone(g)
  BY <1>4 DEF DrainOne, DelDone
<1>5. CASE Ptr(g)
  BY <1>5 DEF Ptr, FramesOK, FrameOK, Now
<1>6. CASE Return(g) \/ ReturnRelease(g) \/ ReturnClose(g) \/ Panic(g)
  BY <1>6 DEF Return, ReturnRelease, ReturnClose, Panic
<1>7. CASE \E m \in Methods, o \in Objects \cup {NoObject} : Call(g, m, o)
  BY <1>7 DEF Call, Callable
<1> QED
  BY <1>1, <1>2, <1>3, <1>4, <1>5, <1>6, <1>7

LEMMA Ends ==  \* ... and those that end one
  ASSUME CallsOK, FramesOK, ReleasedOnce, NEW g \in Goroutines,
         ((Refused(g) \/ DrainPanic(g)) /\ op[g].m = "release") \/ DecRef(g)
  PROVE  ReleasesEnds(g) /\ op[g].m = "release" /\ op[g].o \in Objects /\ Releases(g, op[g].o)
<1> USE DEF CallsOK, Goto, Doing
<1>0. /\ stack' = stack
      /\ \A h \in Goroutines \ {g} : pc'[h] = pc[h] /\ op'[h] = op[h]
  BY OneMoves DEF Step
<1>1. op[g].m = "release" /\ op[g].o \in Objects
  BY DEF DecRef, FramesOK, FrameOK, Now
<1>2. Doing(g, op[g].o)
  BY <1>1 DEF Refused, DrainPanic, DecRef
<1>3. \A u \in Objects : ~Doing(g, u)'
  BY DEF Refused, DrainPanic, DecRef
<1>4. \A u \in Objects : Doing(g, u)' <=> Doing(g, u) /\ u # op[g].o
  BY <1>3
<1> QED
  BY <1>0, <1>1, <1>2, <1>4, OfOne DEF Releases

(* A host function is called and returns inside a drain, or outside Release. *)
LEMMA HostKeeps ==
  ASSUME CallsOK, DrainsOutermost, ReleasedOnce, NEW g \in Goroutines,
         CallHost(g) \/ HostReturn(g)
  PROVE  ReleasesKept
<1>1. CASE CallHost(g)
  <2>1. /\ Suspended(g)' = Suspended(g) \cup {Now(g)} /\ pc'[g] = "out"
        /\ \A h \in Goroutines \ {g} : Suspended(h)' = Suspended(h)
    BY <1>1, Pushed
  <2>2. /\ pc[g] \in Inner /\ op' = op
        /\ \A h \in Goroutines \ {g} : pc'[h] = pc[h]
    BY <1>1, ObjectsAssumption DEF CallHost, CallsOK, Goto
  <2>3. \A h \in Goroutines \ {g}, u \in Objects :
          (Doing(h, u)' <=> Doing(h, u)) /\ (Waiting(h, u)' <=> Waiting(h, u))
    BY <2>1, <2>2 DEF Doing, Waiting
  <2>4. \A u \in Objects : ~Doing(g, u)' /\ (Waiting(g, u)' <=> Waiting(g, u) \/ Doing(g, u))
    <3>1. Now(g).m = op[g].m /\ Now(g).o = op[g].o /\ Now(g).at = pc[g]
      BY DEF Now
    <3> QED
      BY <2>1, <2>2, <3>1 DEF Doing, Waiting, Inner
  <2> QED
    BY <2>3, <2>4 DEF ReleasesKept, Releases, ReleasedOnce
<1>2. CASE HostReturn(g)
  <2>1. /\ Suspended(g) = Suspended(g)' \cup {Now(g)'} /\ pc[g] = "out" /\ pc'[g] \in Inner
        /\ pc'[g] = "del" => stack'[g] = << >>
        /\ \A h \in Goroutines \ {g} :
             Suspended(h)' = Suspended(h) /\ pc'[h] = pc[h] /\ op'[h] = op[h]
    BY <1>2, Popped
  <2>2. \A h \in Goroutines \ {g}, u \in Objects :
          (Doing(h, u)' <=> Doing(h, u)) /\ (Waiting(h, u)' <=> Waiting(h, u))
    BY <2>1 DEF Doing, Waiting
  <2>3. \A u \in Objects : ~Doing(g, u) /\ (Waiting(g, u) <=> Waiting(g, u)' \/ Doing(g, u)')
    <3>1. Now(g)'.m = op'[g].m /\ Now(g)'.o = op'[g].o /\ Now(g)'.at = pc'[g]
      BY DEF Now
    <3> QED
      BY <2>1, <3>1 DEF Doing, Waiting, Inner
  <2>4. pc'[g] = "del" => Suspended(g)' = {}
    BY <2>1 DEF Suspended
  <2>5. \A u \in Objects : ~(Doing(g, u) /\ Waiting(g, u))'
    BY <2>1, <2>4 DEF Doing, Waiting, Inner
  <2> QED
    BY <2>2, <2>3, <2>5 DEF ReleasesKept, Releases, ReleasedOnce
<1> QED
  BY <1>1, <1>2

(* Release begins where the handle had the reference, so no other is under way. *)
LEMMA Begins ==
  ASSUME IInv, NEW g \in Goroutines, NEW o \in Objects, Release(g, o)
  PROVE  /\ \A h \in Goroutines : ~Releases(h, o)
         /\ \A h \in Goroutines, u \in Objects :
              /\ Releases(h, u)' <=> Releases(h, u) \/ (h = g /\ u = o)
              /\ ~(Doing(h, u) /\ Waiting(h, u))'
<1> USE DEF IInv
<1>1. \A h \in Goroutines : ~Releases(h, o)
  <2>1. InOnePlace(o) /\ p[o]
    BY OnePlace DEF Release
  <2> QED
    BY <2>1, ReleasingIs DEF InOnePlace
<1>2. /\ stack' = stack
      /\ \A h \in Goroutines \ {g} : pc'[h] = pc[h] /\ op'[h] = op[h]
  BY OneMoves
<1>3. /\ \A h \in Goroutines, u \in Objects : Waiting(h, u)' <=> Waiting(h, u)
      /\ \A h \in Goroutines \ {g}, u \in Objects : Doing(h, u)' <=> Doing(h, u)
  BY <1>2, OfOne
<1>4. \A u \in Objects : ~Doing(g, u) /\ (Doing(g, u)' <=> u = o)
  BY DEF Release, Callable, CallsOK, Goto, Doing
<1>5. \A h \in Goroutines, u \in Objects : Releases(h, u)' <=> Releases(h, u) \/ (h = g /\ u = o)
  BY <1>3, <1>4 DEF Releases
<1>6. \A h \in Goroutines, u \in Objects : ~(Doing(h, u) /\ Waiting(h, u))'
  BY <1>1, <1>3, <1>4 DEF Releases, ReleasedOnce
<1> QED
  BY <1>1, <1>5, <1>6

-----------------------------------------------------------------------------

(* In the initial state no handle exists and nobody calls. *)
LEMMA InitIInv == Init => IInv
<1> SUFFICES ASSUME Init PROVE IInv
  OBVIOUS
<1>1. \A g \in Goroutines : stack[g] = << >> /\ Suspended(g) = {} /\ pc[g] = "out"
  BY DEF Init, Suspended
<1>2. HandlesOK /\ QueuesOK
  <2>1. p \in [Objects -> BOOLEAN] /\ armed \in [Objects -> BOOLEAN]
    BY Zenon DEF Init
  <2>5. dead \in BOOLEAN /\ leaked \in BOOLEAN /\ strayed \in BOOLEAN
    BY DEF Init
  <2>2. held \in [Objects -> {"unborn", "app", "garbage"}]
    BY DEF Init
  <2>3. decs \in [Objects -> 0..1]
    BY DEF Init
  <2>4. swapped = {} /\ pending = {} /\ todo = {} /\ dropped = {}
    BY DEF Init
  <2> QED
    BY <2>1, <2>2, <2>3, <2>4, <2>5 DEF HandlesOK, QueuesOK
<1>3. CallsOK
  BY DEF Init, CallsOK, PCs, Ops, Methods
<1>4. OneInside /\ DrainsOutermost
  BY <1>1 DEF OneInside, Inside, Outermost, DrainsOutermost, AtBottom
<1>5. FramesOK /\ NotOwnBorrow
  BY <1>1 DEF Init, FramesOK, FrameOK, Now, NotOwnBorrow
<1>6. \A g \in Goroutines, o \in Objects : ~Releases(g, o)
  BY <1>1 DEF Releases, Doing, Waiting
<1>7. ReleasedOnce
  BY <1>6 DEF ReleasedOnce, Releases
<1>8. SomeoneDrains
  BY DEF Init, SomeoneDrains
<1>9. ExactlyOneOwner
  <2>1. \A o \in Objects : ~Releasing(o)
    BY <1>3, <1>6, ReleasingIs
  <2>2. ASSUME NEW o \in Objects PROVE InOnePlace(o)
    BY <2>1 DEF Init, InOnePlace
  <2>3. dropped = {}
    BY DEF Init
  <2> QED
    BY <2>2, <2>3, OnePlace
<1>10. BorrowedStaysAlive
  BY DEF Init, BorrowedStaysAlive
<1> QED
  BY <1>2, <1>3, <1>4, <1>5, <1>7, <1>8, <1>9, <1>10 DEF IInv

(* The calls keep their types, and drains are outermost. *)
LEMMA CallsStep ==
  ASSUME IInv, Next
  PROVE  CallsOK' /\ DrainsOutermost'
<1> USE DEF IInv
<1>1. CASE \E g \in Goroutines : CallHost(g) \/ HostReturn(g)
  BY <1>1, Pushed, Popped
<1>2. ASSUME NEW g \in Goroutines,
             \/ Step(g)
             \/ \E m \in Methods, o \in Objects \cup {NoObject} : Call(g, m, o)
             \/ \E o \in Objects : Release(g, o)
      PROVE  CallsOK' /\ DrainsOutermost'
  <2>1. /\ stack' = stack /\ CallsOK'
        /\ \A h \in Goroutines \ {g} : pc'[h] = pc[h] /\ op'[h] = op[h]
    BY <1>2, OneMoves
  <2>2. pc'[g] \in {"drain", "del"} => pc[g] \in {"drain", "del"} \/ stack[g] = << >>
    <3> USE DEF Goto, CallsOK
    <3>1. CASE EnterOutermost(g)
      BY <3>1 DEF EnterOutermost, Outermost
    <3>2. CASE (\E o \in Objects : DrainOne(g, o)) \/ DelDone(g) \/ DrainPanic(g)
      BY <3>2 DEF DrainOne, DelDone, DrainPanic
    <3>3. CASE Refused(g) \/ EnterNested(g) \/ DrainDone(g) \/ Ptr(g) \/ DecRef(g)
      BY <3>3 DEF Refused, EnterNested, DrainDone, Ptr, DecRef, AfterEnter
    <3>4. CASE Return(g) \/ ReturnRelease(g) \/ ReturnClose(g) \/ Panic(g)
      BY <3>4 DEF Return, ReturnRelease, ReturnClose, Panic
    <3>5. CASE \E m \in Methods, o \in Objects \cup {NoObject} : Call(g, m, o)
      BY <3>5 DEF Call
    <3>6. CASE \E o \in Objects : Release(g, o)
      BY <3>6 DEF Release
    <3> QED
      BY <1>2, <3>1, <3>2, <3>3, <3>4, <3>5, <3>6 DEF Step
  <2>3. DrainsOutermost'
    BY <2>1, <2>2 DEF DrainsOutermost
  <2> QED
    BY <2>1, <2>3
<1>3. CASE \E o \in Objects : Forget(o) \/ FinalizeSwap(o) \/ FinalizeAppend(o)
  <2>1. UNCHANGED calls
    BY <1>3 DEF Forget, FinalizeSwap, FinalizeAppend
  <2> QED
    BY <2>1 DEF calls, CallsOK, DrainsOutermost
<1> QED
  BY <1>1, <1>2, <1>3 DEF Next

(* What is true of a reference that changes hands. *)
LEMMA Owner ==
  ASSUME IInv, NEW o \in Objects
  PROVE  /\ InOnePlace(o)
         /\ Releasing(o) <=> \E g \in Goroutines : Releases(g, o)
         /\ o \in todo \/ Releasing(o) => decs[o] = 0
         /\ p[o] => decs[o] = 0
<1>1. InOnePlace(o)
  BY OnePlace DEF IInv
<1>2. decs[o] = 0 \/ decs[o] = 1
  BY DEF IInv, QueuesOK
<1>3. o \in todo \/ Releasing(o) \/ p[o] => decs[o] # 1
  BY <1>1 DEF InOnePlace
<1> QED
  BY <1>1, <1>2, <1>3, ReleasingIs DEF IInv

(* The handles and queues keep their types: nothing is given back twice.    *)
LEMMA QueuesStep ==
  ASSUME IInv, Next
  PROVE  HandlesOK' /\ QueuesOK'
<1> USE DEF IInv, HandlesOK, QueuesOK
<1> DEFINE H == HandlesOK'
           Q == QueuesOK'
<1>1. ASSUME NEW S \in AtMostOne, Wrap(S) PROVE H
  <2>1. held' \in [Objects -> {"unborn", "app", "garbage"}]
    BY <1>1 DEF Wrap
  <2>2. p' \in [Objects -> BOOLEAN] /\ armed' \in [Objects -> BOOLEAN]
    BY <1>1, Zenon DEF Wrap
  <2> QED
    BY <2>1, <2>2
<1>2. ASSUME NEW g \in Goroutines, CallHost(g) \/ Return(g) PROVE H /\ Q
  <2>1. PICK S \in AtMostOne : Wrap(S)
    BY <1>2 DEF CallHost, Return
  <2>2. UNCHANGED <<queues, gate>>
    BY <1>2 DEF CallHost, Return
  <2> QED
    BY <1>1, <2>1, <2>2 DEF queues, gate
<1>3. ASSUME NEW g \in Goroutines,
             \/ HostReturn(g) \/ Ptr(g) \/ ReturnRelease(g) \/ DelDone(g)
             \/ \E m \in Methods, o \in Objects \cup {NoObject} : Call(g, m, o)
      PROVE  H /\ Q
  <2>1. UNCHANGED <<handles, queues, gate>>
    BY <1>3 DEF HostReturn, Ptr, ReturnRelease, DelDone, Call
  <2> QED
    BY <2>1 DEF handles, queues, gate
<1>4. ASSUME NEW g \in Goroutines, Refused(g) \/ DrainPanic(g) PROVE H /\ Q
  <2>1. GivesUp(g) \subseteq Objects
    BY DEF FramesOK, FrameOK, Now, GivesUp
  <2> QED
    BY <1>4, <2>1 DEF Refused, DrainPanic, handles
<1>5. ASSUME NEW g \in Goroutines, EnterNested(g) \/ DrainDone(g) \/ Panic(g) PROVE H /\ Q
  <2>1. UNCHANGED <<handles, queues>>
    BY <1>5 DEF EnterNested, DrainDone, Panic
  <2>2. dead' \in BOOLEAN /\ leaked' \in BOOLEAN /\ strayed' \in BOOLEAN
    BY <1>5 DEF EnterNested, DrainDone, Panic, Closes
  <2> QED
    BY <2>1, <2>2 DEF handles, queues
<1>6. ASSUME NEW g \in Goroutines, EnterOutermost(g) \/ ReturnClose(g) PROVE H /\ Q
  BY <1>6 DEF EnterOutermost, ReturnClose, handles, gate
<1>7. ASSUME NEW g \in Goroutines, NEW o \in Objects, DrainOne(g, o) PROVE H /\ Q
  <2>1. decs[o] = 0
    BY <1>7, Owner DEF DrainOne
  <2>2. decs' = [decs EXCEPT ![o] = 1]
    BY <1>7, <2>1 DEF DrainOne
  <2> QED
    BY <1>7, <2>2 DEF DrainOne, handles, gate
<1>8. ASSUME NEW g \in Goroutines, DecRef(g) PROVE H /\ Q
  <2>1. op[g].o \in Objects /\ Releases(g, op[g].o)
    BY <1>8, Ends
  <2>2. decs[op[g].o] = 0
    BY <2>1, Owner
  <2>3. decs' = [decs EXCEPT ![op[g].o] = 1]
    BY <1>8, <2>1, <2>2 DEF DecRef
  <2> QED
    BY <1>8, <2>1, <2>3 DEF DecRef, handles, gate
<1>9. ASSUME NEW g \in Goroutines, NEW o \in Objects, Release(g, o) PROVE H /\ Q
  <2>1. p' = [p EXCEPT ![o] = FALSE] /\ armed' = [armed EXCEPT ![o] = FALSE] /\ UNCHANGED <<held, queues, gate>>
    BY <1>9 DEF Release
  <2> QED
    BY <2>1 DEF queues, gate
<1>10. ASSUME NEW o \in Objects, Forget(o) PROVE H /\ Q
  BY <1>10 DEF Forget, queues, gate
<1>11. ASSUME NEW o \in Objects, FinalizeSwap(o) PROVE H /\ Q
  BY <1>11 DEF FinalizeSwap, gate
<1>12. ASSUME NEW o \in Objects, FinalizeAppend(o) PROVE H /\ Q
  BY <1>12 DEF FinalizeAppend, handles, gate
<1> HIDE DEF H, Q
<1>13. H /\ Q
  BY <1>2, <1>3, <1>4, <1>5, <1>6, <1>7, <1>8, <1>9, <1>10, <1>11, <1>12 DEF Next, Step
<1> QED
  BY <1>13 DEF H, Q

(* The interpreter does not come back, nor does depth, nor the order of     *)
(* calls; only a panic in drain gives up references of an interpreter that  *)
(* goes on.                                                                 *)
LEMMA DeadStep ==
  ASSUME IInv, Next
  PROVE  (dead => dead') /\ (leaked => leaked') /\ (strayed => strayed')
<1> USE DEF IInv, QueuesOK
<1> DEFINE Goal == (dead => dead') /\ (leaked => leaked') /\ (strayed => strayed')
<1>1. ASSUME NEW g \in Goroutines, Step(g) PROVE Goal
  <2>1. CASE Refused(g) \/ EnterNested(g) \/ EnterOutermost(g)
    BY <2>1 DEF Refused, EnterNested, EnterOutermost, Closes, gate
  <2>2. CASE (\E o \in Objects : DrainOne(g, o)) \/ DelDone(g) \/ DrainPanic(g) \/ DrainDone(g)
    BY <2>2 DEF DrainOne, DelDone, DrainPanic, DrainDone, Closes, gate
  <2>3. CASE Ptr(g) \/ DecRef(g) \/ Return(g) \/ ReturnRelease(g) \/ ReturnClose(g) \/ Panic(g)
    BY <2>3 DEF Ptr, DecRef, Return, ReturnRelease, ReturnClose, Panic, gate
  <2> QED
    BY <1>1, <2>1, <2>2, <2>3 DEF Step
<1>2. ASSUME NEW g \in Goroutines,
             \/ CallHost(g) \/ HostReturn(g)
             \/ \E m \in Methods, o \in Objects \cup {NoObject} : Call(g, m, o)
             \/ \E o \in Objects : Release(g, o)
      PROVE  Goal
  BY <1>2 DEF CallHost, HostReturn, Call, Release, gate
<1>3. ASSUME NEW o \in Objects, Forget(o) \/ FinalizeSwap(o) \/ FinalizeAppend(o)
      PROVE  Goal
  BY <1>3 DEF Forget, FinalizeSwap, FinalizeAppend, gate
<1> QED
  BY <1>1, <1>2, <1>3 DEF Next

(* Until a call strays, enter() lets an outermost goroutine in only once    *)
(* the others are out.                                                      *)
LEMMA InsideStep ==
  ASSUME IInv, Next
  PROVE  OneInside'
<1> USE DEF IInv, Inside, Outermost
<1>0. strayed => strayed'
  BY DeadStep
<1>1. ASSUME NEW g \in Goroutines, EnterOutermost(g) PROVE OneInside'
  <2>1. /\ stack' = stack
        /\ \A h \in Goroutines \ {g} : pc'[h] = pc[h]
        /\ \A h \in Goroutines : ~Inside(h)
    BY <1>1, OneMoves DEF Step, EnterOutermost
  <2> QED
    BY <2>1 DEF OneInside
<1>2. ASSUME \A h \in Goroutines : Inside(h)' => Inside(h) PROVE OneInside'
  BY <1>0, <1>2 DEF OneInside
<1>6. ASSUME NEW g \in Goroutines, EnterNested(g) PROVE OneInside'
  <2>1. /\ stack' = stack
        /\ \A h \in Goroutines \ {g} : pc'[h] = pc[h]
        /\ strayed' = (strayed \/ \E h \in Goroutines \ {g} : Inside(h))
    BY <1>6, OneMoves DEF Step, EnterNested
  <2>2. ~strayed' => \A h \in Goroutines \ {g} : ~Inside(h)'
    BY <2>1
  <2> QED
    BY <2>2 DEF OneInside
<1>3. ASSUME NEW g \in Goroutines, CallHost(g) \/ HostReturn(g)
      PROVE  \A h \in Goroutines : Inside(h)' => Inside(h)
  <2>1. Inside(g)
    BY <1>3, ObjectsAssumption DEF CallHost, HostReturn, Inner
  <2>2. \A h \in Goroutines \ {g} : pc'[h] = pc[h] /\ stack'[h] = stack[h]
    BY <1>3 DEF CallHost, HostReturn, Goto, CallsOK
  <2> QED
    BY <2>1, <2>2
<1>4. ASSUME NEW g \in Goroutines,
             \/ Step(g) /\ ~EnterOutermost(g) /\ ~EnterNested(g)
             \/ \E m \in Methods, o \in Objects \cup {NoObject} : Call(g, m, o)
             \/ \E o \in Objects : Release(g, o)
      PROVE  \A h \in Goroutines : Inside(h)' => Inside(h)
  <2>1. stack' = stack /\ \A h \in Goroutines \ {g} : pc'[h] = pc[h]
    BY <1>4, OneMoves
  <2>2. pc'[g] \notin {"out", "enter"} => pc[g] \notin {"out", "enter"} \/ stack[g] # << >>
    <3> USE DEF Goto, CallsOK
    <3>1. CASE (\E o \in Objects : DrainOne(g, o)) \/ DelDone(g) \/ DrainPanic(g)
      BY <3>1 DEF DrainOne, DelDone, DrainPanic
    <3>2. CASE Refused(g) \/ DrainDone(g) \/ Ptr(g) \/ DecRef(g)
      BY <3>2 DEF Refused, DrainDone, Ptr, DecRef
    <3>3. CASE Return(g) \/ ReturnRelease(g) \/ ReturnClose(g) \/ Panic(g)
      BY <3>3 DEF Return, ReturnRelease, ReturnClose, Panic
    <3>4. CASE \E m \in Methods, o \in Objects \cup {NoObject} : Call(g, m, o)
      BY <3>4 DEF Call
    <3>5. CASE \E o \in Objects : Release(g, o)
      BY <3>5 DEF Release
    <3> QED
      BY <1>4, <3>1, <3>2, <3>3, <3>4, <3>5 DEF Step
  <2> QED
    BY <2>1, <2>2
<1>5. ASSUME NEW o \in Objects, Forget(o) \/ FinalizeSwap(o) \/ FinalizeAppend(o)
      PROVE  \A h \in Goroutines : Inside(h)' => Inside(h)
  BY <1>5 DEF Forget, FinalizeSwap, FinalizeAppend, calls
<1> QED
  BY <1>1, <1>2, <1>3, <1>4, <1>5, <1>6 DEF Next

(* Every method gets only where it may. *)
LEMMA FramesStep ==
  ASSUME IInv, Next
  PROVE  FramesOK'
<1> USE DEF IInv
<1>0. (dead => dead') /\ \A f : FrameOK(f, dead) => FrameOK(f, dead')
  BY DeadStep DEF FrameOK
<1>1. ASSUME NEW g \in Goroutines, CallHost(g) PROVE FramesOK'
  <2>1. /\ pc'[g] = "out" /\ Suspended(g)' = Suspended(g) \cup {Now(g)}
        /\ \A h \in Goroutines \ {g} : Suspended(h)' = Suspended(h)
    BY <1>1, Pushed
  <2>2. op' = op /\ \A h \in Goroutines \ {g} : pc'[h] = pc[h]
    BY <1>1 DEF CallHost, Goto, CallsOK
  <2>3. FrameOK(Now(g)', dead') /\ \A h \in Goroutines \ {g} : Now(h)' = Now(h)
    BY <2>1, <2>2 DEF FramesOK, FrameOK, Now
  <2>4. ASSUME NEW h \in Goroutines PROVE FrameOK(Now(h)', dead') /\ \A f \in Suspended(h)' : FrameOK(f, dead')
    BY <1>0, <2>1, <2>3 DEF FramesOK
  <2> QED
    BY <2>4 DEF FramesOK
<1>2. ASSUME NEW g \in Goroutines, HostReturn(g) PROVE FramesOK'
  <2>1. /\ Suspended(g) = Suspended(g)' \cup {Now(g)'}
        /\ \A h \in Goroutines \ {g} : Suspended(h)' = Suspended(h) /\ pc'[h] = pc[h] /\ op'[h] = op[h]
    BY <1>2, Popped
  <2>2. \A h \in Goroutines \ {g} : Now(h)' = Now(h)
    BY <2>1 DEF Now
  <2>3. ASSUME NEW h \in Goroutines PROVE FrameOK(Now(h)', dead') /\ \A f \in Suspended(h)' : FrameOK(f, dead')
    BY <1>0, <2>1, <2>2 DEF FramesOK
  <2> QED
    BY <2>3 DEF FramesOK
<1>3. ASSUME NEW g \in Goroutines,
             \/ Step(g)
             \/ \E m \in Methods, o \in Objects \cup {NoObject} : Call(g, m, o)
             \/ \E o \in Objects : Release(g, o)
      PROVE  FramesOK'
  <2>1. /\ \A h \in Goroutines : Suspended(h)' = Suspended(h)
        /\ \A h \in Goroutines \ {g} : Now(h)' = Now(h)
    BY <1>3, OneMoves, StackKept DEF Now
  <2>2. FrameOK(Now(g)', dead')
    <3>1. FrameOK(Now(g), dead) /\ pc[g] \in PCs /\ op[g] \in Ops
      BY DEF FramesOK, CallsOK
    <3> SUFFICES /\ pc'[g] = "ptr" => op'[g].m = "use"
                 /\ pc'[g] \in {"decref", "after"} => op'[g].m = "release"
                 /\ pc'[g] = "c" => op'[g].m # "release" /\ (op'[g].m = "close" => dead')
                 /\ op'[g].m \in {"use", "release"} => op'[g].o \in Objects
      BY DEF FrameOK, Now
    <3>0. /\ pc[g] = "ptr" => op[g].m = "use"
          /\ pc[g] \in {"decref", "after"} => op[g].m = "release"
          /\ pc[g] = "c" => op[g].m # "release" /\ (op[g].m = "close" => dead)
          /\ op[g].m \in {"use", "release"} => op[g].o \in Objects
      BY <3>1 DEF FrameOK, Now
    <3> USE DEF Goto, CallsOK
    <3>2. CASE (\E o \in Objects : DrainOne(g, o)) \/ DelDone(g) \/ DrainPanic(g)
      BY <3>0, <3>2 DEF DrainOne, DelDone, DrainPanic
    <3>3. CASE EnterNested(g) \/ DrainDone(g)
      BY <3>0, <3>3 DEF EnterNested, DrainDone, AfterEnter, Closes
    <3>4. CASE Refused(g) \/ EnterOutermost(g) \/ Ptr(g) \/ DecRef(g)
      BY <3>0, <3>4 DEF Refused, EnterOutermost, Ptr, DecRef
    <3>5. CASE Return(g) \/ ReturnRelease(g) \/ ReturnClose(g) \/ Panic(g)
      BY <3>0, <3>5 DEF Return, ReturnRelease, ReturnClose, Panic
    <3>6. CASE \E m \in Methods, o \in Objects \cup {NoObject} : Call(g, m, o)
      BY <3>6 DEF Call
    <3>7. CASE \E o \in Objects : Release(g, o)
      BY <3>7 DEF Release
    <3> QED
      BY <1>3, <3>2, <3>3, <3>4, <3>5, <3>6, <3>7 DEF Step
  <2>3. ASSUME NEW h \in Goroutines PROVE FrameOK(Now(h)', dead') /\ \A f \in Suspended(h)' : FrameOK(f, dead')
    BY <1>0, <2>1, <2>2 DEF FramesOK
  <2> QED
    BY <2>3 DEF FramesOK
<1>4. ASSUME NEW o \in Objects, Forget(o) \/ FinalizeSwap(o) \/ FinalizeAppend(o) PROVE FramesOK'
  <2>1. pc' = pc /\ op' = op /\ stack' = stack
    BY <1>4 DEF Forget, FinalizeSwap, FinalizeAppend, calls
  <2>2. ASSUME NEW h \in Goroutines PROVE FrameOK(Now(h)', dead') /\ \A f \in Suspended(h)' : FrameOK(f, dead')
    <3>1. Suspended(h)' = Suspended(h) /\ Now(h)' = Now(h)
      BY <2>1 DEF Suspended, Now
    <3> QED
      BY <1>0, <3>1 DEF FramesOK
  <2> QED
    BY <2>2 DEF FramesOK
<1> QED
  BY <1>1, <1>2, <1>3, <1>4 DEF Next

(* The finalizer goroutine and the collector are in no call. *)
LEMMA CallsKept ==
  ASSUME IInv, UNCHANGED calls
  PROVE  ReleasesKept
<1>1. \A g \in Goroutines : Suspended(g)' = Suspended(g) /\ pc'[g] = pc[g] /\ op'[g] = op[g]
  BY DEF calls, Suspended
<1>2. \A g \in Goroutines, u \in Objects :
        (Doing(g, u)' <=> Doing(g, u)) /\ (Waiting(g, u)' <=> Waiting(g, u))
  BY <1>1 DEF Doing, Waiting
<1> QED
  BY <1>2 DEF IInv, ReleasedOnce, ReleasesKept, Releases

(* At most one Release at a time is under way for any handle. *)
LEMMA ReleasedStep ==
  ASSUME IInv, Next
  PROVE  ReleasedOnce'
<1> USE DEF IInv
<1>1. ReleasesKept => ReleasedOnce'
  BY DEF ReleasesKept, ReleasedOnce
<1>2. ASSUME NEW g \in Goroutines, ReleasesEnds(g) PROVE ReleasedOnce'
  BY <1>2 DEF ReleasesEnds, ReleasedOnce
<1>3. ASSUME NEW g \in Goroutines, NEW o \in Objects, Release(g, o) PROVE ReleasedOnce'
  BY <1>3, Begins DEF ReleasedOnce
<1>4. ASSUME NEW g \in Goroutines, Step(g) PROVE ReleasesKept \/ ReleasesEnds(g)
  BY <1>4, Keeps, Ends DEF Step
<1>5. ASSUME NEW g \in Goroutines,
             \/ CallHost(g) \/ HostReturn(g)
             \/ \E m \in Methods, o \in Objects \cup {NoObject} : Call(g, m, o)
      PROVE  ReleasesKept
  BY <1>5, Keeps, HostKeeps
<1>6. ASSUME NEW o \in Objects, Forget(o) \/ FinalizeSwap(o) \/ FinalizeAppend(o)
      PROVE  ReleasesKept
  BY <1>6, CallsKept DEF Forget, FinalizeSwap, FinalizeAppend
<1> QED
  BY <1>1, <1>2, <1>3, <1>4, <1>5, <1>6 DEF Next

(* A drain ends when it has given back all it took. *)
LEMMA DrainsStep ==
  ASSUME IInv, Next
  PROVE  SomeoneDrains'
<1> USE DEF IInv
<1>1. ASSUME todo' \subseteq todo, \A h \in Goroutines : Drains(h) => Drains(h)' PROVE SomeoneDrains'
  BY <1>1 DEF SomeoneDrains
<1>2. ASSUME NEW g \in Goroutines, CallHost(g) PROVE SomeoneDrains'
  <2>1. /\ Suspended(g)' = Suspended(g) \cup {Now(g)}
        /\ \A h \in Goroutines \ {g} : Suspended(h)' = Suspended(h)
    BY <1>2, Pushed
  <2>2. \A h \in Goroutines \ {g} : pc'[h] = pc[h]
    BY <1>2 DEF CallHost, Goto, CallsOK
  <2>3. Now(g).at = pc[g] /\ pc[g] # "drain"
    BY <1>2, ObjectsAssumption DEF Now, CallHost, Inner
  <2>4. \A h \in Goroutines : Drains(h) => Drains(h)'
    BY <2>1, <2>2, <2>3 DEF Drains
  <2>5. todo' = todo
    BY <1>2 DEF CallHost, queues
  <2> QED
    BY <1>1, <2>4, <2>5
<1>3. ASSUME NEW g \in Goroutines, HostReturn(g) PROVE SomeoneDrains'
  <2>1. /\ Suspended(g) = Suspended(g)' \cup {Now(g)'} /\ pc[g] = "out"
        /\ \A h \in Goroutines \ {g} : Suspended(h)' = Suspended(h) /\ pc'[h] = pc[h]
    BY <1>3, Popped
  <2>2. Now(g)'.at = pc'[g]
    BY DEF Now
  <2>3. \A h \in Goroutines : Drains(h) => Drains(h)'
    BY <2>1, <2>2 DEF Drains
  <2>4. todo' = todo
    BY <1>3 DEF HostReturn, queues
  <2> QED
    BY <1>1, <2>3, <2>4
<1>4. ASSUME NEW g \in Goroutines, EnterOutermost(g) PROVE SomeoneDrains'
  <2>1. pc'[g] = "drain"
    BY <1>4 DEF EnterOutermost, Goto, CallsOK
  <2> QED
    BY <2>1 DEF SomeoneDrains, Drains
<1>5. ASSUME NEW g \in Goroutines, DrainDone(g) \/ DrainPanic(g) PROVE SomeoneDrains'
  BY <1>5 DEF DrainDone, DrainPanic, queues, SomeoneDrains
<1>6. ASSUME NEW g \in Goroutines,
             \/ Step(g) /\ ~EnterOutermost(g) /\ ~DrainDone(g) /\ ~DrainPanic(g)
             \/ \E m \in Methods, o \in Objects \cup {NoObject} : Call(g, m, o)
             \/ \E o \in Objects : Release(g, o)
      PROVE  SomeoneDrains'
  <2>1. /\ \A h \in Goroutines : Suspended(h)' = Suspended(h)
        /\ \A h \in Goroutines \ {g} : pc'[h] = pc[h]
    BY <1>6, OneMoves, StackKept
  <2>2. todo' \subseteq todo /\ (pc[g] \in {"drain", "del"} => pc'[g] \in {"drain", "del"})
    <3> USE DEF Goto, CallsOK, queues
    <3>1. CASE (\E o \in Objects : DrainOne(g, o)) \/ DelDone(g)
      BY <3>1 DEF DrainOne, DelDone
    <3>2. CASE Refused(g) \/ EnterNested(g) \/ Ptr(g) \/ DecRef(g)
      BY <3>2 DEF Refused, EnterNested, Ptr, DecRef
    <3>3. CASE Return(g) \/ ReturnRelease(g) \/ ReturnClose(g) \/ Panic(g)
      BY <3>3 DEF Return, ReturnRelease, ReturnClose, Panic
    <3>4. CASE \E m \in Methods, o \in Objects \cup {NoObject} : Call(g, m, o)
      BY <3>4 DEF Call, Callable
    <3>5. CASE \E o \in Objects : Release(g, o)
      BY <3>5 DEF Release, Callable
    <3> QED
      BY <1>6, <3>1, <3>2, <3>3, <3>4, <3>5 DEF Step
  <2>3. \A h \in Goroutines : Drains(h) => Drains(h)'
    BY <2>1, <2>2 DEF Drains
  <2> QED
    BY <1>1, <2>2, <2>3
<1>7. ASSUME NEW o \in Objects, Forget(o) \/ FinalizeSwap(o) \/ FinalizeAppend(o) PROVE SomeoneDrains'
  <2>1. todo' = todo /\ UNCHANGED calls
    BY <1>7 DEF Forget, FinalizeSwap, FinalizeAppend, queues
  <2>2. \A h \in Goroutines : Drains(h) => Drains(h)'
    BY <2>1 DEF Drains, calls, Suspended
  <2> QED
    BY <1>1, <2>1, <2>2
<1> QED
  BY <1>2, <1>3, <1>4, <1>5, <1>6, <1>7 DEF Next

(* The application's Release is of no object its own suspended methods use. *)
LEMMA BorrowStep ==
  ASSUME IInv, Next
  PROVE  NotOwnBorrow'
<1> USE DEF IInv
<1> DEFINE Good(g) == \A f \in Suspended(g) :
                        op[g].m = "release" /\ pc[g] \in {"enter", "decref"} => ~Borrows(f, op[g].o)
<1>0. (\A g \in Goroutines : Good(g)) /\ ((\A g \in Goroutines : Good(g)') => NotOwnBorrow')
  BY DEF NotOwnBorrow
<1>1. ASSUME NEW g \in Goroutines, CallHost(g) \/ HostReturn(g) PROVE \A h \in Goroutines : Good(h)'
  <2>1. pc'[g] \notin {"enter", "decref"}
    BY <1>1, Pushed, Popped DEF Inner
  <2>2. \A h \in Goroutines \ {g} : Suspended(h)' = Suspended(h) /\ pc'[h] = pc[h] /\ op'[h] = op[h]
    BY <1>1, Pushed, Popped DEF CallHost, Goto, CallsOK
  <2> QED
    BY <1>0, <2>1, <2>2 DEF Borrows
<1>2. ASSUME NEW g \in Goroutines,
             \/ Step(g)
             \/ \E m \in Methods, o \in Objects \cup {NoObject} : Call(g, m, o)
             \/ \E o \in Objects : Release(g, o)
      PROVE  \A h \in Goroutines : Good(h)'
  <2>1. /\ \A h \in Goroutines : Suspended(h)' = Suspended(h)
        /\ \A h \in Goroutines \ {g} : pc'[h] = pc[h] /\ op'[h] = op[h]
    BY <1>2, OneMoves, StackKept
  <2>2. Good(g)'
    <3> USE DEF Goto, CallsOK
    <3>1. CASE (\E o \in Objects : DrainOne(g, o)) \/ DelDone(g) \/ DrainPanic(g)
      BY <3>1 DEF DrainOne, DelDone, DrainPanic
    <3>2. CASE DrainDone(g)
      <4>1. Suspended(g) = {}
        BY <3>2 DEF DrainDone, DrainsOutermost, Suspended
      <4> QED
        BY <2>1, <4>1
    <3>3. CASE EnterNested(g)
      BY <1>0, <2>1, <3>3 DEF EnterNested, Borrows
    <3>4. CASE Refused(g) \/ EnterOutermost(g) \/ Ptr(g) \/ DecRef(g)
      BY <3>4 DEF Refused, EnterOutermost, Ptr, DecRef
    <3>5. CASE Return(g) \/ ReturnRelease(g) \/ ReturnClose(g) \/ Panic(g)
      BY <3>5 DEF Return, ReturnRelease, ReturnClose, Panic
    <3>6. CASE \E m \in Methods, o \in Objects \cup {NoObject} : Call(g, m, o)
      BY <3>6 DEF Call
    <3>7. CASE \E o \in Objects : Release(g, o)
      BY <2>1, <3>7 DEF Release, Borrows
    <3> QED
      BY <1>2, <3>1, <3>2, <3>3, <3>4, <3>5, <3>6, <3>7 DEF Step
  <2> QED
    BY <1>0, <2>1, <2>2 DEF Borrows
<1>3. ASSUME NEW o \in Objects, Forget(o) \/ FinalizeSwap(o) \/ FinalizeAppend(o)
      PROVE  \A h \in Goroutines : Good(h)'
  BY <1>0, <1>3 DEF Forget, FinalizeSwap, FinalizeAppend, calls, Suspended, Borrows
<1> HIDE DEF Good
<1> QED
  BY <1>0, <1>1, <1>2, <1>3 DEF Next

(* Every step that takes a reference out of one place puts it in another.   *)
LEMMA OwnerStep ==
  ASSUME IInv, Next
  PROVE  ExactlyOneOwner'
<1> USE DEF IInv, QueuesOK
<1>1. /\ \A u \in Objects : InOnePlace(u)
      /\ dropped # {} => dead \/ leaked
      /\ dead => dead'
      /\ leaked => leaked'
  BY OnePlace, DeadStep
<1>2. /\ \A u \in Objects : Releasing(u) <=> \E h \in Goroutines : Releases(h, u)
      /\ \A u \in Objects : Releasing(u)' <=> \E h \in Goroutines : Releases(h, u)'
  BY CallsStep, ReleasingIs, ReleasingIsNext
<1>3. ReleasesKept => \A u \in Objects : Releasing(u)' <=> Releasing(u)
  BY <1>2 DEF ReleasesKept
<1> SUFFICES (\A u \in Objects : InOnePlace(u)') /\ (dropped' # {} => dead' \/ leaked')
  BY OnePlaceNext
<1> DEFINE Goal == (\A u \in Objects : InOnePlace(u)') /\ (dropped' # {} => dead' \/ leaked')
<1>4. ASSUME ReleasesKept, UNCHANGED <<held, p, queues>> PROVE Goal
  BY <1>1, <1>3, <1>4 DEF InOnePlace, queues
<1>5. ASSUME ReleasesKept, UNCHANGED queues, NEW S \in AtMostOne, Wrap(S) PROVE Goal
  <2>1. /\ S \subseteq Objects /\ \A o \in S : held[o] = "unborn"
        /\ \A o \in Objects : held'[o] = IF o \in S THEN "app" ELSE held[o]
        /\ \A o \in Objects : p'[o] <=> p[o] \/ o \in S
    BY <1>5 DEF Wrap, AtMostOne
  <2> QED
    BY <1>1, <1>3, <1>5, <2>1 DEF InOnePlace, queues
<1>6. ASSUME NEW g \in Goroutines, CallHost(g) PROVE Goal
  BY <1>5, <1>6, HostKeeps DEF CallHost
<1>7. ASSUME NEW g \in Goroutines, HostReturn(g) PROVE Goal
  BY <1>4, <1>7, HostKeeps DEF HostReturn, handles
<1>8. ASSUME NEW g \in Goroutines, Return(g) PROVE Goal
  BY <1>5, <1>8, Keeps DEF Return
<1>9. ASSUME NEW g \in Goroutines,
             \/ EnterNested(g) \/ DelDone(g) \/ DrainDone(g)
             \/ Ptr(g) \/ ReturnRelease(g) \/ Panic(g)
             \/ \E m \in Methods, o \in Objects \cup {NoObject} : Call(g, m, o)
      PROVE  Goal
  <2>1. UNCHANGED <<held, p, queues>>
    BY <1>9 DEF EnterNested, DelDone, DrainDone, Ptr, ReturnRelease, Panic, Call, handles
  <2> QED
    BY <1>4, <1>9, <2>1, Keeps
<1>10. ASSUME NEW g \in Goroutines, Refused(g), op[g].m # "release" PROVE Goal
  <2>1. UNCHANGED <<held, p, queues>>
    BY <1>10 DEF Refused, GivesUp, handles, queues
  <2> QED
    BY <1>4, <1>10, <2>1, Keeps
<1>11. ASSUME NEW g \in Goroutines, ReleasesEnds(g), Releases(g, op[g].o), op[g].o \in Objects
       PROVE  /\ Releasing(op[g].o)
              /\ \A u \in Objects : Releasing(u)' <=> Releasing(u) /\ u # op[g].o
  BY <1>2, <1>11 DEF ReleasesEnds, ReleasedOnce
<1>12. ASSUME NEW g \in Goroutines, Refused(g), op[g].m = "release" PROVE Goal
  <2>1. /\ op[g].o \in Objects /\ Releasing(op[g].o)
        /\ \A u \in Objects : Releasing(u)' <=> Releasing(u) /\ u # op[g].o
    BY <1>11, <1>12, Ends
  <2>2. /\ dropped' = dropped \cup {op[g].o} /\ dead
        /\ UNCHANGED <<held, p, swapped, pending, todo, decs>>
    BY <1>12 DEF Refused, GivesUp, handles
  <2> QED
    BY <1>1, <2>1, <2>2 DEF InOnePlace
<1>13. ASSUME NEW g \in Goroutines, DecRef(g) PROVE Goal
  <2>1. /\ op[g].o \in Objects /\ Releasing(op[g].o)
        /\ \A u \in Objects : Releasing(u)' <=> Releasing(u) /\ u # op[g].o
    BY <1>11, <1>13, Ends
  <2>2. decs[op[g].o] = 0
    BY <2>1, Owner
  <2>3. /\ \A u \in Objects : decs'[u] = IF u = op[g].o THEN 1 ELSE decs[u]
        /\ UNCHANGED <<held, p, swapped, pending, todo, dropped>>
    BY <1>13, <2>2 DEF DecRef, handles
  <2> QED
    BY <1>1, <2>1, <2>3 DEF InOnePlace
<1>14. ASSUME NEW g \in Goroutines, EnterOutermost(g) PROVE Goal
  <2>1. \A h \in Goroutines : ~Drains(h)
    <3>1. \A h \in Goroutines : pc[h] \in {"out", "enter"} /\ stack[h] = << >>
      BY <1>14 DEF EnterOutermost, Inside, Outermost
    <3> QED
      BY <3>1 DEF Drains, Suspended
  <2>2. todo = {}
    BY <2>1 DEF SomeoneDrains
  <2>3. /\ todo' = pending /\ pending' = {}
        /\ UNCHANGED <<held, p, swapped, dropped, decs>>
    BY <1>14 DEF EnterOutermost, handles
  <2>4. ReleasesKept
    BY <1>14, Keeps
  <2> QED
    BY <1>1, <1>3, <2>2, <2>3, <2>4 DEF InOnePlace
<1>15. ASSUME NEW g \in Goroutines, NEW o \in Objects, DrainOne(g, o) PROVE Goal
  <2>1. o \in todo /\ decs[o] = 0
    BY <1>15, Owner DEF DrainOne
  <2>2. /\ todo' = todo \ {o} /\ \A u \in Objects : decs'[u] = IF u = o THEN 1 ELSE decs[u]
        /\ UNCHANGED <<held, p, swapped, pending, dropped>>
    BY <1>15, <2>1 DEF DrainOne, handles
  <2>3. ReleasesKept
    BY <1>15, Keeps
  <2> QED
    BY <1>1, <1>3, <2>1, <2>2, <2>3 DEF InOnePlace
<1>16. ASSUME NEW g \in Goroutines, ReturnClose(g) PROVE Goal
  <2>1. dead
    BY <1>16 DEF ReturnClose, FramesOK, FrameOK, Now
  <2>2. /\ \/ dropped' = dropped \cup pending /\ pending' = {}
           \/ dropped' = dropped /\ pending' = pending
        /\ UNCHANGED <<held, p, swapped, todo, decs>>
    BY <1>16 DEF ReturnClose, handles
  <2>3. ReleasesKept
    BY <1>16, Keeps
  <2> QED
    BY <1>1, <1>3, <2>1, <2>2, <2>3 DEF InOnePlace
<1>17. ASSUME NEW g \in Goroutines, NEW o \in Objects, Release(g, o) PROVE Goal
  <2>1. \A u \in Objects : Releasing(u)' <=> Releasing(u) \/ u = o
    BY <1>2, <1>17, Begins
  <2>2. /\ p[o] /\ ~p'[o] /\ \A u \in Objects \ {o} : p'[u] = p[u]
        /\ UNCHANGED <<held, queues>>
    BY <1>17 DEF Release, HandlesOK
  <2> QED
    BY <1>1, <2>1, <2>2 DEF InOnePlace, queues
<1>18. ASSUME NEW o \in Objects, Forget(o) PROVE Goal
  <2>1. ReleasesKept /\ UNCHANGED <<p, queues>>
    BY <1>18, CallsKept DEF Forget
  <2>2. \A u \in Objects : held'[u] = "unborn" <=> held[u] = "unborn"
    BY <1>18 DEF Forget, HandlesOK
  <2> QED
    BY <1>1, <1>3, <2>1, <2>2 DEF InOnePlace, queues
<1>19. ASSUME NEW o \in Objects, FinalizeSwap(o) PROVE Goal
  <2>1. /\ ReleasesKept /\ UNCHANGED <<held, pending, todo, dropped, decs>>
        /\ swapped' = swapped \cup (IF p[o] THEN {o} ELSE {})
    BY <1>19, CallsKept DEF FinalizeSwap
  <2>2. ~p'[o] /\ \A u \in Objects \ {o} : p'[u] = p[u]
    BY <1>19 DEF FinalizeSwap, HandlesOK
  <2> QED
    BY <1>1, <1>3, <2>1, <2>2 DEF InOnePlace
<1>20. ASSUME NEW o \in Objects, FinalizeAppend(o) PROVE Goal
  <2>1. ReleasesKept
    BY <1>20, CallsKept DEF FinalizeAppend
  <2> QED
    BY <1>1, <1>3, <1>20, <2>1 DEF FinalizeAppend, handles, InOnePlace
<1>22. ASSUME NEW g \in Goroutines, DrainPanic(g) PROVE Goal
  <2>1. /\ dropped' = dropped \cup todo \cup GivesUp(g) /\ todo' = {} /\ leaked'
        /\ UNCHANGED <<held, p, swapped, pending, decs>>
    BY <1>22 DEF DrainPanic, handles
  <2>2. CASE op[g].m = "release"
    <3>1. /\ op[g].o \in Objects /\ Releasing(op[g].o)
          /\ \A u \in Objects : Releasing(u)' <=> Releasing(u) /\ u # op[g].o
      BY <1>11, <1>22, <2>2, Ends
    <3>2. GivesUp(g) = {op[g].o}
      BY <2>2 DEF GivesUp
    <3> QED
      BY <1>1, <2>1, <3>1, <3>2 DEF InOnePlace
  <2>3. CASE op[g].m # "release"
    <3>1. GivesUp(g) = {} /\ ReleasesKept
      BY <1>22, <2>3, Keeps DEF GivesUp
    <3> QED
      BY <1>1, <1>3, <2>1, <3>1 DEF InOnePlace
  <2> QED
    BY <2>2, <2>3
<1> HIDE DEF Goal
<1>21. Goal
  BY <1>22, <1>6, <1>7, <1>8, <1>9, <1>10, <1>12, <1>13, <1>14, <1>15, <1>16, <1>17, <1>18, <1>19, <1>20
  DEF Next, Step
<1> QED
  BY <1>21 DEF Goal

(* Borrowed, by where the method is. *)
LEMMA BorrowedIs ==
  ASSUME NEW o \in Objects
  PROVE  /\ Borrowed(o) <=> \E g \in Goroutines :
               (op[g].m = "use" /\ op[g].o = o /\ pc[g] = "c") \/ \E f \in Suspended(g) : Borrows(f, o)
         /\ Borrowed(o)' <=> \E g \in Goroutines :
               (op'[g].m = "use" /\ op'[g].o = o /\ pc'[g] = "c") \/ \E f \in Suspended(g)' : Borrows(f, o)
<1>1. ASSUME NEW g \in Goroutines
      PROVE  /\ InProgress(g) = Suspended(g) \cup {Now(g)}
             /\ InProgress(g)' = Suspended(g)' \cup {Now(g)'}
             /\ Borrows(Now(g), o) <=> op[g].m = "use" /\ op[g].o = o /\ pc[g] = "c"
             /\ Borrows(Now(g)', o) <=> op'[g].m = "use" /\ op'[g].o = o /\ pc'[g] = "c"
  BY DEF InProgress, Suspended, Now, Borrows
<1> QED
  BY <1>1 DEF Borrowed

(* BorrowedStaysAlive, whatever has strayed. *)
AliveNow == \A o \in Objects : Borrowed(o) => decs[o] = 0

(* A pointer is loaded from a handle that has the reference; what is given  *)
(* back meanwhile is something else.                                        *)
LEMMA AliveStep ==
  ASSUME IInv, Next
  PROVE  BorrowedStaysAlive'
<1> USE DEF IInv
<1> SUFFICES ASSUME ~strayed' PROVE AliveNow'
  BY DEF BorrowedStaysAlive, AliveNow
<1> DEFINE Uses(g, o) == op[g].m = "use" /\ op[g].o = o /\ pc[g] = "c"
<1>00. ~strayed
  BY DeadStep
<1>0. \A u \in Objects : Borrowed(u) => decs[u] = 0
  BY <1>00 DEF BorrowedStaysAlive
<1>1. ASSUME decs' = decs, \A u \in Objects : Borrowed(u)' => Borrowed(u) \/ p[u]
      PROVE  AliveNow'
  BY <1>0, <1>1, Owner DEF AliveNow
<1>2. ASSUME NEW g \in Goroutines, CallHost(g) PROVE AliveNow'
  <2>1. /\ Suspended(g)' = Suspended(g) \cup {Now(g)} /\ pc'[g] = "out"
        /\ \A h \in Goroutines \ {g} : Suspended(h)' = Suspended(h)
    BY <1>2, Pushed
  <2>2. op' = op /\ decs' = decs /\ \A h \in Goroutines \ {g} : pc'[h] = pc[h]
    BY <1>2 DEF CallHost, Goto, CallsOK, queues
  <2>3. \A u \in Objects : Borrows(Now(g), u) <=> Uses(g, u)
    BY DEF Borrows, Now
  <2>4. \A u \in Objects : Borrowed(u)' => Borrowed(u)
    BY <2>1, <2>2, <2>3, BorrowedIs
  <2> QED
    BY <1>1, <2>2, <2>4
<1>3. ASSUME NEW g \in Goroutines, HostReturn(g) PROVE AliveNow'
  <2>1. /\ Suspended(g) = Suspended(g)' \cup {Now(g)'}
        /\ \A h \in Goroutines \ {g} : Suspended(h)' = Suspended(h) /\ pc'[h] = pc[h] /\ op'[h] = op[h]
    BY <1>3, Popped
  <2>2. \A u \in Objects : Borrows(Now(g)', u) <=> Uses(g, u)'
    BY DEF Borrows, Now
  <2>3. \A u \in Objects : Borrowed(u)' => Borrowed(u)
    BY <2>1, <2>2, BorrowedIs
  <2>4. decs' = decs
    BY <1>3 DEF HostReturn, queues
  <2> QED
    BY <1>1, <2>3, <2>4
<1>4. ASSUME NEW g \in Goroutines,
             \/ Step(g)
             \/ \E m \in Methods, o \in Objects \cup {NoObject} : Call(g, m, o)
             \/ \E o \in Objects : Release(g, o),
             \A u \in Objects : Uses(g, u)' => Uses(g, u) \/ p[u]
      PROVE  \A u \in Objects : Borrowed(u)' => Borrowed(u) \/ p[u]
  <2>1. /\ \A h \in Goroutines : Suspended(h)' = Suspended(h)
        /\ \A h \in Goroutines \ {g} : pc'[h] = pc[h] /\ op'[h] = op[h]
    BY <1>4, OneMoves, StackKept
  <2> QED
    BY <1>4, <2>1, BorrowedIs
<1>5. ASSUME NEW g \in Goroutines,
             \/ Refused(g) \/ EnterNested(g) \/ EnterOutermost(g)
             \/ DelDone(g) \/ DrainPanic(g) \/ DrainDone(g)
             \/ Ptr(g)
             \/ Return(g) \/ ReturnRelease(g) \/ ReturnClose(g) \/ Panic(g)
             \/ \E m \in Methods, o \in Objects \cup {NoObject} : Call(g, m, o)
             \/ \E o \in Objects : Release(g, o)
      PROVE  AliveNow'
  <2> USE DEF Goto, CallsOK
  <2>1. \A u \in Objects : Uses(g, u)' => Uses(g, u) \/ p[u]
    <3>1. CASE Refused(g) \/ EnterOutermost(g) \/ DelDone(g) \/ DrainPanic(g)
      BY <3>1 DEF Refused, EnterOutermost, DelDone, DrainPanic
    <3>2. CASE EnterNested(g) \/ DrainDone(g)
      BY <3>2 DEF EnterNested, DrainDone, AfterEnter
    <3>3. CASE Ptr(g)
      BY <3>3 DEF Ptr
    <3>4. CASE Return(g) \/ ReturnRelease(g) \/ ReturnClose(g) \/ Panic(g)
      BY <3>4 DEF Return, ReturnRelease, ReturnClose, Panic
    <3>5. CASE \E m \in Methods, o \in Objects \cup {NoObject} : Call(g, m, o)
      BY <3>5 DEF Call
    <3>6. CASE \E o \in Objects : Release(g, o)
      BY <3>6 DEF Release
    <3> QED
      BY <1>5, <3>1, <3>2, <3>3, <3>4, <3>5, <3>6
  <2>2. decs' = decs
    BY <1>5 DEF Refused, EnterNested, EnterOutermost, DelDone, DrainPanic, DrainDone, Ptr, Return, ReturnRelease,
                ReturnClose, Panic, Call, Release, queues
  <2> QED
    BY <1>1, <1>4, <1>5, <2>1, <2>2 DEF Step
<1>6. ASSUME NEW g \in Goroutines, NEW o \in Objects, DrainOne(g, o) PROVE AliveNow'
  <2>1. /\ UNCHANGED <<op, stack>> /\ pc[g] = "drain" /\ stack[g] = << >>
        /\ pc'[g] = "del" /\ \A h \in Goroutines \ {g} : pc'[h] = pc[h]
    BY <1>6 DEF DrainOne, DrainsOutermost, Goto, CallsOK
  <2>2. \A h \in Goroutines \ {g} : pc[h] \in {"out", "enter"} /\ stack[h] = << >>
    BY <1>00, <2>1 DEF OneInside, Inside, Outermost
  <2>3. \A h \in Goroutines : pc[h] # "c" /\ Suspended(h) = {}
    <3>1. \A h \in Goroutines : pc[h] # "c" /\ stack[h] = << >>
      BY <2>1, <2>2
    <3>2. ASSUME NEW h \in Goroutines PROVE Suspended(h) = {}
      <4>1. stack[h] = << >>
        BY <3>1
      <4> QED
        BY <4>1 DEF Suspended
    <3> QED
      BY <3>1, <3>2
  <2>4. \A u \in Objects : ~Borrowed(u)'
    <3>1. \A h \in Goroutines : pc'[h] # "c" /\ Suspended(h)' = {}
      BY <2>1, <2>3, StackKept
    <3> QED
      BY <3>1, BorrowedIs
  <2> QED
    BY <2>4 DEF AliveNow
<1>7. ASSUME NEW g \in Goroutines, DecRef(g) PROVE AliveNow'
  <2>1. op[g].m = "release" /\ op[g].o \in Objects /\ Releases(g, op[g].o)
    BY <1>7, Ends
  <2>2. pc[g] = "decref" /\ pc'[g] = "after" /\ op' = op /\ stack' = stack
    BY <1>7 DEF DecRef, Goto, CallsOK
  <2>3. \A h \in Goroutines \ {g} : pc[h] \in {"out", "enter"} /\ stack[h] = << >>
    BY <1>00, <2>2 DEF OneInside, Inside, Outermost
  <2>4. ~Borrowed(op[g].o)
    <3>1. \A f \in Suspended(g) : ~Borrows(f, op[g].o)
      BY <2>1, <2>2 DEF NotOwnBorrow
    <3>2. \A h \in Goroutines \ {g} : Suspended(h) = {}
      BY <2>3 DEF Suspended
    <3> QED
      BY <2>1, <2>2, <2>3, <3>1, <3>2, BorrowedIs
  <2>5. \A u \in Objects : Borrowed(u)' => Borrowed(u)
    <3>1. /\ \A h \in Goroutines : Suspended(h)' = Suspended(h)
          /\ \A h \in Goroutines \ {g} : pc'[h] = pc[h]
      BY <1>7, OneMoves, StackKept, <2>2 DEF Step, DecRef, Goto, CallsOK
    <3> QED
      BY <2>2, <3>1, BorrowedIs
  <2>6. \A u \in Objects \ {op[g].o} : decs'[u] = decs[u]
    BY <1>7, <2>1 DEF DecRef, QueuesOK
  <2> QED
    BY <1>0, <2>4, <2>5, <2>6 DEF AliveNow
<1>8. ASSUME NEW o \in Objects, Forget(o) \/ FinalizeSwap(o) \/ FinalizeAppend(o) PROVE AliveNow'
  <2>1. UNCHANGED calls /\ decs' = decs
    BY <1>8 DEF Forget, FinalizeSwap, FinalizeAppend, queues
  <2>2. \A u \in Objects : Borrowed(u)' => Borrowed(u)
    BY <2>1 DEF Borrowed, InProgress, Borrows, calls
  <2> QED
    BY <1>1, <2>1, <2>2
<1> HIDE DEF Uses
<1> QED
  BY <1>2, <1>3, <1>5, <1>6, <1>7, <1>8 DEF Next, Step

-----------------------------------------------------------------------------

(* The invariant that the theorems follow from. *)
LEMMA Invariant == Spec => []IInv
<1>1. ASSUME IInv, Next PROVE IInv'
  BY <1>1, CallsStep, QueuesStep, InsideStep, FramesStep, ReleasedStep, DrainsStep, BorrowStep,
     OwnerStep, AliveStep DEF IInv
<1>2. ASSUME IInv, UNCHANGED vars PROVE IInv'
  <2>1. UNCHANGED <<held, p, armed, swapped, pending, todo, dropped, decs, dead, leaked, strayed, pc, op, stack>>
    BY <1>2 DEF vars, handles, queues, gate, calls
  <2>2. /\ HandlesOK' /\ QueuesOK' /\ CallsOK'
        /\ OneInside' /\ DrainsOutermost' /\ FramesOK'
    BY <1>2, <2>1 DEF IInv, HandlesOK, QueuesOK, CallsOK, OneInside, Inside, Outermost,
                      DrainsOutermost, FramesOK, Now, Suspended
  <2>3. ReleasedOnce' /\ SomeoneDrains' /\ NotOwnBorrow'
    BY <1>2, <2>1 DEF IInv, ReleasedOnce, Releases, Doing, Waiting, SomeoneDrains, Drains,
                      NotOwnBorrow, Borrows, Suspended
  <2>4. ExactlyOneOwner'
    <3>1. \A o \in Objects : Places(o)' = Places(o)
      BY <2>1 DEF Places, Releasing, InProgress
    <3> QED
      BY <1>2, <2>1, <3>1 DEF IInv, ExactlyOneOwner
  <2>5. BorrowedStaysAlive'
    BY <1>2, <2>1 DEF IInv, BorrowedStaysAlive, Borrowed, InProgress, Borrows
  <2> QED
    BY <2>2, <2>3, <2>4, <2>5 DEF IInv
<1> QED
  BY InitIInv, <1>1, <1>2, PTL DEF Spec

(* Types, decs among them: no reference is given back twice. *)
THEOREM TypeCorrect == Spec => []TypeOK
<1>1. IInv => TypeOK
  BY DEF IInv, HandlesOK, QueuesOK, CallsOK, TypeOK
<1> QED
  BY Invariant, <1>1, PTL

(* However many goroutines release, forget and finalize whichever handles,  *)
(* and however deep host functions nest, the reference of a handle is in    *)
(* exactly one place, and given up only when the interpreter is gone or a   *)
(* panic has cut drain short, wherever that happens and whatever is called  *)
(* after it.                                                                *)
THEOREM OneOwner == Spec => []ExactlyOneOwner
<1>1. IInv => ExactlyOneOwner
  BY DEF IInv
<1> QED
  BY Invariant, <1>1, PTL

(* And until a call strays no object is freed while C code works with the   *)
(* pointer it loaded, though nothing keeps the handle alive.                *)
THEOREM BorrowedLives == Spec => []BorrowedStaysAlive
<1>1. IInv => BorrowedStaysAlive
  BY DEF IInv
<1> QED
  BY Invariant, <1>1, PTL

-----------------------------------------------------------------------------

(* Past enter(). *)
Past(l) == l \notin {"out", "enter"}

(* How many of its methods a goroutine has in progress. *)
LEMMA Levels ==
  ASSUME CallsOK, NEW g \in Goroutines
  PROVE  /\ Len(stack[g]) \in Nat
         /\ Past(pc[g]) => Level[g] = Len(stack[g]) + 1
         /\ ~Past(pc[g]) => Level[g] = Len(stack[g]) + 0
         /\ Level[g] \in Nat /\ (Level[g] > 0 <=> Inside(g))
<1>1. Len(stack[g]) \in Nat /\ (Len(stack[g]) = 0 <=> stack[g] = << >>)
  BY Empty DEF CallsOK
<1>2. /\ Past(pc[g]) => Level[g] = Len(stack[g]) + 1
      /\ ~Past(pc[g]) => Level[g] = Len(stack[g]) + 0
  BY DEF Level, Past
<1>3. Level[g] \in Nat /\ (Level[g] > 0 <=> (stack[g] # << >> \/ Past(pc[g])))
  BY <1>1, <1>2
<1> QED
  BY <1>1, <1>2, <1>3 DEF Inside, Outermost, Past

(* A step that leaves the stacks alone changes the level of g at most. *)
LEMMA LevelStep ==
  ASSUME CallsOK, NEW g \in Goroutines, stack' = stack,
         \A h \in Goroutines \ {g} : pc'[h] = pc[h]
  PROVE  /\ (Past(pc'[g]) <=> Past(pc[g])) => Level' = Level
         /\ (Past(pc'[g]) /\ ~Past(pc[g])) => Level' = [Level EXCEPT ![g] = @ + 1]
         /\ (~Past(pc'[g]) /\ Past(pc[g])) => Level' = [Level EXCEPT ![g] = @ - 1]
<1> DEFINE n == Len(stack[g])
           At(l) == n + IF Past(l) THEN 1 ELSE 0
<1>1. /\ DOMAIN Level = Goroutines
      /\ Level[g] = At(pc[g])
      /\ Level' = [Level EXCEPT ![g] = At(pc'[g])]
  BY DEF Level, Past
<1>2. n \in Nat /\ (n + 1) - 1 = n + 0 /\ (n + 0) + 1 = n + 1
  BY Levels
<1>3. \A l : /\ Past(l) => At(l) = n + 1
             /\ ~Past(l) => At(l) = n + 0
  BY Zenon
<1> HIDE DEF At, n
<1>4. (Past(pc'[g]) <=> Past(pc[g])) => At(pc'[g]) = At(pc[g])
  BY <1>3, Zenon
<1>5. Past(pc'[g]) /\ ~Past(pc[g]) => At(pc'[g]) = At(pc[g]) + 1
  BY <1>2, <1>3, Zenon
<1>6. ~Past(pc'[g]) /\ Past(pc[g]) => At(pc'[g]) = At(pc[g]) - 1
  BY <1>2, <1>3, Zenon
<1>7. /\ At(pc'[g]) = Level[g] => Level' = Level
      /\ At(pc'[g]) = Level[g] + 1 => Level' = [Level EXCEPT ![g] = @ + 1]
      /\ At(pc'[g]) = Level[g] - 1 => Level' = [Level EXCEPT ![g] = @ - 1]
  BY <1>1, Zenon DEF Level
<1> QED
  BY <1>1, <1>4, <1>5, <1>6, <1>7, Zenon

(* A method suspended in a host function counts as before. *)
LEMMA HostLevels ==
  ASSUME CallsOK, NEW g \in Goroutines, CallHost(g) \/ HostReturn(g)
  PROVE  Level' = Level
<1>1. /\ \A h \in Goroutines \ {g} : stack'[h] = stack[h] /\ pc'[h] = pc[h]
      /\ stack[g] \in Seq(Frames)
  BY DEF CallHost, HostReturn, Goto, CallsOK
<1>2. ASSUME Level'[g] = Level[g] PROVE Level' = Level
  BY <1>1, <1>2 DEF Level
<1>3. CASE CallHost(g)
  <2>1. Now(g) \in Frames /\ pc[g] \in Inner
    BY <1>3, ObjectsAssumption DEF CallsOK, CallHost, Now, Frames, Ops
  <2>2. stack'[g] = <<Now(g)>> \o stack[g] /\ pc'[g] = "out"
    BY <1>3 DEF CallHost, Goto, Now, CallsOK
  <2>3. Len(<<Now(g)>> \o stack[g]) = Len(stack[g]) + 1 /\ Len(stack[g]) \in Nat
    BY <1>1, <2>1
  <2>4. Len(stack'[g]) + 0 = Len(stack[g]) + 1
    BY <2>2, <2>3
  <2> QED
    BY <1>2, <2>1, <2>2, <2>4 DEF Level, Inner
<1>4. CASE HostReturn(g)
  <2>1. stack[g] # << >> /\ pc[g] = "out"
    BY <1>4 DEF HostReturn, Outermost
  <2>2. Head(stack[g]) \in Frames /\ Len(Tail(stack[g])) + 1 = Len(stack[g]) + 0
    BY <1>1, <2>1
  <2>3. stack'[g] = Tail(stack[g]) /\ pc'[g] \in Inner
    BY <1>4, <2>2 DEF HostReturn, Goto, CallsOK, Frames
  <2> QED
    BY <1>2, <2>1, <2>2, <2>3 DEF Level, Inner
<1> QED
  BY <1>3, <1>4

(* What Objects assumes of the gate is what Gate is shown to give: each of  *)
(* its steps is one of SerializedCalls, or none, whatever host functions    *)
(* call and wherever code in a method calls them (cpython.go, 320-386),     *)
(* until a call that does not wait, after a panic in drain, overlaps.       *)
THEOREM Refinement == Spec => ImplementsSerializedCalls
<1>1. Init => Promised!Init
  <2>1. Len(<< >>) = 0
    OBVIOUS
  <2> QED
    BY <2>1 DEF Init, Promised!Init, Level
<1>2. IInv /\ [Next]_vars => [strayed' \/ Promised!Next]_(Promised!vars)
  <2> SUFFICES ASSUME IInv, [Next]_vars
               PROVE  strayed' \/ Promised!Next \/ (Level' = Level /\ dead' = dead)
    BY DEF Promised!vars
  <2> USE DEF IInv
  <2> DEFINE Goal == strayed' \/ Promised!Next \/ (Level' = Level /\ dead' = dead)
  <2>1. ASSUME NEW g \in Goroutines, ~dead, dead' \in {dead, TRUE},
               \A h \in Goroutines \ {g} : ~Inside(h),
               Level' = [Level EXCEPT ![g] = @ + 1]
        PROVE  Goal
    <3>1. \A h \in Goroutines \ {g} : Level[h] = 0
      BY <2>1, Levels
    <3> QED
      BY <2>1, <3>1 DEF Promised!Next, Promised!GoIn
  <2>2. ASSUME NEW g \in Goroutines, Inside(g), dead' \in {dead, TRUE},
               Level' = [Level EXCEPT ![g] = @ - 1]
        PROVE  Goal
    <3>1. Level[g] > 0
      BY <2>2, Levels
    <3> QED
      BY <2>2, <3>1 DEF Promised!Next, Promised!GoOut
  <2>3. ASSUME NEW g \in Goroutines, Inside(g), Level' = Level, dead' \in {dead, TRUE}
        PROVE  Goal
    <3>1. Level[g] > 0
      BY <2>3, Levels
    <3> QED
      BY <2>3, <3>1 DEF Promised!Next, Promised!Die
  <2>4. ASSUME NEW g \in Goroutines,
               \/ Step(g)
               \/ \E m \in Methods, o \in Objects \cup {NoObject} : Call(g, m, o)
               \/ \E o \in Objects : Release(g, o)
        PROVE  /\ (Past(pc'[g]) <=> Past(pc[g])) => Level' = Level
               /\ (Past(pc'[g]) /\ ~Past(pc[g])) => Level' = [Level EXCEPT ![g] = @ + 1]
               /\ (~Past(pc'[g]) /\ Past(pc[g])) => Level' = [Level EXCEPT ![g] = @ - 1]
    BY <2>4, OneMoves, LevelStep
  <2>5. ASSUME NEW g \in Goroutines,
               \/ Refused(g) \/ (\E o \in Objects : DrainOne(g, o)) \/ DelDone(g) \/ DecRef(g)
               \/ \E m \in Methods, o \in Objects \cup {NoObject} : Call(g, m, o)
               \/ \E o \in Objects : Release(g, o)
        PROVE  Goal
    <3>1. dead' = dead
      BY <2>5 DEF Refused, DrainOne, DelDone, DecRef, Call, Release, gate
    <3>2. Past(pc'[g]) <=> Past(pc[g])
      BY <2>5 DEF Refused, DrainOne, DelDone, DecRef, Call, Callable, Release, Goto, Past, CallsOK
    <3> QED
      BY <2>4, <2>5, <3>1, <3>2 DEF Step
  <2>6. ASSUME NEW g \in Goroutines, EnterNested(g) \/ EnterOutermost(g) PROVE Goal
    <3>1. ~dead /\ dead' \in {dead, TRUE} /\ ~Past(pc[g]) /\ Past(pc'[g])
      BY <2>6 DEF EnterNested, EnterOutermost, Closes, AfterEnter, Goto, Past, CallsOK, QueuesOK, gate
    <3>2. strayed' \/ \A h \in Goroutines \ {g} : ~Inside(h)
      <4>1. CASE EnterNested(g)
        BY <4>1 DEF EnterNested
      <4>2. CASE EnterOutermost(g)
        BY <4>2 DEF EnterOutermost
      <4> QED
        BY <2>6, <4>1, <4>2
    <3> QED
      BY <2>1, <2>4, <2>6, <3>1, <3>2 DEF Step
  <2>7. ASSUME NEW g \in Goroutines, DrainDone(g) PROVE Goal
    <3>1. dead' \in {dead, TRUE} /\ Past(pc[g]) /\ Past(pc'[g]) /\ Inside(g)
      BY <2>7 DEF DrainDone, Closes, AfterEnter, Goto, Past, Inside, CallsOK, QueuesOK
    <3> QED
      BY <2>3, <2>4, <2>7, <3>1 DEF Step
  <2>8. ASSUME NEW g \in Goroutines, Ptr(g) PROVE Goal
    <3>1. dead' = dead /\ Past(pc[g]) /\ Inside(g)
      BY <2>8 DEF Ptr, Past, Inside, gate
    <3> QED
      BY <2>2, <2>4, <2>8, <3>1 DEF Step
  <2>9. ASSUME NEW g \in Goroutines,
               Return(g) \/ ReturnRelease(g) \/ ReturnClose(g) \/ Panic(g) \/ DrainPanic(g)
        PROVE  Goal
    <3>1. dead' \in {dead, TRUE} /\ Past(pc[g]) /\ ~Past(pc'[g]) /\ Inside(g)
      BY <2>9 DEF Return, ReturnRelease, ReturnClose, Panic, DrainPanic, Goto, Past, Inside, CallsOK, gate
    <3> QED
      BY <2>2, <2>4, <2>9, <3>1 DEF Step
  <2>10. ASSUME NEW g \in Goroutines, CallHost(g) \/ HostReturn(g) PROVE Goal
    <3>1. dead' = dead
      BY <2>10 DEF CallHost, HostReturn, gate
    <3> QED
      BY <2>10, <3>1, HostLevels
  <2>11. ASSUME UNCHANGED <<dead, calls>> PROVE Goal
    BY <2>11 DEF calls, Level
  <2>12. UNCHANGED vars => UNCHANGED <<dead, calls>>
    BY DEF vars, gate
  <2>13. ASSUME NEW o \in Objects, Forget(o) \/ FinalizeSwap(o) \/ FinalizeAppend(o)
         PROVE  UNCHANGED <<dead, calls>>
    BY <2>13 DEF Forget, FinalizeSwap, FinalizeAppend, gate
  <2> HIDE DEF Goal
  <2>14. Goal
    BY <2>5, <2>6, <2>7, <2>8, <2>9, <2>10, <2>11, <2>12, <2>13 DEF Next, Step
  <2> QED
    BY <2>14 DEF Goal
<1> QED
  BY <1>1, <1>2, Invariant, PTL DEF Spec, ImplementsSerializedCalls, Promised!Spec

=============================================================================
