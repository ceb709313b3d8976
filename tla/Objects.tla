------------------------------ MODULE Objects -------------------------------
(***************************************************************************)
(* The life of the references that *Object handles own (object.go, drain   *)
(* of cpython.go, the arguments of callHost in hostfunc.go): a handle is   *)
(* released by the application, or found unreachable by Go's collector,    *)
(* whose finalizer queues the reference for the next outermost call.       *)
(*                                                                         *)
(* enter() and leave() are one step each, and a goroutine that is not      *)
(* inside waits (the races within them are Gate's).  But a panic in drain, *)
(* or a refused call of a host function, leaves depth too high for ever:   *)
(* from then on no call waits and none drains.                             *)
(*                                                                         *)
(* Each handle owns the only reference to its Python object, the worst     *)
(* case, so the object is gone with the first Py_DecRef.                   *)
(***************************************************************************)
EXTENDS Naturals, Sequences

CONSTANTS
  Objects,      \* the handles that may come into being
  NoObject,     \* what a method that is not Object's has instead of one
  Goroutines,   \* the application's goroutines
  MaxNest,      \* how many host functions one goroutine may be inside
  HostMethods,  \* the methods its host functions call
  HostIn        \* where C code may call a host function

(* exec: Exec, Eval, Get...; use: the methods of Object that load o.p. *)
Methods == {"exec", "use", "release", "close"}
Inner == {"del", "c", "after"}

ASSUME ObjectsAssumption ==
  /\ NoObject \notin Objects
  /\ MaxNest \in Nat
  /\ HostMethods \subseteq Methods
  /\ HostIn \subseteq Inner

VARIABLES
  held,     \* "unborn", then "app" until the collector finds it unreachable
  p,        \* o.p is not zero
  armed,    \* o's finalizer is set
  swapped,  \* taken by a finalizer that has not queued it yet
  pending,  \* in.pending
  todo,     \* what the drain in progress has taken from in.pending
  dropped,  \* given up: the interpreter is closed or crashed, drain panicked
  decs,     \* how often the reference of each handle was given back
  dead,     \* the interpreter is closed or crashed
  leaked,   \* depth stays above zero when nobody is inside, and mu locked
  strayed,  \* history: a call got in while another goroutine was inside
  pc, op,   \* the innermost method of each goroutine
  stack     \* its methods suspended in a host function, innermost first

handles == <<held, p, armed>>
queues == <<swapped, pending, todo, dropped, decs>>
gate == <<dead, leaked, strayed>>
calls == <<pc, op, stack>>
vars == <<handles, queues, gate, calls>>

PCs == {"out", "enter", "drain", "ptr", "decref"} \cup Inner
Ops == [m : Methods, o : Objects \cup {NoObject}]
Frames == [m : Methods, o : Objects \cup {NoObject}, at : Inner]

TypeOK ==
  /\ held \in [Objects -> {"unborn", "app", "garbage"}]
  /\ p \in [Objects -> BOOLEAN]
  /\ armed \in [Objects -> BOOLEAN]
  /\ swapped \subseteq Objects
  /\ pending \subseteq Objects
  /\ todo \subseteq Objects
  /\ dropped \subseteq Objects
  /\ decs \in [Objects -> 0..1]
  /\ dead \in BOOLEAN
  /\ leaked \in BOOLEAN
  /\ strayed \in BOOLEAN
  /\ pc \in [Goroutines -> PCs]
  /\ op \in [Goroutines -> Ops]
  /\ stack \in [Goroutines -> Seq(Frames)]

Init ==
  /\ held = [o \in Objects |-> "unborn"]
  /\ p = [o \in Objects |-> FALSE]
  /\ armed = [o \in Objects |-> FALSE]
  /\ swapped = {} /\ pending = {} /\ todo = {} /\ dropped = {}
  /\ decs = [o \in Objects |-> 0]
  /\ dead = FALSE /\ leaked = FALSE /\ strayed = FALSE
  /\ pc = [g \in Goroutines |-> "out"]
  /\ op = [g \in Goroutines |-> [m |-> "exec", o |-> NoObject]]
  /\ stack = [g \in Goroutines |-> << >>]

-----------------------------------------------------------------------------

Outermost(g) == stack[g] = << >>
Inside(g) == pc[g] \notin {"out", "enter"} \/ ~Outermost(g)
Goto(g, l) == pc' = [pc EXCEPT ![g] = l]

(* The methods of g in progress, with where each of them is. *)
InProgress(g) ==
  {stack[g][i] : i \in 1..Len(stack[g])}
    \cup {[m |-> op[g].m, o |-> op[g].o, at |-> pc[g]]}

Suspended(g) == {stack[g][i] : i \in 1..Len(stack[g])}

(* C code of such a method works with the pointer it loaded from o.p. *)
Borrows(f, o) == f.m = "use" /\ f.o = o /\ f.at = "c"
Borrowed(o) == \E g \in Goroutines : \E f \in InProgress(g) : Borrows(f, o)

(* A method that has yet to load o.p keeps o reachable; one that has does   *)
(* not: nothing in the package calls runtime.KeepAlive.                     *)
Pinned(o) ==
  \E g \in Goroutines : \E f \in InProgress(g) :
    f.m = "use" /\ f.o = o /\ f.at \in {"enter", "drain", "del", "ptr"}

(* in.obj() wraps the references of S in new handles. *)
Wrap(S) ==
  /\ \A o \in S : held[o] = "unborn"
  /\ held' = [o \in Objects |-> IF o \in S THEN "app" ELSE held[o]]
  /\ p' = [o \in Objects |-> p[o] \/ o \in S]
  /\ armed' = [o \in Objects |-> armed[o] \/ o \in S]

AtMostOne == {{}} \cup {{o} : o \in Objects}

-----------------------------------------------------------------------------

Callable(g, m) == pc[g] = "out" /\ (Outermost(g) \/ m \in HostMethods)

AfterEnter(g) == IF op[g].m = "use" THEN "ptr"
                 ELSE IF op[g].m = "release" THEN "decref" ELSE "c"

(* Close begins with in.closed = true. *)
Closes(g) == dead' = (dead \/ op[g].m = "close")

(* Mistakes these actions could make; the runs show that their properties   *)
(* would notice.                                                            *)

EnterNestedDrains(g) ==  \* enter() drains on either branch
  /\ pc[g] = "enter"
  /\ ~Outermost(g)
  /\ ~dead
  /\ todo' = todo \cup pending
  /\ pending' = {}
  /\ Goto(g, "drain")
  /\ UNCHANGED <<handles, swapped, dropped, decs, gate, op, stack>>

EnterOutermostNoDrain(g) ==  \* or on none
  /\ pc[g] = "enter"
  /\ Outermost(g)
  /\ ~dead
  /\ ~leaked
  /\ \A h \in Goroutines : ~Inside(h)
  /\ Goto(g, AfterEnter(g))
  /\ UNCHANGED <<handles, queues, gate, op, stack>>

FinalizeNoSwap(o) ==  \* the finalizer queues o.p and leaves it there
  /\ held[o] = "garbage"
  /\ armed[o]
  /\ armed' = [armed EXCEPT ![o] = FALSE]
  /\ swapped' = swapped \cup (IF p[o] THEN {o} ELSE {})
  /\ UNCHANGED <<held, p, pending, todo, dropped, decs, gate, calls>>

(* A method other than Release is called. *)
Call(g, m, o) ==
  /\ Callable(g, m)
  /\ m # "release"
  /\ IF m = "use" THEN o \in Objects /\ held[o] = "app" ELSE o = NoObject
  /\ op' = [op EXCEPT ![g] = [m |-> m, o |-> o]]
  /\ Goto(g, "enter")
  /\ UNCHANGED <<handles, queues, gate, stack>>

(* Release takes the pointer out of the handle; with it comes the duty to   *)
(* give the reference back.  It disarms the finalizer and calls enter().    *)
(* (Release of a handle that has none does nothing.)  The application does  *)
(* not release, in a host function, the object of a method that waits for   *)
(* that function.                                                           *)
Release(g, o) ==
  /\ Callable(g, "release")
  /\ held[o] = "app"
  /\ ~\E f \in Suspended(g) : Borrows(f, o)
  /\ p[o]
  /\ p' = [p EXCEPT ![o] = FALSE]
  /\ armed' = [armed EXCEPT ![o] = FALSE]
  /\ op' = [op EXCEPT ![g] = [m |-> "release", o |-> o]]
  /\ Goto(g, "enter")
  /\ UNCHANGED <<held, queues, gate, stack>>

(* What g gives up with its method: a Release, the reference it took.       *)
GivesUp(g) == IF op[g].m = "release" THEN {op[g].o} ELSE {}

(* enter() refuses, an outermost call after its turn came.  For a host      *)
(* function's goroutine it has added to depth, and nobody calls leave().    *)
(* Release gives up its reference: "nothing safe left to do".               *)
Refused(g) ==
  /\ pc[g] = "enter"
  /\ dead
  /\ Outermost(g) => leaked \/ \A h \in Goroutines : ~Inside(h)
  /\ Goto(g, "out")
  /\ leaked' = (leaked \/ ~Outermost(g))
  /\ dropped' = dropped \cup GivesUp(g)
  /\ UNCHANGED <<handles, swapped, pending, todo, decs, dead, strayed, op, stack>>

(* enter() where depth is not zero: for a host function's goroutine, and    *)
(* for everyone once depth is too high.  No drain.                          *)
EnterNested(g) ==
  /\ pc[g] = "enter"
  /\ ~Outermost(g) \/ leaked
  /\ ~dead
  /\ Goto(g, AfterEnter(g))
  /\ Closes(g)
  /\ strayed' = (strayed \/ \E h \in Goroutines \ {g} : Inside(h))
  /\ UNCHANGED <<handles, queues, leaked, op, stack>>

(* enter() for anyone else, once nobody is inside: drain() takes the queue. *)
(* Who waits for mu when depth is leaked waits for ever.                    *)
EnterOutermost(g) ==
  /\ pc[g] = "enter"
  /\ Outermost(g)
  /\ ~dead
  /\ ~leaked
  /\ \A h \in Goroutines : ~Inside(h)
  /\ todo' = pending
  /\ pending' = {}
  /\ Goto(g, "drain")
  /\ UNCHANGED <<handles, swapped, dropped, decs, gate, op, stack>>

(* The Py_DecRef of drain begins: the object goes, its __del__ may run.     *)
DrainOne(g, o) ==
  /\ pc[g] = "drain"
  /\ o \in todo
  /\ todo' = todo \ {o}
  /\ decs' = [decs EXCEPT ![o] = @ + 1]
  /\ Goto(g, "del")
  /\ UNCHANGED <<handles, swapped, pending, dropped, gate, op, stack>>

DelDone(g) ==
  /\ pc[g] = "del"
  /\ Goto(g, "drain")
  /\ UNCHANGED <<handles, queues, gate, op, stack>>

(* It panics, before the method has deferred leave() and recoverPanic: what *)
(* drain had still to give back is lost, depth and mu stay as they are, and *)
(* the interpreter is not marked crashed.                                   *)
DrainPanic(g) ==
  /\ pc[g] = "del"
  /\ Goto(g, "out")
  /\ leaked' = TRUE
  /\ dropped' = dropped \cup todo \cup GivesUp(g)
  /\ todo' = {}
  /\ UNCHANGED <<handles, swapped, pending, decs, dead, strayed, op, stack>>

DrainDone(g) ==
  /\ pc[g] = "drain"
  /\ todo = {}
  /\ Goto(g, AfterEnter(g))
  /\ Closes(g)
  /\ UNCHANGED <<handles, queues, leaked, strayed, op, stack>>

(* o.ptr(): the pointer, or the error of a released handle. *)
Ptr(g) ==
  /\ pc[g] = "ptr"
  /\ Goto(g, IF p[op[g].o] THEN "c" ELSE "out")
  /\ UNCHANGED <<handles, queues, gate, op, stack>>

(* The Py_DecRef of Release. *)
DecRef(g) ==
  /\ pc[g] = "decref"
  /\ decs' = [decs EXCEPT ![op[g].o] = @ + 1]
  /\ Goto(g, "after")
  /\ UNCHANGED <<handles, swapped, pending, todo, dropped, gate, op, stack>>

(* C code calls a host function, which gets a handle for each argument. *)
CallHost(g) ==
  /\ pc[g] \in HostIn
  /\ Len(stack[g]) < MaxNest
  /\ \E S \in AtMostOne : Wrap(S)
  /\ stack' = [stack EXCEPT ![g] =
                 <<[m |-> op[g].m, o |-> op[g].o, at |-> pc[g]]>> \o @]
  /\ Goto(g, "out")
  /\ UNCHANGED <<queues, gate, op>>

HostReturn(g) ==
  /\ pc[g] = "out"
  /\ ~Outermost(g)
  /\ Goto(g, Head(stack[g]).at)
  /\ op' = [op EXCEPT ![g] = [m |-> Head(stack[g]).m, o |-> Head(stack[g]).o]]
  /\ stack' = [stack EXCEPT ![g] = Tail(@)]
  /\ UNCHANGED <<handles, queues, gate>>

(* A method returns, with a new handle for its result or without one. *)
Return(g) ==
  /\ pc[g] = "c"
  /\ op[g].m \in {"exec", "use"}
  /\ \E S \in AtMostOne : Wrap(S)
  /\ Goto(g, "out")
  /\ UNCHANGED <<queues, gate, op, stack>>

ReturnRelease(g) ==
  /\ pc[g] = "after"
  /\ Goto(g, "out")
  /\ UNCHANGED <<handles, queues, gate, op, stack>>

(* Py_FinalizeEx is over; Close forgets the queue.  It stays if C code      *)
(* exits before that line, or if the line, which does not take pendingMu,   *)
(* loses to the append of a finalizer.                                      *)
ReturnClose(g) ==
  /\ pc[g] = "c"
  /\ op[g].m = "close"
  /\ \/ dropped' = dropped \cup pending /\ pending' = {}
     \/ UNCHANGED <<dropped, pending>>
  /\ Goto(g, "out")
  /\ UNCHANGED <<handles, swapped, todo, decs, gate, op, stack>>

(* recoverPanic marks the interpreter crashed.  (An exit panic it makes an  *)
(* error, and Release swallows every panic: both just return.)              *)
Panic(g) ==
  /\ pc[g] = "c"
  /\ dead' = TRUE
  /\ Goto(g, "out")
  /\ UNCHANGED <<handles, queues, leaked, strayed, op, stack>>

(* The application loses its last pointer to the handle.                    *)
Forget(o) ==
  /\ held[o] = "app"
  /\ ~Pinned(o)
  /\ held' = [held EXCEPT ![o] = "garbage"]
  /\ UNCHANGED <<p, armed, queues, gate, calls>>

(* The finalizer goroutine: o.p.Swap(0), then the append under pendingMu.   *)
FinalizeSwap(o) ==
  /\ held[o] = "garbage"
  /\ armed[o]
  /\ armed' = [armed EXCEPT ![o] = FALSE]
  /\ p' = [p EXCEPT ![o] = FALSE]
  /\ swapped' = swapped \cup (IF p[o] THEN {o} ELSE {})
  /\ UNCHANGED <<held, pending, todo, dropped, decs, gate, calls>>

FinalizeAppend(o) ==
  /\ o \in swapped
  /\ swapped' = swapped \ {o}
  /\ pending' = pending \cup {o}
  /\ UNCHANGED <<handles, todo, dropped, decs, gate, calls>>

-----------------------------------------------------------------------------

Step(g) ==
  \/ Refused(g) \/ EnterNested(g) \/ EnterOutermost(g)
  \/ (\E o \in Objects : DrainOne(g, o))
  \/ DelDone(g) \/ DrainPanic(g) \/ DrainDone(g)
  \/ Ptr(g) \/ DecRef(g)
  \/ Return(g) \/ ReturnRelease(g) \/ ReturnClose(g) \/ Panic(g)

Next ==
  \/ \E g \in Goroutines :
       \/ Step(g)
       \/ CallHost(g)
       \/ HostReturn(g)
       \/ \E m \in Methods, o \in Objects \cup {NoObject} : Call(g, m, o)
       \/ \E o \in Objects : Release(g, o)
  \/ \E o \in Objects : Forget(o) \/ FinalizeSwap(o) \/ FinalizeAppend(o)

Spec == Init /\ [][Next]_vars

(* It loaded depth, found zero, and waits for a mu nobody will unlock.      *)
Stuck(g) == pc[g] = "enter" /\ Outermost(g) /\ leaked

(* Python code and host functions terminate, a call that waits for mu gets  *)
(* it, the finalizer goroutine runs, and the application keeps calling into *)
(* the interpreter, from whatever goroutines.                               *)
Fairness ==
  /\ \A n \in 0..MaxNest :
       /\ SF_vars(\E g \in Goroutines : Len(stack[g]) = n /\ ~Stuck(g) /\ Step(g))
       /\ SF_vars(\E g \in Goroutines : Len(stack[g]) = n /\ HostReturn(g))
  /\ \A g \in Goroutines : SF_vars(EnterOutermost(g))
  /\ WF_vars(\E g \in Goroutines : Outermost(g) /\ Call(g, "exec", NoObject))
  /\ \A o \in Objects : WF_vars(FinalizeSwap(o) \/ FinalizeAppend(o))

FairSpec == Spec /\ Fairness

-----------------------------------------------------------------------------

(* The gate of this module keeps the promise that Gate keeps: its steps are *)
(* steps of SerializedCalls, a goroutine being as many levels deep as it    *)
(* has methods past enter(), until depth is leaked and lets a call stray.   *)
Level == [g \in Goroutines |->
            Len(stack[g]) + IF pc[g] \in {"out", "enter"} THEN 0 ELSE 1]
Promised == INSTANCE SerializedCalls WITH level <- Level
ImplementsSerializedCalls ==
  Promised!Init /\ [][strayed' \/ Promised!Next]_(Promised!vars)

(* A reference is in the hands of a Release that has yet to give it back. *)
Releasing(o) ==
  \E g \in Goroutines : \E f \in InProgress(g) :
    f.m = "release" /\ f.o = o /\ f.at \in {"enter", "drain", "del", "decref"}

(* Where the reference of a handle is; every step that moves it takes it    *)
(* out of one place and puts it in another.                                 *)
Places(o) ==
  {x \in {"handle", "release", "finalizer", "queue", "drain", "dropped", "back"} :
     CASE x = "handle"    -> p[o]
       [] x = "release"   -> Releasing(o)
       [] x = "finalizer" -> o \in swapped
       [] x = "queue"     -> o \in pending
       [] x = "drain"     -> o \in todo
       [] x = "dropped"   -> o \in dropped
       [] x = "back"      -> decs[o] = 1}

(* Release, the finalizer and drain never both have a reference and never   *)
(* both lose it: it is given back once, and given up only if the            *)
(* interpreter is closed or crashed, or by a panic in drain.                *)
ExactlyOneOwner ==
  /\ \A o \in Objects :
       IF held[o] = "unborn" THEN Places(o) = {} ELSE \E x \in Places(o) : Places(o) = {x}
  /\ dropped # {} => dead \/ leaked

(* No Python object is freed while C code of some method, perhaps suspended *)
(* in a host function, works with the pointer it loaded from its handle, as *)
(* long as no call has strayed (after a panic in drain calls do overlap).   *)
BorrowedStaysAlive == ~strayed => \A o \in Objects : Borrowed(o) => decs[o] = 0

(* Leaking a handle "only delays the free", until the interpreter is gone   *)
(* or drain has panicked: no later call drains.                             *)
GarbageGivenBack ==
  \A o \in Objects : held[o] = "garbage" ~> (decs[o] = 1 \/ dead \/ leaked)

=============================================================================
