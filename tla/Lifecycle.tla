------------------------------ MODULE Lifecycle -----------------------------
(***************************************************************************)
(* The interpreters of one process, one after the other: New and Close     *)
(* under openMu, the CPython runtime they start and finalize, and the      *)
(* registry through which C code finds the Go closure of a host function.  *)
(* Goroutines make the calls; host functions call again.                   *)
(*                                                                         *)
(* The gate of each interpreter keeps the promise of SerializedCalls: who  *)
(* is let in from outside has found depth at zero, and mu free or waited   *)
(* for it.  Who finds depth above zero from outside is let in as well, the *)
(* stray call of Gate, which is left out as the panic of drain() is; but a *)
(* closed or crashed interpreter refuses it, and that is not.              *)
(***************************************************************************)
EXTENDS Naturals, Sequences, FiniteSets

CONSTANTS
  Goroutines, Nobody,
  Interps, None,  \* those that New may make, and nil
  MaxHost,        \* how many host functions are registered
  MaxNest,        \* how many host functions one goroutine may be inside
  HostMethods,    \* what host functions call
  FinalMethods    \* what those that Py_FinalizeEx reaches call

Methods == {"new", "call", "close"}

ASSUME LifecycleAssumption ==
  /\ Nobody \notin Goroutines
  /\ None \notin Interps /\ Interps # {}
  /\ MaxHost \in Nat /\ MaxNest \in Nat
  /\ HostMethods \subseteq Methods /\ FinalMethods \subseteq Methods

VARIABLES
  openMu, open,    \* the lock's holder; the interpreter that is open
  runtime,         \* whose Py_InitializeFromConfig made CPython's state
  finalized,       \* (history) those whose Py_FinalizeEx returned
  known,           \* what New has returned
  mu,              \* who locked in.mu, until its outermost method leaves
  leaked,          \* in.depth is too high, so that no leave() unlocks in.mu
  closed, crashed,
  hostReg,         \* the interpreter of each registered host function
  hostIDs,         \* in.hostIDs
  hostNext,
  pc, op,          \* the innermost method of each goroutine
  stack            \* its methods suspended in a host function, innermost first

process == <<openMu, open, runtime, finalized, known>>
interps == <<mu, leaked, closed, crashed>>
registry == <<hostReg, hostIDs, hostNext>>
calls == <<pc, op, stack>>
vars == <<process, interps, registry, calls>>

Ids == 1..MaxHost
Ops == [m : Methods, in : Interps, took : BOOLEAN]
Frames == [op : Ops, at : {"body", "finalize"}]
NoOp == [m |-> "new", in |-> CHOOSE i \in Interps : TRUE, took |-> FALSE]

TypeOK ==
  /\ openMu \in Goroutines \cup {Nobody}
  /\ open \in Interps \cup {None}
  /\ runtime \in Interps \cup {None}
  /\ finalized \subseteq Interps /\ known \subseteq Interps
  /\ mu \in [Interps -> Goroutines \cup {Nobody}]
  /\ leaked \in [Interps -> BOOLEAN]
  /\ closed \in [Interps -> BOOLEAN]
  /\ crashed \in [Interps -> BOOLEAN]
  /\ hostReg \in [Ids -> Interps \cup {None}]
  /\ hostIDs \in [Interps -> SUBSET Ids]
  /\ hostNext \in 0..MaxHost
  /\ pc \in [Goroutines -> {"out", "newLock", "init", "redirect", "closeLock",
                            "enter", "lock", "body", "finalize", "forget"}]
  /\ op \in [Goroutines -> Ops]
  /\ stack \in [Goroutines -> Seq(Frames)]

Init ==
  /\ openMu = Nobody /\ open = None /\ runtime = None
  /\ finalized = {} /\ known = {}
  /\ mu = [i \in Interps |-> Nobody] /\ leaked = [i \in Interps |-> FALSE]
  /\ closed = [i \in Interps |-> FALSE] /\ crashed = [i \in Interps |-> FALSE]
  /\ hostReg = [id \in Ids |-> None] /\ hostNext = 0
  /\ hostIDs = [i \in Interps |-> {}]
  /\ pc = [g \in Goroutines |-> "out"]
  /\ op = [g \in Goroutines |-> NoOp]
  /\ stack = [g \in Goroutines |-> << >>]

-----------------------------------------------------------------------------

Goto(g, l) == pc' = [pc EXCEPT ![g] = l]

(* The method returns; outside there is none, which NoOp stands for. *)
Out(g) == Goto(g, "out") /\ op' = [op EXCEPT ![g] = NoOp]

Callable(g, m) ==
  /\ pc[g] = "out"
  /\ stack[g] # << >> =>
       m \in IF Head(stack[g]).at = "finalize" THEN FinalMethods ELSE HostMethods

Begin(g, m, i, l) ==
  /\ Callable(g, m)
  /\ op' = [op EXCEPT ![g] = [m |-> m, in |-> i, took |-> FALSE]]
  /\ Goto(g, l)

(* A New that has not returned is making this interpreter, or has failed to. *)
Begun(i) ==
  \/ i \in known \/ runtime = i \/ hostIDs[i] # {}
  \/ \E g \in Goroutines : pc[g] \in {"newLock", "init", "redirect"} /\ op[g].in = i

(* Mistakes these actions could make. *)

LeaveNot(g) == UNCHANGED mu    \* the deferred leave() is missing

FreedAnyway(i) == None         \* open is not compared with in

AddHostUnlisted(i) ==          \* in.hostIDs is not appended to
  /\ hostNext < MaxHost
  /\ hostNext' = hostNext + 1
  /\ hostReg' = [hostReg EXCEPT ![hostNext'] = i]
  /\ UNCHANGED hostIDs

CloseLockForgotten(g) ==       \* Close does not lock openMu
  /\ pc[g] = "closeLock"
  /\ Goto(g, "enter")
  /\ UNCHANGED <<process, interps, registry, op, stack>>

CallHostUnlocks(g, id) ==      \* the interpreter is unlocked for the host function
  /\ pc[g] = "body"
  /\ Len(stack[g]) < MaxNest
  /\ id \in hostIDs[op[g].in] /\ hostReg[id] # None
  /\ mu' = [mu EXCEPT ![op[g].in] = Nobody]
  /\ stack' = [stack EXCEPT ![g] = <<[op |-> op[g], at |-> pc[g]]>> \o @]
  /\ Goto(g, "out")
  /\ UNCHANGED <<process, leaked, closed, crashed, registry, op>>

CloseLockForgets(g) ==         \* it clears the registry before Py_FinalizeEx
  /\ pc[g] = "closeLock"
  /\ openMu = Nobody /\ openMu' = g
  /\ hostReg' = [id \in Ids |-> IF id \in hostIDs[op[g].in] THEN None ELSE hostReg[id]]
  /\ Goto(g, "enter")
  /\ UNCHANGED <<open, runtime, finalized, known, interps, hostIDs, hostNext, op, stack>>

-----------------------------------------------------------------------------

(* in.mu is not free: its holder is inside, or will never unlock it. *)
Locked(i) == mu[i] # Nobody \/ leaked[i]

(* leave(): the goroutine is out of the interpreter with the method that    *)
(* locked in.mu, and unlocks it if depth is zero then.                      *)
Leave(g) ==
  mu' = IF op[g].took THEN [mu EXCEPT ![op[g].in] = Nobody] ELSE mu

(* What open is once the interpreter no longer blocks New. *)
Freed(i) == IF open = i THEN None ELSE open

(* hostFunc: a new id, never used before. *)
AddHost(i) ==
  /\ hostNext < MaxHost
  /\ hostNext' = hostNext + 1
  /\ hostReg' = [hostReg EXCEPT ![hostNext'] = i]
  /\ hostIDs' = [hostIDs EXCEPT ![i] = @ \cup {hostNext'}]

-----------------------------------------------------------------------------
(* New *)

StartNew(g, i) ==
  /\ ~Begun(i)
  /\ Begin(g, "new", i, "newLock")
  /\ UNCHANGED <<process, interps, registry, stack>>

NewLock(g) ==
  /\ pc[g] = "newLock"
  /\ openMu = Nobody
  /\ IF open # None THEN Out(g) /\ UNCHANGED openMu  \* ErrAlreadyOpen
     ELSE Goto(g, "init") /\ openMu' = g /\ UNCHANGED op
  /\ UNCHANGED <<open, runtime, finalized, known, interps, registry, stack>>

(* Py_InitializeFromConfig *)
Initialize(g) ==
  /\ pc[g] = "init"
  /\ runtime' = op[g].in
  /\ Goto(g, "redirect")
  /\ UNCHANGED <<openMu, open, finalized, known, interps, registry, op, stack>>

(* redirect registers the writer behind sys.stdout or sys.stderr. *)
Redirect(g) ==
  /\ pc[g] = "redirect"
  /\ AddHost(op[g].in)
  /\ UNCHANGED <<process, interps, calls>>

NewDone(g) ==
  /\ pc[g] = "redirect"
  /\ open' = op[g].in /\ known' = known \cup {op[g].in}
  /\ openMu' = Nobody
  /\ Out(g)
  /\ UNCHANGED <<runtime, finalized, interps, registry, stack>>

(* initialize returns an error, or C code panics. *)
NewFails(g) ==
  /\ pc[g] \in {"init", "redirect"}
  /\ openMu' = Nobody
  /\ Out(g)
  /\ UNCHANGED <<open, runtime, finalized, known, interps, registry, stack>>

-----------------------------------------------------------------------------
(* The other methods *)

StartCall(g, i) ==
  /\ i \in known
  /\ Begin(g, "call", i, "enter")
  /\ UNCHANGED <<process, interps, registry, stack>>

StartClose(g, i) ==
  /\ i \in known
  /\ Begin(g, "close", i, "closeLock")
  /\ UNCHANGED <<process, interps, registry, stack>>

CloseLock(g) ==
  /\ pc[g] = "closeLock"
  /\ openMu = Nobody
  /\ openMu' = g
  /\ Goto(g, "enter")
  /\ UNCHANGED <<open, runtime, finalized, known, interps, registry, op, stack>>

(* enter() finds depth at zero, and goes to in.mu, which another may still  *)
(* lock first.                                                              *)
Wait(g) ==
  /\ pc[g] = "enter" /\ ~Locked(op[g].in)
  /\ Goto(g, "lock")
  /\ UNCHANGED <<process, interps, registry, op, stack>>

(* enter() comes to its check(): it has locked in.mu, or found depth > 0. *)
ByLock(g) == pc[g] = "lock" /\ ~Locked(op[g].in)
ByDepth(g) == pc[g] = "enter" /\ Locked(op[g].in)

(* enter() lets the method in; Close marks the interpreter. *)
Enter(g) ==
  LET i == op[g].in IN
  /\ ByLock(g) \/ (ByDepth(g) /\ mu[i] = g)
  /\ ~closed[i] /\ ~crashed[i]
  /\ mu' = [mu EXCEPT ![i] = g]
  /\ op' = [op EXCEPT ![g].took = ByLock(g)]
  /\ IF op[g].m = "close"
     THEN /\ closed' = [closed EXCEPT ![i] = TRUE]
          /\ open' = Freed(i)
          /\ Goto(g, "finalize")
     ELSE Goto(g, "body") /\ UNCHANGED <<closed, open>>
  /\ UNCHANGED <<openMu, runtime, finalized, known, leaked, crashed, registry, stack>>

(* enter() reports that it is closed or crashed, after depth.Add(1): with   *)
(* depth > 0 nobody takes that back, as call and Close return without       *)
(* leave().  Close of a crashed one still stops it from blocking New.       *)
Refused(g) ==
  LET i == op[g].in IN
  /\ ByLock(g) \/ ByDepth(g)
  /\ closed[i] \/ crashed[i]
  /\ leaked' = [leaked EXCEPT ![i] = @ \/ ByDepth(g)]
  /\ IF op[g].m = "close"
     THEN /\ openMu' = Nobody
          /\ open' = IF crashed[i] THEN Freed(i) ELSE open
          /\ closed' = [closed EXCEPT ![i] = TRUE]
     ELSE UNCHANGED <<openMu, open, closed>>
  /\ Out(g)
  /\ UNCHANGED <<runtime, finalized, known, mu, crashed, registry, stack>>

(* NewFunc, Func, or Set of a Go function. *)
Register(g) ==
  /\ pc[g] = "body"
  /\ AddHost(op[g].in)
  /\ UNCHANGED <<process, interps, calls>>

(* C code calls a host function it still finds registered; of one that it   *)
(* does not find, hostTrampoline makes a RuntimeError.                      *)
CallHost(g, id) ==
  /\ pc[g] \in {"body", "finalize"}
  /\ Len(stack[g]) < MaxNest
  /\ id \in hostIDs[op[g].in] /\ hostReg[id] # None
  /\ stack' = [stack EXCEPT ![g] = <<[op |-> op[g], at |-> pc[g]]>> \o @]
  /\ Goto(g, "out")
  /\ UNCHANGED <<process, interps, registry, op>>

HostReturn(g) ==
  /\ pc[g] = "out" /\ stack[g] # << >>
  /\ Goto(g, Head(stack[g]).at)
  /\ op' = [op EXCEPT ![g] = Head(stack[g]).op]
  /\ stack' = [stack EXCEPT ![g] = Tail(@)]
  /\ UNCHANGED <<process, interps, registry>>

BodyDone(g) ==
  /\ pc[g] = "body"
  /\ Leave(g)
  /\ Out(g)
  /\ UNCHANGED <<process, leaked, closed, crashed, registry, stack>>

(* A crash; an exit panic returns from the body as BodyDone does. *)
BodyPanic(g) ==
  /\ pc[g] = "body"
  /\ crashed' = [crashed EXCEPT ![op[g].in] = TRUE]
  /\ Leave(g)
  /\ Out(g)
  /\ UNCHANGED <<process, leaked, closed, registry, stack>>

(* Py_FinalizeEx *)
Finalize(g) ==
  /\ pc[g] = "finalize"
  /\ runtime' = None /\ finalized' = finalized \cup {op[g].in}
  /\ Goto(g, "forget")
  /\ UNCHANGED <<openMu, open, known, interps, registry, op, stack>>

(* C code panics under Py_FinalizeEx: a crash, or an exit, which marks       *)
(* nothing. The registry keeps the host functions either way.               *)
FinalizePanic(g) ==
  /\ pc[g] = "finalize"
  /\ \E exits \in BOOLEAN :
       crashed' = [crashed EXCEPT ![op[g].in] = @ \/ ~exits]
  /\ Leave(g) /\ openMu' = Nobody
  /\ Out(g)
  /\ UNCHANGED <<open, runtime, finalized, known, leaked, closed, registry, stack>>

(* Close takes the host functions out of the registry, and its defers free  *)
(* mu and then openMu.                                                      *)
Forget(g) ==
  /\ pc[g] = "forget"
  /\ hostReg' = [id \in Ids |-> IF id \in hostIDs[op[g].in] THEN None ELSE hostReg[id]]
  /\ Leave(g) /\ openMu' = Nobody
  /\ Out(g)
  /\ UNCHANGED <<open, runtime, finalized, known, leaked, closed, crashed, hostIDs, hostNext, stack>>

-----------------------------------------------------------------------------

Step(g) ==
  \/ NewLock(g) \/ Initialize(g) \/ NewDone(g) \/ NewFails(g)
  \/ CloseLock(g) \/ Wait(g) \/ Enter(g) \/ Refused(g)
  \/ BodyDone(g) \/ BodyPanic(g)
  \/ Finalize(g) \/ FinalizePanic(g) \/ Forget(g)

Next ==
  \E g \in Goroutines :
    \/ Step(g)
    \/ Redirect(g) \/ Register(g)
    \/ \E i \in Interps : StartNew(g, i) \/ StartCall(g, i) \/ StartClose(g, i)
    \/ \E id \in Ids : CallHost(g, id)
    \/ HostReturn(g)

Spec == Init /\ [][Next]_vars

(* Initialization, Python code and host functions terminate, and a mutex    *)
(* starves nobody who waits for it.                                         *)
Fairness ==
  \A g \in Goroutines :
    /\ \A n \in 0..MaxNest : SF_vars(Len(stack[g]) = n /\ Step(g))
    /\ \A n \in 1..MaxNest : SF_vars(Len(stack[g]) = n /\ HostReturn(g))

FairSpec == Spec /\ Fairness

-----------------------------------------------------------------------------

(* "Only one Interpreter can be open per process": what New has returned    *)
(* and Close has not been called for is the one that makes New fail.        *)
OneInterpreter == \A i \in known : ~closed[i] => open = i

(* No New or Close of another one, late or failing, touches the CPython     *)
(* state of an interpreter in use.                                          *)
RuntimeIsItsOwn == \A i \in known : ~closed[i] /\ ~crashed[i] => runtime = i

(* Until its Py_FinalizeEx is over, C code finds the host functions of its  *)
(* interpreter registered, and as that interpreter's.                       *)
CallbacksReach ==
  \A g \in Goroutines :
    pc[g] \in {"body", "finalize"} =>
      \A id \in hostIDs[op[g].in] : hostReg[id] = op[g].in

(* A Close that got through Py_FinalizeEx leaves no Go closure of its       *)
(* interpreter behind: none could be called again, or ever collected.       *)
NothingLeftBehind ==
  \A i \in finalized :
    (\A g \in Goroutines : pc[g] = "forget" => op[g].in # i) => \A id \in Ids : hostReg[id] # i

(* While one of its frames waits for a host function, or runs, the CPython  *)
(* state of an interpreter is not finalized: a Close waits for all of them, *)
(* unless it is a host function of theirs that calls it.  (That of a crashed *)
(* one does not wait, and then New starts another under its frames.)        *)
FramesHaveRuntime ==
  \A g \in Goroutines :
    /\ pc[g] = "body" /\ ~crashed[op[g].in] => runtime = op[g].in
    /\ \A k \in 1..Len(stack[g]) :
         stack[g][k].at = "body" /\ ~crashed[stack[g][k].op.in] => runtime = stack[g][k].op.in

(* In mu.Lock of an interpreter whose mu nobody will unlock. *)
Stuck(g) == pc[g] = "lock" /\ leaked[op[g].in]

(* Whatever waits for openMu or mu gets it: their order, openMu before mu,  *)
(* leaves no cycle.  What can go wrong is a leak of depth: whoever was in   *)
(* mu.Lock then stays there, a Close with openMu, which New and Close of    *)
(* any interpreter then wait for.                                           *)
LocksAreFreed ==
  \A g \in Goroutines :
    pc[g] \in {"newLock", "closeLock", "enter", "lock"} ~>
      (pc[g] = "out" \/ Stuck(g) \/ (pc[g] \in {"newLock", "closeLock"} /\ \E h \in Goroutines : Stuck(h)))

=============================================================================
