-------------------------------- MODULE Gate --------------------------------
(***************************************************************************)
(* The gate of an Interpreter: enter, leave, check and drain of cpython.go *)
(* and the panic conversion of errors.go, one atomic operation of the Go   *)
(* code per action.  Goroutines call the methods of one interpreter; a     *)
(* method's C code may call back a Go host function, whose goroutine may   *)
(* call methods again before it returns.                                   *)
(*                                                                         *)
(* Every method falls in one of three groups, by what its panics do:       *)
(*   "call"     the methods that run through call/do                       *)
(*   "release"  Object.Release, which swallows a panic                     *)
(*   "close"    Interpreter.Close, which sets closed                       *)
(***************************************************************************)
EXTENDS Integers, Sequences, FiniteSets

CONSTANTS
  Goroutines,   \* the goroutines of the application
  MaxNest,      \* how many host functions one goroutine may be inside
  MaxDepth,     \* no method is called once depth has reached this bound
  HostMethods,  \* the methods its host functions call
  HostIn,       \* where C code may call a host function
  PanicIn       \* where C code may panic

Methods == {"call", "release", "close"}
Phases == {"drain", "body"}

ASSUME GateAssumption ==
  /\ IsFiniteSet(Goroutines)
  /\ MaxNest \in Nat
  /\ MaxDepth \in Nat
  /\ HostMethods \subseteq Methods
  /\ HostIn \subseteq Phases
  /\ PanicIn \subseteq Phases

VARIABLES
  mu,        \* in.mu is locked; a Go mutex does not know by whom
  depth,     \* in.depth
  closed,    \* in.closed
  crashed,   \* in.crashed
  pc,        \* what the innermost method of a goroutine does next
  method,    \* which method that is
  stack,     \* its methods suspended in a host function, innermost first
  fatal,     \* the Go runtime stopped the process: unlock of unlocked mutex
  strayed    \* history: an outermost call on a healthy interpreter was
             \* taken for a call out of a host function

flags == <<closed, crashed>>
vars == <<mu, depth, flags, pc, method, stack, fatal, strayed>>

(* "out" is application code: a host function when the stack is not empty.  *)
PCs == {"out", "nest", "nestCheck", "lock", "add", "check", "refused",
        "drain", "body", "leave", "unlock"}
Frames == [method : Methods, at : Phases]

TypeOK ==
  /\ mu \in BOOLEAN
  /\ depth \in Nat
  /\ closed \in BOOLEAN
  /\ crashed \in BOOLEAN
  /\ pc \in [Goroutines -> PCs]
  /\ method \in [Goroutines -> Methods]
  /\ stack \in [Goroutines -> Seq(Frames)]
  /\ fatal \in BOOLEAN
  /\ strayed \in BOOLEAN

Init ==
  /\ mu = FALSE
  /\ depth = 0
  /\ closed = FALSE
  /\ crashed = FALSE
  /\ pc = [g \in Goroutines |-> "out"]
  /\ method = [g \in Goroutines |-> "call"]
  /\ stack = [g \in Goroutines |-> << >>]
  /\ fatal = FALSE
  /\ strayed = FALSE

-----------------------------------------------------------------------------

Outermost(g) == stack[g] = << >>
Idle(g) == pc[g] = "out" /\ Outermost(g)

(* check() reports an error. *)
Poisoned == crashed \/ closed

(* Every action moves its goroutine on, as long as the process is alive. *)
Goto(g, l) == ~fatal /\ pc' = [pc EXCEPT ![g] = l]

(* It goes on with its method, or comes out of it; outside there is none,   *)
(* which "call" stands for too.                                             *)
Move(g, l) ==
  /\ Goto(g, l)
  /\ method' = [method EXCEPT ![g] = IF l = "out" THEN "call" ELSE @]

(* The method reaches the statements that follow enter(); those of Close    *)
(* begin with in.closed = true.                                             *)
Admit(g) ==
  /\ Move(g, "body")
  /\ closed' = (closed \/ method[g] = "close")
  /\ UNCHANGED crashed

(* enter() has failed.  Close alone does something then: on a crashed       *)
(* interpreter it sets closed, here together with the check that failed     *)
(* (crashed decides what every other check() answers).                      *)
Refuse(g, l) ==
  /\ Move(g, l)
  /\ closed' = (closed \/ method[g] = "close")
  /\ UNCHANGED crashed

(* Mistakes these actions could make; the runs show that their properties   *)
(* would notice.  Each has the name of the action it replaces.              *)

LockCheckUnchecked(g) ==  \* enter() does not check
  /\ pc[g] = "check"
  /\ Move(g, "drain")
  /\ UNCHANGED <<mu, depth, flags, stack, fatal, strayed>>

LockCheckLeavesTwice(g) ==  \* a failed enter decrements before leave()
  /\ pc[g] = "check"
  /\ IF Poisoned
     THEN Refuse(g, "refused") /\ depth' = depth - 1
     ELSE Move(g, "drain") /\ UNCHANGED <<depth, flags>>
  /\ UNCHANGED <<mu, stack, fatal, strayed>>

LockNoWait(g) ==  \* enter() does not wait for the mutex
  /\ pc[g] = "lock"
  /\ mu' = TRUE
  /\ Move(g, "add")
  /\ UNCHANGED <<depth, flags, stack, fatal, strayed>>

LeaveOffByOne(g) ==  \* leave() compares the value before its decrement
  /\ pc[g] \in {"leave", "refused"}
  /\ depth' = depth - 1
  /\ Move(g, IF depth = 0 THEN "unlock" ELSE "out")
  /\ UNCHANGED <<mu, flags, stack, fatal, strayed>>

(* A method is called; enter() loads depth and takes its caller for a host  *)
(* function's goroutine if it is not zero.                                  *)
Enter(g, m) ==
  /\ pc[g] = "out"
  /\ Outermost(g) \/ m \in HostMethods
  /\ depth < MaxDepth
  /\ method' = [method EXCEPT ![g] = m]
  /\ Goto(g, IF depth > 0 THEN "nest" ELSE "lock")
  /\ strayed' = (strayed \/ (depth > 0 /\ Outermost(g) /\ ~Poisoned))
  /\ UNCHANGED <<mu, depth, flags, stack, fatal>>

(* The branch of enter() for a re-entrant caller.  When check() fails the   *)
(* callers of enter() return without leave().                               *)
NestAdd(g) ==
  /\ pc[g] = "nest"
  /\ depth' = depth + 1
  /\ Move(g, "nestCheck")
  /\ UNCHANGED <<mu, flags, stack, fatal, strayed>>

NestCheck(g) ==
  /\ pc[g] = "nestCheck"
  /\ IF Poisoned THEN Refuse(g, "out") ELSE Admit(g)
  /\ UNCHANGED <<mu, depth, stack, fatal, strayed>>

(* The branch of enter() for an outermost caller. *)
Lock(g) ==
  /\ pc[g] = "lock"
  /\ ~mu
  /\ mu' = TRUE
  /\ Move(g, "add")
  /\ UNCHANGED <<depth, flags, stack, fatal, strayed>>

LockAdd(g) ==
  /\ pc[g] = "add"
  /\ depth' = depth + 1
  /\ Move(g, "check")
  /\ UNCHANGED <<mu, flags, stack, fatal, strayed>>

LockCheck(g) ==
  /\ pc[g] = "check"
  /\ IF Poisoned THEN Refuse(g, "refused") ELSE Move(g, "drain") /\ UNCHANGED flags
  /\ UNCHANGED <<mu, depth, stack, fatal, strayed>>

(* drain() has released what the finalizers queued; enter() returns nil.    *)
DrainDone(g) ==
  /\ pc[g] = "drain"
  /\ Admit(g)
  /\ UNCHANGED <<mu, depth, stack, fatal, strayed>>

(* drain() runs before the deferred leave and recoverPanic exist: a panic   *)
(* leaves the method as a Go panic, with mu and depth as they are.          *)
DrainPanic(g) ==
  /\ pc[g] = "drain"
  /\ "drain" \in PanicIn
  /\ Move(g, "out")
  /\ UNCHANGED <<mu, depth, flags, stack, fatal, strayed>>

(* C code calls a host function: a statement of Exec, or the __del__ of an  *)
(* object that drain, Release or Close lets go.                             *)
CallHost(g) ==
  /\ pc[g] \in HostIn
  /\ Len(stack[g]) < MaxNest
  /\ stack' = [stack EXCEPT ![g] = <<[method |-> method[g], at |-> pc[g]]>> \o @]
  /\ Move(g, "out")
  /\ UNCHANGED <<mu, depth, flags, fatal, strayed>>

HostReturn(g) ==
  /\ pc[g] = "out"
  /\ ~Outermost(g)
  /\ Goto(g, Head(stack[g]).at)
  /\ method' = [method EXCEPT ![g] = Head(stack[g]).method]
  /\ stack' = [stack EXCEPT ![g] = Tail(@)]
  /\ UNCHANGED <<mu, depth, flags, fatal, strayed>>

(* The method's own work is over, by a result, an error, or the exit panic  *)
(* that recoverPanic turns into an ExitError.                               *)
BodyDone(g) ==
  /\ pc[g] = "body"
  /\ Move(g, "leave")
  /\ UNCHANGED <<mu, depth, flags, stack, fatal, strayed>>

(* Any other panic: recoverPanic sets crashed, Release drops it.            *)
BodyPanic(g) ==
  /\ pc[g] = "body"
  /\ "body" \in PanicIn
  /\ crashed' = (crashed \/ method[g] # "release")
  /\ Move(g, "leave")
  /\ UNCHANGED <<mu, depth, closed, stack, fatal, strayed>>

(* leave(), deferred by the method or called by enter() after a failed      *)
(* check: the decrement, then the unlock if it reached zero.  Unlocking a   *)
(* mutex that is not locked is a fatal error of the Go runtime.             *)
Leave(g) ==
  /\ pc[g] \in {"leave", "refused"}
  /\ depth' = depth - 1
  /\ Move(g, IF depth' = 0 THEN "unlock" ELSE "out")
  /\ UNCHANGED <<mu, flags, stack, fatal, strayed>>

Unlock(g) ==
  /\ pc[g] = "unlock"
  /\ mu' = FALSE
  /\ fatal' = ~mu
  /\ Move(g, "out")
  /\ UNCHANGED <<depth, flags, stack, strayed>>

-----------------------------------------------------------------------------

(* What a goroutine does inside a method, its host functions apart. *)
Step(g) ==
  \/ NestAdd(g) \/ NestCheck(g)
  \/ Lock(g) \/ LockAdd(g) \/ LockCheck(g)
  \/ DrainDone(g) \/ DrainPanic(g)
  \/ BodyDone(g) \/ BodyPanic(g)
  \/ Leave(g) \/ Unlock(g)

Next ==
  \E g \in Goroutines :
    \/ Step(g)
    \/ CallHost(g)
    \/ HostReturn(g)
    \/ \E m \in Methods : Enter(g, m)

Spec == Init /\ [][Next]_vars

(* Python code and host functions terminate: C code that may call out again *)
(* and again is done at last, and a host function returns.  A goroutine     *)
(* that can run does; sync.Mutex hands a free lock to one that waits for    *)
(* it (its starvation mode), however often others take it in between.       *)
Fairness ==
  \A g \in Goroutines :
    /\ \A n \in 0..MaxNest : SF_vars(Len(stack[g]) = n /\ Step(g))
    /\ \A n \in 1..MaxNest : SF_vars(Len(stack[g]) = n /\ HostReturn(g))

FairSpec == Spec /\ Fairness

-----------------------------------------------------------------------------

(* The methods g has in progress that depth counts: those suspended in a    *)
(* host function, and the innermost one from its increment to its leave().  *)
Share(g) ==
  Len(stack[g]) +
    IF pc[g] \in {"nestCheck", "check", "refused", "drain", "body", "leave"}
    THEN 1 ELSE 0
InProgress == {c \in Goroutines \X (1..(MaxNest + 1)) : c[2] <= Share(c[1])}

(* depth never falls below the number of calls in progress, however they    *)
(* overlap, fail and panic: reaching zero means that nobody is inside.      *)
DepthCoversCalls == depth >= Cardinality(InProgress)

(* A goroutine has a method past enter() whose C code may run. *)
Inside(g) == pc[g] \in {"drain", "body"} \/ ~Outermost(g)

(* "All of its methods are safe for concurrent use, but calls are           *)
(* serialized": the C code of two goroutines is never in progress at once.  *)
Serialized == \A g, h \in Goroutines : Inside(g) /\ Inside(h) => g = h

(* leave() never unlocks a mutex that is not locked. *)
UnlocksOnlyLocked == ~fatal

(* However calls overlap, mutual exclusion and the mutex survive until      *)
(* depth > 0 has let an outermost call of a healthy interpreter in: that    *)
(* test of enter() is the one place where they can be lost.                 *)
SerializedUnlessStrayed == ~strayed => Serialized /\ UnlocksOnlyLocked

(* What its callers are promised: SerializedCalls, with a goroutine as many  *)
(* levels deep as it has methods past the check of enter(), and until       *)
(* depth > 0 has let an outermost call in.                                  *)
Level == [g \in Goroutines |->
            Len(stack[g]) + IF pc[g] \in {"drain", "body", "leave"} THEN 1 ELSE 0]
Promised == INSTANCE SerializedCalls WITH level <- Level, dead <- Poisoned
ImplementsSerializedCalls ==
  Promised!Init /\ [][strayed' \/ Promised!Next]_(Promised!vars)

(* depth is higher than the calls in progress: a nested enter() failed, or  *)
(* drain() panicked.                                                        *)
Leaked == depth > Cardinality(InProgress)

(* Every outermost call returns, if the Go runtime does not stop first: one *)
(* that does not waits in mu.Lock, after a leak of depth or a stray call.   *)
CallsReturn ==
  \A g \in Goroutines :
    ~Idle(g) ~> (Idle(g) \/ fatal \/ (pc[g] = "lock" /\ (Leaked \/ strayed)))

=============================================================================
