----------------------------- MODULE Interrupts -----------------------------
(***************************************************************************)
(* Interrupt and context cancellation (watch, Interrupt, Exec of           *)
(* cpython.go), with the part of the transpiled signal module they write   *)
(* to while another goroutine runs Python code: trip_signal on one side,   *)
(* the eval loop's handle_signals and PyErr_CheckSignals on the other,     *)
(* with no lock between them.                                              *)
(*                                                                         *)
(* One goroutine makes the calls (the promise of SerializedCalls), each    *)
(* with its context; watchers and callers of Interrupt run beside it.      *)
(***************************************************************************)
EXTENDS Naturals, Sequences, FiniteSets

CONSTANTS
  Calls,        \* calls of Exec, Eval, ExecFile; each is made once
  Contexts,     \* contexts that can be cancelled
  NoContext,    \* a nil one, or one that cannot be
  CtxOf,        \* the context of each call
  Direct,       \* direct calls of Interrupt; each is made once
  NoAgent,      \* nobody holds imu
  MaxNest,      \* how many calls may be in progress, one in the other
  MaxGen,       \* how many interpreters are opened, one after the other
  Catches,      \* Python code may catch KeyboardInterrupt and go on
  Swallows,     \* a host function may drop the error of its own call
  Ignores       \* Python code may set SIGINT to SIG_IGN and back

Agents == Calls \cup Direct  \* who calls Interrupt: the watcher of a call, or the application

ASSUME InterruptsAssumption ==
  /\ CtxOf \in [Calls -> Contexts \cup {NoContext}]
  /\ NoContext \notin Contexts
  /\ NoAgent \notin Agents
  /\ Calls \cap Direct = {}
  /\ IsFiniteSet(Agents)
  /\ MaxNest \in Nat /\ MaxGen \in Nat \ {0}
  /\ {Catches, Swallows, Ignores} \subseteq BOOLEAN

VARIABLES
  cancelled,  \* the contexts that are
  stack,      \* the calls in progress, innermost first, and where each is
  ended,      \* the calls that returned, and closed done of watch
  ipc,        \* where each agent is
  own,        \* the interpreter it is about to interrupt
  imu,        \* who holds the in.imu of each interpreter
  gen, phase, \* which interpreter is open, or was last; "open" to "closed"
  handler,    \* of SIGINT
  tripped, isTripped, breaker,  \* the signal's flag, everybody's, the eval loop's
  by,         \* whose requests the signal's flag stands for
  raised,     \* how many KeyboardInterrupts the handler raised
  spared      \* history: Python code or a host function declined one

calls == <<stack, ended>>
agents == <<ipc, own, imu>>
interp == <<gen, phase>>
history == <<raised, spared>>
bits == <<tripped, isTripped, breaker, by>>
vars == <<cancelled, calls, agents, interp, handler, bits, history>>

Places == {"run", "check", "scan", "raise", "ki", "host", "hosterr"}

TypeOK ==
  /\ cancelled \subseteq Contexts
  /\ stack \in Seq([call : Calls, at : Places])
  /\ ended \subseteq Calls
  /\ ipc \in [Agents -> {"idle", "select", "lock", "check", "handler", "trip",
                         "is", "breaker", "unlock", "gone"}]
  /\ own \in [Agents -> 0..MaxGen]
  /\ imu \in [0..MaxGen -> Agents \cup {NoAgent}]
  /\ gen \in 0..MaxGen
  /\ phase \in {"open", "closing", "closed", "opening"}
  /\ handler \in {"int", "ign", "null"}
  /\ {tripped, isTripped, breaker} \subseteq BOOLEAN
  /\ by \subseteq Agents
  /\ raised \in 0..Cardinality(Agents)
  /\ spared \in BOOLEAN

Init ==
  /\ cancelled = {} /\ stack = << >> /\ ended = {}
  /\ ipc = [a \in Agents |-> "idle"] /\ own = [a \in Agents |-> 0]
  /\ imu = [g \in 0..MaxGen |-> NoAgent]
  /\ gen = 1 /\ phase = "open"
  /\ handler = "int"
  /\ tripped = FALSE /\ isTripped = FALSE /\ breaker = FALSE /\ by = {}
  /\ raised = 0 /\ spared = FALSE

-----------------------------------------------------------------------------

Calling(c) == \E i \in 1..Len(stack) : stack[i].call = c
At(l) == stack # << >> /\ Head(stack).at = l
Goto(l) == stack' = [stack EXCEPT ![1].at = l]
AgentGoto(a, l) == ipc' = [ipc EXCEPT ![a] = l]
Closed(g) == g < gen \/ phase # "open"  \* in.closed of interpreter g

-----------------------------------------------------------------------------
(* Mistakes these actions could make; the runs show that their properties   *)
(* would notice.                                                            *)

LockImuNoWait(a) ==  \* Interrupt without imu
  /\ ipc[a] = "lock"
  /\ imu' = [imu EXCEPT ![own[a]] = a]
  /\ AgentGoto(a, "check")
  /\ UNCHANGED <<cancelled, calls, own, interp, handler, bits, history>>

IsOnly(a) ==  \* trip_signal does not call _PyEval_SignalReceived
  /\ ipc[a] = "is"
  /\ isTripped' = TRUE
  /\ AgentGoto(a, "unlock")
  /\ UNCHANGED <<cancelled, calls, own, imu, interp, handler, tripped, breaker, by, history>>

HostReturnDrops ==  \* callHost does not raise the error again
  /\ At("host") \/ At("hosterr")
  /\ Goto("run")
  /\ UNCHANGED <<cancelled, ended, agents, interp, handler, bits, history>>

ScanNotCleared ==  \* PyErr_CheckSignals leaves the signal's flag
  /\ At("scan")
  /\ IF tripped /\ handler = "int"
     THEN Goto("raise") /\ raised' = raised + 1
     ELSE Goto("run") /\ UNCHANGED raised
  /\ UNCHANGED <<spared, cancelled, ended, agents, interp, handler, bits>>

EndNoStop ==  \* watch's done is not closed
  /\ At("run") \/ At("ki")
  /\ LET rest == Tail(stack) IN
     stack' = IF rest # << >> /\ At("ki") THEN [rest EXCEPT ![1].at = "hosterr"] ELSE rest
  /\ UNCHANGED <<cancelled, ended, agents, interp, handler, bits, history>>

-----------------------------------------------------------------------------
(* The goroutine that calls into the interpreter.                           *)

(* Exec, from outside or from a host function, up to the first bytecode.    *)
(* Its watcher starts if its context can be cancelled.                      *)
Begin(c) ==
  /\ phase = "open"
  /\ stack = << >> \/ At("host")
  /\ Len(stack) < MaxNest
  /\ c \notin ended /\ ~Calling(c)
  /\ stack' = <<[call |-> c, at |-> "run"]>> \o stack
  /\ IF CtxOf[c] = NoContext THEN UNCHANGED <<ipc, own>>
     ELSE AgentGoto(c, "select") /\ own' = [own EXCEPT ![c] = gen]
  /\ UNCHANGED <<cancelled, ended, imu, interp, handler, bits, history>>

(* The code is over, or ends with KeyboardInterrupt; done is closed and the *)
(* call returns, to the host function that made it with an error or not.    *)
End ==
  /\ At("run") \/ At("ki")
  /\ ended' = ended \cup {Head(stack).call}
  /\ LET rest == Tail(stack) IN
     stack' = IF rest # << >> /\ At("ki") THEN [rest EXCEPT ![1].at = "hosterr"] ELSE rest
  /\ UNCHANGED <<cancelled, agents, interp, handler, bits, history>>

CallHost ==
  /\ At("run")
  /\ Len(stack) < MaxNest
  /\ Goto("host")
  /\ UNCHANGED <<cancelled, ended, agents, interp, handler, bits, history>>

(* callHost raises again the error of a call that its function returns. *)
HostReturn ==
  /\ \/ At("host") /\ Goto("run") /\ UNCHANGED spared
     \/ At("hosterr") /\ Goto("ki") /\ UNCHANGED spared
     \/ At("hosterr") /\ Swallows /\ Goto("run") /\ spared' = TRUE
  /\ UNCHANGED <<cancelled, ended, agents, interp, handler, bits, raised>>

(* Python code calls signal.signal. *)
SetHandler ==
  /\ At("run") /\ Ignores
  /\ handler' \in {"int", "ign"}
  /\ spared' = (spared \/ handler' = "ign")
  /\ UNCHANGED <<cancelled, calls, agents, interp, bits, raised>>

(* The eval loop finds its breaker set and clears it. *)
SeeBreaker ==
  /\ At("run") /\ breaker
  /\ breaker' = FALSE
  /\ Goto("check")
  /\ UNCHANGED <<cancelled, ended, agents, interp, handler, tripped, isTripped, by, history>>

CheckIs ==
  /\ At("check")
  /\ isTripped' = FALSE
  /\ Goto(IF isTripped THEN "scan" ELSE "run")
  /\ UNCHANGED <<cancelled, ended, agents, interp, handler, tripped, breaker, by, history>>

(* A tripped signal is taken and its handler called; an ignored one is only *)
(* reported.                                                                *)
Scan ==
  /\ At("scan")
  /\ tripped' = FALSE /\ by' = {}
  /\ IF tripped /\ handler = "int"
     THEN Goto("raise") /\ raised' = raised + 1
     ELSE Goto("run") /\ UNCHANGED raised
  /\ UNCHANGED <<spared, cancelled, ended, agents, interp, handler, isTripped, breaker>>

(* The handler raised: the check is scheduled again. *)
Raise ==
  /\ At("raise")
  /\ isTripped' = TRUE /\ breaker' = TRUE
  /\ \/ Goto("ki") /\ UNCHANGED spared
     \/ Catches /\ Goto("run") /\ spared' = TRUE
  /\ UNCHANGED <<cancelled, ended, agents, interp, handler, tripped, by, raised>>

(* Close: in.closed, then Py_FinalizeEx, whose own Python code is left out. *)
Close ==
  /\ stack = << >> /\ phase = "open"
  /\ phase' = "closing"
  /\ UNCHANGED <<cancelled, calls, agents, gen, handler, bits, history>>

SignalFini ==
  /\ phase = "closing"
  /\ phase' = "closed"
  /\ tripped' = FALSE /\ by' = {}
  /\ handler' = "null"
  /\ UNCHANGED <<cancelled, calls, agents, gen, isTripped, breaker, history>>

(* New: the runtime state is reset, then the signal module set up. *)
NewReset ==
  /\ phase = "closed" /\ gen < MaxGen
  /\ gen' = gen + 1 /\ phase' = "opening"
  /\ tripped' = FALSE /\ isTripped' = FALSE /\ breaker' = FALSE /\ by' = {}
  /\ UNCHANGED <<cancelled, calls, agents, handler, history>>

SignalInit ==
  /\ phase = "opening"
  /\ phase' = "open"
  /\ tripped' = FALSE /\ by' = {}
  /\ handler' = "int"
  /\ UNCHANGED <<cancelled, calls, agents, gen, isTripped, breaker, history>>

-----------------------------------------------------------------------------
(* Watchers and the callers of Interrupt.                                   *)

Cancel(x) ==
  /\ x \notin cancelled
  /\ cancelled' = cancelled \cup {x}
  /\ UNCHANGED <<calls, agents, interp, handler, bits, history>>

(* select takes either case if both are ready. *)
Fire(c) ==
  /\ ipc[c] = "select" /\ CtxOf[c] \in cancelled
  /\ AgentGoto(c, "lock")
  /\ UNCHANGED <<cancelled, calls, own, imu, interp, handler, bits, history>>

Stop(c) ==
  /\ ipc[c] = "select" /\ c \in ended
  /\ AgentGoto(c, "gone")
  /\ UNCHANGED <<cancelled, calls, own, imu, interp, handler, bits, history>>

Ask(d) ==
  /\ ipc[d] = "idle" /\ phase = "open"
  /\ AgentGoto(d, "lock")
  /\ own' = [own EXCEPT ![d] = gen]
  /\ UNCHANGED <<cancelled, calls, imu, interp, handler, bits, history>>

LockImu(a) ==
  /\ ipc[a] = "lock" /\ imu[own[a]] = NoAgent
  /\ imu' = [imu EXCEPT ![own[a]] = a]
  /\ AgentGoto(a, "check")
  /\ UNCHANGED <<cancelled, calls, own, interp, handler, bits, history>>

Check(a) ==
  /\ ipc[a] = "check"
  /\ AgentGoto(a, IF Closed(own[a]) THEN "unlock" ELSE "handler")
  /\ UNCHANGED <<cancelled, calls, own, imu, interp, handler, bits, history>>

(* PyErr_SetInterruptEx: nothing if SIGINT is ignored.  No handler at all,  *)
(* after _PySignal_Fini, does not stop it.                                  *)
SetInterrupt(a) ==
  /\ ipc[a] = "handler"
  /\ AgentGoto(a, IF handler = "ign" THEN "unlock" ELSE "trip")
  /\ UNCHANGED <<cancelled, calls, own, imu, interp, handler, bits, history>>

Trip(a) ==
  /\ ipc[a] = "trip"
  /\ tripped' = TRUE /\ by' = by \cup {a}
  /\ AgentGoto(a, "is")
  /\ UNCHANGED <<cancelled, calls, own, imu, interp, handler, isTripped, breaker, history>>

Is(a) ==
  /\ ipc[a] = "is"
  /\ isTripped' = TRUE
  /\ AgentGoto(a, "breaker")
  /\ UNCHANGED <<cancelled, calls, own, imu, interp, handler, tripped, breaker, by, history>>

Breaker(a) ==
  /\ ipc[a] = "breaker"
  /\ breaker' = TRUE
  /\ AgentGoto(a, "unlock")
  /\ UNCHANGED <<cancelled, calls, own, imu, interp, handler, tripped, isTripped, by, history>>

UnlockImu(a) ==
  /\ ipc[a] = "unlock"
  /\ imu' = [imu EXCEPT ![own[a]] = NoAgent]
  /\ AgentGoto(a, "gone")
  /\ UNCHANGED <<cancelled, calls, own, interp, handler, bits, history>>

-----------------------------------------------------------------------------

AgentStep(a) ==
  \/ LockImu(a) \/ Check(a) \/ SetInterrupt(a)
  \/ Trip(a) \/ Is(a) \/ Breaker(a) \/ UnlockImu(a)

EvalLoop == SeeBreaker \/ CheckIs \/ Scan \/ Raise

Next ==
  \/ \E c \in Calls : Begin(c) \/ Fire(c) \/ Stop(c)
  \/ \E x \in Contexts : Cancel(x)
  \/ \E d \in Direct : Ask(d)
  \/ \E a \in Agents : AgentStep(a)
  \/ EvalLoop \/ End \/ CallHost \/ HostReturn \/ SetHandler
  \/ Close \/ SignalFini \/ NewReset \/ SignalInit

Spec == Init /\ [][Next]_vars

(* Go schedules every goroutine, the eval loop looks at its breaker again   *)
(* and again, and KeyboardInterrupt ends code that does not catch it.       *)
(* Python code need not end by itself.  Each agent takes imu once, so that  *)
(* none needs a mutex that does not starve it.                              *)
Fairness ==
  /\ \A c \in Calls : WF_vars(Fire(c)) /\ WF_vars(Stop(c))
  /\ \A a \in Agents : WF_vars(AgentStep(a))
  /\ SF_vars(SeeBreaker) /\ WF_vars(CheckIs \/ Scan \/ Raise)
  /\ WF_vars(At("ki") /\ End) /\ WF_vars(HostReturn)

FairSpec == Spec /\ Fairness

-----------------------------------------------------------------------------

Interrupting == {a \in Agents : ipc[a] \in {"check", "handler", "trip", "is", "breaker", "unlock"}}

(* One goroutine at a time runs C code on the itls of an interpreter, whose *)
(* alloca stack is not made for two; the goroutines of two interpreters,    *)
(* each with its imu and itls, may meet in the signal module.               *)
OneOnItls == \A a, b \in Interrupting : own[a] = own[b] => a = b

(* A request that has set the signal's flag is never left lying: the eval   *)
(* loop's breaker and is_tripped are set too, or someone is about to set or *)
(* to look at them.  This is what the order of the stores of trip_signal,   *)
(* and of the clears of handle_signals and PyErr_CheckSignals, is for.      *)
TrippedIsSeen ==
  tripped /\ phase = "open" =>
    /\ breaker \/ At("check") \/ At("scan") \/ At("raise") \/ \E a \in Agents : ipc[a] \in {"is", "breaker"}
    /\ isTripped \/ At("scan") \/ At("raise") \/ \E a \in Agents : ipc[a] = "is"

(* However the requests fall together, none raises two KeyboardInterrupts,  *)
(* though every one raised makes the eval loop look once more.              *)
OneRaisePerRequest ==
  raised + (IF tripped THEN 1 ELSE 0)
    <= Cardinality({a \in Agents : ipc[a] \in {"is", "breaker", "unlock", "gone"}})

(* "context cancellation ... stop[s] long running code with a               *)
(* KeyboardInterrupt" (doc.go): a cancelled call ends, even if its code     *)
(* never would, unless that code catches KeyboardInterrupt or ignores       *)
(* SIGINT, or a host function drops the error of its own call.              *)
CancelStops ==
  \A c \in Calls : Calling(c) /\ CtxOf[c] \in cancelled ~> (~Calling(c) \/ spared)

(* "The watcher goroutine is gone" after its call (TestContextCancel). *)
WatchersEnd == \A c \in Calls : ipc[c] = "select" /\ ~Calling(c) ~> ipc[c] = "gone"

(* The call that agent a is to interrupt is in progress; the application's  *)
(* own Interrupt is for whatever runs in its interpreter.                   *)
Meant(a) ==
  IF a \in Direct THEN own[a] = gen
  ELSE \E c \in Calls : Calling(c) /\ CtxOf[c] = CtxOf[a]

(* KeyboardInterrupt is raised in code that somebody meant to interrupt:    *)
(* the watcher of a call is stopped "before the API call returns".          *)
OnlyTheMeant == [][raised' # raised => \E a \in by : Meant(a)]_vars

=============================================================================
