-------------------------- MODULE InterruptsProofs ---------------------------
(***************************************************************************)
(* Theorems about Interrupts, for any number of calls, contexts, direct    *)
(* interrupts and interpreters, whatever Python code and host functions do *)
(* with a KeyboardInterrupt.                                               *)
(***************************************************************************)
EXTENDS Interrupts, FiniteSetTheorems, TLAPS

Frame == [call : Calls, at : Places]
AgentPlaces == {"idle", "select", "lock", "check", "handler", "trip",
                "is", "breaker", "unlock", "gone"}

StackOK == stack \in Seq(Frame) /\ ended \subseteq Calls

AgentsOK ==
  /\ ipc \in [Agents -> AgentPlaces]
  /\ own \in [Agents -> 0..MaxGen]
  /\ imu \in [0..MaxGen -> Agents \cup {NoAgent}]

InterpOK ==
  /\ cancelled \subseteq Contexts
  /\ gen \in 0..MaxGen
  /\ phase \in {"open", "closing", "closed", "opening"}
  /\ handler \in {"int", "ign", "null"}

BitsOK ==
  /\ tripped \in BOOLEAN /\ isTripped \in BOOLEAN /\ breaker \in BOOLEAN
  /\ by \subseteq Agents
  /\ raised \in Nat
  /\ spared \in BOOLEAN

(* Who is past the lock of Interrupt holds that of its interpreter. *)
HoldsImu == \A a \in Interrupting : imu[own[a]] = a

(* A call has a watcher only once it has begun: none is started twice.      *)
WatchedHasBegun ==
  \A c \in Calls : ipc[c] # "idle" => Calling(c) \/ c \in ended

(* TrippedIsSeen, in whatever phase the interpreter is. *)
Seen ==
  tripped =>
    /\ breaker \/ At("check") \/ At("scan") \/ At("raise") \/ \E a \in Agents : ipc[a] \in {"is", "breaker"}
    /\ isTripped \/ At("scan") \/ At("raise") \/ \E a \in Agents : ipc[a] = "is"

(* The requests that have set the flag, or that will not. *)
Past == {a \in Agents : ipc[a] \in {"is", "breaker", "unlock", "gone"}}

IInv ==
  /\ StackOK /\ AgentsOK /\ InterpOK /\ BitsOK
  /\ HoldsImu
  /\ WatchedHasBegun
  /\ Seen
  /\ OneRaisePerRequest

-----------------------------------------------------------------------------

CallsOf(s) == {s[i].call : i \in 1..Len(s)}

(* A new call is the innermost one. *)
LEMMA Push ==
  ASSUME NEW s \in Seq(Frame), NEW f \in Frame
  PROVE  /\ <<f>> \o s \in Seq(Frame)
         /\ <<f>> \o s # << >>
         /\ Head(<<f>> \o s) = f
         /\ CallsOf(<<f>> \o s) = CallsOf(s) \cup {f.call}
<1> DEFINE t == <<f>> \o s
<1>1. t \in Seq(Frame) /\ t # << >> /\ Head(t) = f /\ Len(t) = Len(s) + 1
  OBVIOUS
<1>2. t[1] = f /\ \A i \in 1..Len(s) : t[i + 1] = s[i]
  OBVIOUS
<1>3. CallsOf(t) \subseteq CallsOf(s) \cup {f.call}
  <2> SUFFICES ASSUME NEW i \in 1..Len(t), i # 1 PROVE t[i].call \in CallsOf(s)
    BY <1>2 DEF CallsOf
  <2>1. i - 1 \in 1..Len(s) /\ (i - 1) + 1 = i
    BY <1>1
  <2> QED
    BY <1>2, <2>1 DEF CallsOf
<1>4. CallsOf(s) \cup {f.call} \subseteq CallsOf(t)
  <2>1. f.call \in CallsOf(t)
    BY <1>1, <1>2 DEF CallsOf
  <2>2. ASSUME NEW i \in 1..Len(s) PROVE s[i].call \in CallsOf(t)
    <3>1. i + 1 \in 1..Len(t)
      BY <1>1
    <3> QED
      BY <1>2, <3>1 DEF CallsOf
  <2> QED
    BY <2>1, <2>2 DEF CallsOf
<1> QED
  BY <1>1, <1>3, <1>4

(* A change of place keeps the calls. *)
LEMMA Relabel ==
  ASSUME NEW s \in Seq(Frame), s # << >>, NEW l \in Places
  PROVE  /\ [s EXCEPT ![1].at = l] \in Seq(Frame)
         /\ [s EXCEPT ![1].at = l] # << >>
         /\ Head([s EXCEPT ![1].at = l]).at = l
         /\ CallsOf([s EXCEPT ![1].at = l]) = CallsOf(s)
<1> DEFINE t == [s EXCEPT ![1].at = l]
<1>1. 1 \in 1..Len(s) /\ s[1] \in Frame
  OBVIOUS
<1>2. t \in Seq(Frame) /\ t # << >> /\ Len(t) = Len(s)
  BY <1>1 DEF Frame
<1>3. Head(t).at = l
  BY <1>1, <1>2 DEF Frame
<1>4. \A i \in 1..Len(s) : t[i].call = s[i].call
  BY <1>1 DEF Frame
<1> QED
  BY <1>2, <1>3, <1>4 DEF CallsOf

(* A return takes the innermost call away. *)
LEMMA Pop ==
  ASSUME NEW s \in Seq(Frame), s # << >>
  PROVE  /\ Head(s) \in Frame
         /\ Tail(s) \in Seq(Frame)
         /\ CallsOf(s) = CallsOf(Tail(s)) \cup {Head(s).call}
<1>1. Head(s) \in Frame /\ Tail(s) \in Seq(Frame)
  OBVIOUS
<1>2. s = <<Head(s)>> \o Tail(s)
  OBVIOUS
<1> QED
  BY <1>1, <1>2, Push

-----------------------------------------------------------------------------

(* The initial state satisfies the invariant. *)
LEMMA InitIInv == Init => IInv
<1> SUFFICES ASSUME Init PROVE IInv
  OBVIOUS
<1>1. StackOK /\ AgentsOK /\ InterpOK /\ BitsOK
  <2>1. StackOK
    BY DEF Init, StackOK
  <2>2. 0 \in 0..MaxGen /\ 1 \in 0..MaxGen
    BY InterruptsAssumption
  <2>3. AgentsOK
    BY <2>2 DEF Init, AgentsOK, AgentPlaces
  <2>4. InterpOK /\ BitsOK
    BY <2>2 DEF Init, InterpOK, BitsOK
  <2> QED
    BY <2>1, <2>3, <2>4
<1>2. HoldsImu /\ WatchedHasBegun /\ Seen
  BY DEF Init, HoldsImu, Interrupting, WatchedHasBegun, Seen, Agents
<1>3. OneRaisePerRequest
  <2>1. Past = {} /\ raised = 0 /\ ~tripped
    BY DEF Init, Past
  <2> QED
    BY <2>1, FS_EmptySet DEF OneRaisePerRequest, Past
<1> QED
  BY <1>1, <1>2, <1>3 DEF IInv

(* The steps that only move the goroutine in the interpreter. *)
Moves == \E l \in Places : Goto(l)

(* What a step does to the stack, and to the calls that are over.           *)
LEMMA StackStep ==
  ASSUME StackOK, [Next]_vars
  PROVE  \/ stack' = stack /\ ended' = ended
         \/ stack # << >> /\ Moves /\ ended' = ended
         \/ \E c \in Calls : Begin(c)
         \/ End
<1>1. CASE UNCHANGED vars
  BY <1>1 DEF vars, calls
<1>2. CASE EvalLoop \/ CallHost \/ HostReturn
  BY <1>2 DEF EvalLoop, SeeBreaker, CheckIs, Scan, Raise, CallHost, HostReturn, At, Moves, Places
<1>3. CASE SetHandler \/ Close \/ SignalFini \/ NewReset \/ SignalInit
  BY <1>3 DEF SetHandler, Close, SignalFini, NewReset, SignalInit, calls
<1>4. CASE \E x \in Contexts : Cancel(x)
  BY <1>4 DEF Cancel, calls
<1>5. CASE \E c \in Calls : Fire(c) \/ Stop(c)
  BY <1>5 DEF Fire, Stop, calls
<1>6. CASE \E a \in Agents : AgentStep(a)
  BY <1>6 DEF AgentStep, LockImu, Check, SetInterrupt, Trip, Is, Breaker, UnlockImu, calls
<1>7. CASE \E d \in Direct : Ask(d)
  BY <1>7 DEF Ask, calls
<1> QED
  BY <1>1, <1>2, <1>3, <1>4, <1>5, <1>6, <1>7 DEF Next

(* Calls go from the stack to those that are over, and nowhere else.       *)
LEMMA StackNext ==
  ASSUME StackOK, WatchedHasBegun, AgentsOK, [Next]_vars
  PROVE  /\ StackOK'
         /\ CallsOf(stack) \cup ended \subseteq CallsOf(stack') \cup ended'
<1>1. CASE stack' = stack /\ ended' = ended
  BY <1>1 DEF StackOK
<1>2. CASE stack # << >> /\ Moves /\ ended' = ended
  <2>1. PICK l \in Places : stack' = [stack EXCEPT ![1].at = l]
    BY <1>2 DEF Moves, Goto
  <2> QED
    BY <1>2, <2>1, Relabel DEF StackOK
<1>3. ASSUME NEW c \in Calls, Begin(c)
      PROVE  /\ StackOK'
             /\ CallsOf(stack) \cup ended \subseteq CallsOf(stack') \cup ended'
  <2>1. stack' = <<[call |-> c, at |-> "run"]>> \o stack /\ ended' = ended
    BY <1>3 DEF Begin
  <2>2. [call |-> c, at |-> "run"] \in Frame
    BY DEF Frame, Places
  <2> QED
    BY <2>1, <2>2, Push DEF StackOK
<1>4. CASE End
  <2> DEFINE rest == Tail(stack)
  <2>1. stack # << >> /\ ended' = ended \cup {Head(stack).call}
    BY <1>4 DEF End, At
  <2>2. /\ rest \in Seq(Frame) /\ Head(stack) \in Frame
        /\ CallsOf(stack) = CallsOf(rest) \cup {Head(stack).call}
    BY <2>1, Pop DEF StackOK
  <2>3. \/ stack' = rest
        \/ rest # << >> /\ stack' = [rest EXCEPT ![1].at = "hosterr"]
    BY <1>4 DEF End
  <2>4. stack' \in Seq(Frame) /\ CallsOf(stack') = CallsOf(rest)
    <3>1. "hosterr" \in Places
      BY DEF Places
    <3> HIDE DEF rest
    <3> QED
      BY <2>2, <2>3, <3>1, Relabel
  <2>5. Head(stack).call \in Calls
    BY <2>2 DEF Frame
  <2> QED
    BY <2>1, <2>2, <2>4, <2>5 DEF StackOK
<1> QED
  BY <1>1, <1>2, <1>3, <1>4, StackStep

-----------------------------------------------------------------------------

(* Every step leaves the agents alone or takes one of them to its next      *)
(* place, in or out of imu.                                                 *)
AgentMoves(a, l) ==
  /\ ipc[a] # "gone" /\ l # "idle"
  /\ ipc[a] \in {"is", "breaker", "unlock"} => l \in {"breaker", "unlock", "gone"}
  /\ ipc' = [ipc EXCEPT ![a] = l]
  /\ own' \in [Agents -> 0..MaxGen] /\ \A b \in Agents \ {a} : own'[b] = own[b]
  /\ \/ a \notin Interrupting /\ l \in {"select", "lock", "gone"} /\ imu' = imu
     \/ /\ own' = own
        /\ \/ /\ a \notin Interrupting /\ l = "check"
              /\ imu[own[a]] = NoAgent /\ imu' = [imu EXCEPT ![own[a]] = a]
           \/ a \in Interrupting /\ l \notin {"select", "lock", "gone"} /\ imu' = imu
           \/ a \in Interrupting /\ l = "gone" /\ imu' = [imu EXCEPT ![own[a]] = NoAgent]

(* An agent that leaves "idle" is the watcher of a call that begins, or     *)
(* calls Interrupt itself.                                                  *)
LEMMA AgentsStep ==
  ASSUME AgentsOK, InterpOK, WatchedHasBegun, [Next]_vars
  PROVE  \/ UNCHANGED agents
         \/ \E a \in Agents, l \in AgentPlaces :
              AgentMoves(a, l) /\ (a \in Calls /\ ipc[a] = "idle" => Begin(a))
<1> DEFINE Goal == \E a \in Agents, l \in AgentPlaces :
                     AgentMoves(a, l) /\ (a \in Calls /\ ipc[a] = "idle" => Begin(a))
<1>1. CASE UNCHANGED vars
  BY <1>1 DEF vars
<1>2. CASE EvalLoop \/ CallHost \/ HostReturn \/ End
  BY <1>2 DEF EvalLoop, SeeBreaker, CheckIs, Scan, Raise, CallHost, HostReturn, End
<1>3. CASE SetHandler \/ Close \/ SignalFini \/ NewReset \/ SignalInit
  BY <1>3 DEF SetHandler, Close, SignalFini, NewReset, SignalInit
<1>4. CASE \E x \in Contexts : Cancel(x)
  BY <1>4 DEF Cancel
<1>5. ASSUME NEW c \in Calls, Begin(c) PROVE UNCHANGED agents \/ Goal
  <2>1. CASE CtxOf[c] = NoContext
    BY <1>5, <2>1 DEF Begin, agents
  <2>2. CASE CtxOf[c] # NoContext
    <3>1. ipc[c] = "idle" /\ c \in Agents
      BY <1>5 DEF Begin, WatchedHasBegun, Agents
    <3>2. /\ own' \in [Agents -> 0..MaxGen] /\ \A b \in Agents \ {c} : own'[b] = own[b]
          /\ ipc' = [ipc EXCEPT ![c] = "select"] /\ imu' = imu
      BY <1>5, <2>2 DEF Begin, AgentGoto, AgentsOK, InterpOK
    <3>3. AgentMoves(c, "select")
      BY <3>1, <3>2 DEF AgentMoves, Interrupting
    <3> QED
      BY <1>5, <3>1, <3>3 DEF AgentPlaces
  <2> QED
    BY <2>1, <2>2
<1>6. ASSUME NEW c \in Calls, Fire(c) \/ Stop(c) PROVE Goal
  <2>1. PICK l \in {"lock", "gone"} : ipc' = [ipc EXCEPT ![c] = l]
    BY <1>6 DEF Fire, Stop, AgentGoto
  <2>2. ipc[c] = "select" /\ own' = own /\ imu' = imu /\ c \in Agents
    BY <1>6 DEF Fire, Stop, Agents
  <2>3. AgentMoves(c, l)
    BY <2>1, <2>2 DEF AgentMoves, AgentsOK, Interrupting
  <2> QED
    BY <2>1, <2>2, <2>3 DEF AgentPlaces
<1>7. ASSUME NEW d \in Direct, Ask(d) PROVE Goal
  <2>1. ipc[d] = "idle" /\ imu' = imu /\ d \in Agents /\ d \notin Calls
    BY <1>7, InterruptsAssumption DEF Ask, Agents
  <2>2. /\ own' \in [Agents -> 0..MaxGen] /\ \A b \in Agents \ {d} : own'[b] = own[b]
        /\ ipc' = [ipc EXCEPT ![d] = "lock"]
    BY <1>7 DEF Ask, AgentGoto, AgentsOK, InterpOK
  <2>3. AgentMoves(d, "lock")
    BY <2>1, <2>2 DEF AgentMoves, Interrupting
  <2> QED
    BY <2>1, <2>3 DEF AgentPlaces
<1>8. ASSUME NEW a \in Agents, AgentStep(a) PROVE Goal
  <2>1. ipc[a] \notin {"idle", "gone"} /\ own' = own
    BY <1>8 DEF AgentStep, LockImu, Check, SetInterrupt, Trip, Is, Breaker, UnlockImu
  <2>2. PICK l \in AgentPlaces : ipc' = [ipc EXCEPT ![a] = l] /\ AgentMoves(a, l)
    <3>1. CASE LockImu(a)
      BY <3>1, <2>1 DEF LockImu, AgentGoto, AgentMoves, AgentsOK, Interrupting, AgentPlaces
    <3>2. CASE Check(a)
      BY <3>2, <2>1 DEF Check, AgentGoto, AgentMoves, AgentsOK, Interrupting, AgentPlaces
    <3>3. CASE SetInterrupt(a)
      BY <3>3, <2>1 DEF SetInterrupt, AgentGoto, AgentMoves, AgentsOK, Interrupting, AgentPlaces
    <3>4. CASE Trip(a) \/ Is(a) \/ Breaker(a)
      BY <3>4, <2>1 DEF Trip, Is, Breaker, AgentGoto, AgentMoves, AgentsOK, Interrupting, AgentPlaces
    <3>5. CASE UnlockImu(a)
      BY <3>5, <2>1 DEF UnlockImu, AgentGoto, AgentMoves, AgentsOK, Interrupting, AgentPlaces
    <3> QED
      BY <1>8, <3>1, <3>2, <3>3, <3>4, <3>5 DEF AgentStep
  <2> QED
    BY <2>1, <2>2
<1> QED
  BY <1>1, <1>2, <1>3, <1>4, <1>5, <1>6, <1>7, <1>8 DEF Next, vars

(* So imu keeps all but one agent out, and no request is taken back.        *)
LEMMA AgentsNext ==
  ASSUME StackOK, AgentsOK, InterpOK, HoldsImu, WatchedHasBegun, [Next]_vars
  PROVE  AgentsOK' /\ HoldsImu' /\ WatchedHasBegun' /\ Past \subseteq Past'
<1>1. \A c \in Calls : (Calling(c) \/ c \in ended) => (Calling(c)' \/ c \in ended')
  BY StackNext DEF Calling, CallsOf
<1>2. CASE UNCHANGED agents
  BY <1>1, <1>2 DEF agents, AgentsOK, HoldsImu, Interrupting, WatchedHasBegun, Past
<1>3. ASSUME NEW a \in Agents, NEW l \in AgentPlaces,
             AgentMoves(a, l), a \in Calls /\ ipc[a] = "idle" => Begin(a)
      PROVE  AgentsOK' /\ HoldsImu' /\ WatchedHasBegun' /\ Past \subseteq Past'
  <2>1. /\ ipc' = [ipc EXCEPT ![a] = l] /\ own' \in [Agents -> 0..MaxGen]
        /\ imu' \in [0..MaxGen -> Agents \cup {NoAgent}]
    BY <1>3 DEF AgentMoves, AgentsOK
  <2>2. AgentsOK'
    BY <2>1 DEF AgentsOK
  <2>3. /\ ipc'[a] = l
        /\ \A b \in Agents : b # a => ipc'[b] = ipc[b]
    BY <2>1 DEF AgentsOK
  <2>4. HoldsImu'
    <3> SUFFICES ASSUME NEW b \in Interrupting' PROVE imu'[own'[b]] = b
      BY DEF HoldsImu
    <3>0. b \in Agents
      BY DEF Interrupting
    <3>3. own[a] \in 0..MaxGen /\ imu \in [0..MaxGen -> Agents \cup {NoAgent}] /\ own[b] \in 0..MaxGen
      BY <3>0 DEF AgentsOK
    <3>1. CASE b = a
      BY <1>3, <2>3, <3>1, <3>3 DEF AgentMoves, HoldsImu, Interrupting
    <3>2. CASE b # a
      <4>1. b \in Interrupting /\ own'[b] = own[b]
        BY <1>3, <2>3, <3>0, <3>2 DEF Interrupting, AgentMoves
      <4>2. imu[own[b]] = b /\ imu[own[b]] # NoAgent
        BY <3>0, <4>1, InterruptsAssumption DEF HoldsImu
      <4>3. CASE own[b] = own[a]
        <5>1. a \notin Interrupting
          BY <3>2, <4>2, <4>3 DEF HoldsImu
        <5> QED
          BY <1>3, <3>3, <4>1, <4>2, <4>3, <5>1 DEF AgentMoves
      <4>4. CASE own[b] # own[a]
        BY <1>3, <3>3, <4>1, <4>2, <4>4 DEF AgentMoves
      <4> QED
        BY <4>3, <4>4
    <3> QED
      BY <3>1, <3>2
  <2>5. WatchedHasBegun'
    <3> SUFFICES ASSUME NEW c \in Calls, ipc'[c] # "idle" PROVE Calling(c)' \/ c \in ended'
      BY DEF WatchedHasBegun
    <3>0. c \in Agents
      BY DEF Agents
    <3>1. CASE ipc[c] # "idle"
      BY <1>1, <3>1 DEF WatchedHasBegun
    <3>2. CASE ipc[c] = "idle"
      <4>1. Begin(c)
        BY <1>3, <2>3, <3>0, <3>2
      <4>2. stack' = <<[call |-> c, at |-> "run"]>> \o stack
        BY <4>1 DEF Begin
      <4>3. [call |-> c, at |-> "run"] \in Frame
        BY DEF Frame, Places
      <4>4. c \in CallsOf(stack')
        BY <4>2, <4>3, Push DEF StackOK
      <4> QED
        BY <4>4 DEF Calling, CallsOf
    <3> QED
      BY <3>1, <3>2
  <2>6. Past \subseteq Past'
    BY <1>3, <2>3 DEF Past, AgentMoves
  <2> QED
    BY <2>2, <2>4, <2>5, <2>6
<1> QED
  BY <1>2, <1>3, AgentsStep

-----------------------------------------------------------------------------

(* One step keeps the types of the remaining variables. *)
LEMMA InterpNext ==
  ASSUME InterpOK, [Next]_vars PROVE InterpOK'
<1>1. CASE UNCHANGED vars
  BY <1>1 DEF vars, interp, InterpOK
<1>2. CASE EvalLoop \/ CallHost \/ HostReturn \/ End
  BY <1>2 DEF EvalLoop, SeeBreaker, CheckIs, Scan, Raise, CallHost, HostReturn, End, interp, InterpOK
<1>3. CASE NewReset
  BY <1>3, InterruptsAssumption DEF NewReset, InterpOK
<1>4. CASE SetHandler \/ Close \/ SignalFini \/ SignalInit
  BY <1>4 DEF SetHandler, Close, SignalFini, SignalInit, interp, InterpOK
<1>5. CASE \E x \in Contexts : Cancel(x)
  BY <1>5 DEF Cancel, interp, InterpOK
<1>6. CASE \E c \in Calls : Begin(c) \/ Fire(c) \/ Stop(c)
  BY <1>6 DEF Begin, Fire, Stop, interp, InterpOK
<1>7. CASE \E d \in Direct : Ask(d)
  BY <1>7 DEF Ask, interp, InterpOK
<1>8. CASE \E a \in Agents : AgentStep(a)
  BY <1>8 DEF AgentStep, LockImu, Check, SetInterrupt, Trip, Is, Breaker, UnlockImu, interp, InterpOK
<1> QED
  BY <1>1, <1>2, <1>3, <1>4, <1>5, <1>6, <1>7, <1>8 DEF Next

(* And of the flags. *)
LEMMA BitsNext ==
  ASSUME BitsOK, [Next]_vars PROVE BitsOK'
<1>1. CASE UNCHANGED vars
  BY <1>1 DEF vars, bits, history, BitsOK
<1>2. CASE Scan
  <2>1. raised' = raised + 1 \/ raised' = raised
    BY <1>2 DEF Scan
  <2>2. tripped' = FALSE /\ by' = {} /\ spared' = spared /\ isTripped' = isTripped /\ breaker' = breaker
    BY <1>2 DEF Scan
  <2>3. raised' \in Nat
    BY <2>1 DEF BitsOK
  <2> QED
    BY <2>2, <2>3 DEF BitsOK
<1>8. CASE SeeBreaker \/ CheckIs \/ Raise
  BY <1>8 DEF SeeBreaker, CheckIs, Raise, history, BitsOK
<1>9. CASE CallHost \/ HostReturn \/ End
  BY <1>9 DEF CallHost, HostReturn, End, bits, history, BitsOK
<1>3. CASE SetHandler \/ Close \/ SignalFini \/ NewReset \/ SignalInit
  BY <1>3 DEF SetHandler, Close, SignalFini, NewReset, SignalInit, bits, history, BitsOK
<1>4. CASE \E x \in Contexts : Cancel(x)
  BY <1>4 DEF Cancel, bits, history, BitsOK
<1>5. CASE \E c \in Calls : Begin(c) \/ Fire(c) \/ Stop(c)
  BY <1>5 DEF Begin, Fire, Stop, bits, history, BitsOK
<1>6. CASE \E d \in Direct : Ask(d)
  BY <1>6 DEF Ask, bits, history, BitsOK
<1>7. CASE \E a \in Agents : AgentStep(a)
  BY <1>7 DEF AgentStep, LockImu, Check, SetInterrupt, Trip, Is, Breaker, UnlockImu, bits, history, BitsOK
<1> QED
  BY <1>1, <1>2, <1>3, <1>4, <1>5, <1>6, <1>7, <1>8, <1>9 DEF Next, EvalLoop

-----------------------------------------------------------------------------

(* Goto changes where the innermost call is, and nothing else of it.        *)
LEMMA GotoAt ==
  ASSUME StackOK, stack # << >>, NEW l \in Places, Goto(l)
  PROVE  \A k : At(k)' <=> k = l
<1>1. /\ [stack EXCEPT ![1].at = l] # << >>
      /\ Head([stack EXCEPT ![1].at = l]).at = l
  BY Relabel DEF StackOK
<1> QED
  BY <1>1 DEF Goto, At

(* The flag of a signal is never set alone: the stores of trip_signal are   *)
(* undone only by those who will look at what was set before.               *)
LEMMA SeenNext ==
  ASSUME StackOK, AgentsOK, BitsOK, WatchedHasBegun, Seen, [Next]_vars
  PROVE  Seen'
<1> DEFINE SetIs(a) == ipc[a] = "is"
           SetBreaker(a) == ipc[a] \in {"is", "breaker"}
<1>1. CASE UNCHANGED vars
  BY <1>1 DEF vars, bits, calls, agents, Seen, At
<1>2. CASE SeeBreaker
  <2>1. stack # << >> /\ "check" \in Places /\ Goto("check") /\ At("run")
    BY <1>2 DEF SeeBreaker, At, Places
  <2>2. At("check")'
    BY <2>1, GotoAt
  <2>3. ~At("scan") /\ ~At("raise")
    BY <2>1 DEF At
  <2>4. tripped' = tripped /\ isTripped' = isTripped /\ ipc' = ipc
    BY <1>2 DEF SeeBreaker, agents
  <2> QED
    BY <2>2, <2>3, <2>4 DEF Seen
<1>3. CASE CheckIs
  <2>1. stack # << >> /\ At("check") /\ ~At("scan") /\ ~At("raise")
    BY <1>3 DEF CheckIs, At
  <2>2. tripped' = tripped /\ breaker' = breaker /\ ipc' = ipc
    BY <1>3 DEF CheckIs, agents
  <2>3. CASE isTripped
    <3>1. Goto("scan") /\ "scan" \in Places
      BY <1>3, <2>3 DEF CheckIs, Places
    <3>2. At("scan")'
      BY <2>1, <3>1, GotoAt
    <3> QED
      BY <3>2 DEF Seen
  <2>4. CASE ~isTripped
    <3>1. tripped => \E a \in Agents : ipc[a] = "is"
      BY <2>1, <2>4 DEF Seen
    <3> QED
      BY <2>2, <3>1 DEF Seen
  <2> QED
    BY <2>3, <2>4
<1>4. CASE Scan \/ SignalFini \/ NewReset \/ SignalInit
  BY <1>4 DEF Scan, SignalFini, NewReset, SignalInit, Seen
<1>5. CASE Raise
  BY <1>5 DEF Raise, Seen
<1>6. CASE End \/ CallHost \/ HostReturn
  <2>1. ~At("check") /\ ~At("scan") /\ ~At("raise")
    BY <1>6 DEF End, CallHost, HostReturn, At
  <2>2. UNCHANGED bits /\ ipc' = ipc
    BY <1>6 DEF End, CallHost, HostReturn, agents
  <2> QED
    BY <2>1, <2>2 DEF Seen, bits
<1>7. CASE \E c \in Calls : Begin(c)
  <2> PICK c \in Calls : Begin(c)
    BY <1>7
  <2>1. ~At("check") /\ ~At("scan") /\ ~At("raise")
    BY DEF Begin, At
  <2>2. ipc[c] = "idle"
    BY DEF Begin, WatchedHasBegun
  <2>3. \A a \in Agents : a # c => ipc'[a] = ipc[a]
    BY DEF Begin, AgentGoto, AgentsOK
  <2>4. UNCHANGED bits
    BY DEF Begin
  <2>5. \A a \in Agents : SetBreaker(a) => ipc'[a] = ipc[a]
    BY <2>2, <2>3
  <2> QED
    BY <2>1, <2>4, <2>5 DEF Seen, bits
<1>8. CASE SetHandler \/ Close \/ \E x \in Contexts : Cancel(x)
  BY <1>8 DEF SetHandler, Close, Cancel, calls, agents, bits, Seen, At
<1>9. CASE (\E c \in Calls : Fire(c) \/ Stop(c)) \/ \E d \in Direct : Ask(d)
  <2>1. UNCHANGED bits /\ stack' = stack
    BY <1>9 DEF Fire, Stop, Ask, calls
  <2>2. \A a \in Agents : SetBreaker(a) => ipc'[a] = ipc[a]
    BY <1>9 DEF Fire, Stop, Ask, AgentGoto, AgentsOK
  <2> QED
    BY <2>1, <2>2 DEF Seen, bits, At
<1>10. ASSUME NEW a \in Agents, AgentStep(a) PROVE Seen'
  <2>1. stack' = stack
    BY <1>10 DEF AgentStep, LockImu, Check, SetInterrupt, Trip, Is, Breaker, UnlockImu, calls
  <2>2. \A b \in Agents : b # a => ipc'[b] = ipc[b]
    BY <1>10 DEF AgentStep, LockImu, Check, SetInterrupt, Trip, Is, Breaker, UnlockImu, AgentGoto, AgentsOK
  <2>3. \A k : At(k)' <=> At(k)
    BY <2>1 DEF At
  <2>4. CASE LockImu(a) \/ Check(a) \/ SetInterrupt(a) \/ UnlockImu(a)
    <3>1. UNCHANGED bits /\ ~SetBreaker(a)
      BY <2>4 DEF LockImu, Check, SetInterrupt, UnlockImu
    <3> QED
      BY <2>2, <2>3, <3>1 DEF Seen, bits
  <2>5. CASE Trip(a)
    <3>1. ipc'[a] = "is"
      BY <2>5 DEF Trip, AgentGoto, AgentsOK
    <3> QED
      BY <3>1 DEF Seen
  <2>6. CASE Is(a)
    <3>1. ipc'[a] = "breaker" /\ isTripped'
      BY <2>6 DEF Is, AgentGoto, AgentsOK
    <3> QED
      BY <3>1 DEF Seen
  <2>7. CASE Breaker(a)
    <3>1. breaker' /\ tripped' = tripped /\ isTripped' = isTripped /\ ~SetIs(a)
      BY <2>7 DEF Breaker
    <3> QED
      BY <2>2, <2>3, <3>1 DEF Seen
  <2> QED
    BY <1>10, <2>4, <2>5, <2>6, <2>7 DEF AgentStep
<1> QED
  BY <1>1, <1>2, <1>3, <1>4, <1>5, <1>6, <1>7, <1>8, <1>9, <1>10 DEF Next, EvalLoop

-----------------------------------------------------------------------------

(* No more agents are past setting the flag than there are. *)
LEMMA PastFinite ==
  /\ IsFiniteSet(Past)
  /\ Cardinality(Past) \in Nat
  /\ Cardinality(Past) <= Cardinality(Agents)
  BY InterruptsAssumption, FS_Subset, FS_CardinalityType DEF Past

Flag == IF tripped THEN 1 ELSE 0

(* Only Trip sets the signal's flag, for an agent that has then done its    *)
(* part; only Scan raises, and clears the flag for it.                      *)
LEMMA FlagStep ==
  ASSUME BitsOK, [Next]_vars
  PROVE  \/ raised' + Flag' <= raised + Flag
         \/ \E a \in Agents : Trip(a) /\ raised' + Flag' <= raised + 1
<1>1. CASE UNCHANGED vars
  BY <1>1 DEF vars, bits, history, BitsOK, Flag
<1>2. CASE EvalLoop \/ CallHost \/ HostReturn \/ End
  <2>1. CASE Scan
    BY <2>1 DEF Scan, BitsOK, Flag
  <2>2. CASE ~Scan
    BY <1>2, <2>2 DEF EvalLoop, SeeBreaker, CheckIs, Raise, CallHost, HostReturn, End,
                      bits, history, BitsOK, Flag
  <2> QED
    BY <2>1, <2>2
<1>3. CASE SetHandler \/ Close \/ SignalFini \/ NewReset \/ SignalInit
  BY <1>3 DEF SetHandler, Close, SignalFini, NewReset, SignalInit, bits, history, BitsOK, Flag
<1>4. CASE \E x \in Contexts : Cancel(x)
  BY <1>4 DEF Cancel, bits, history, BitsOK, Flag
<1>5. CASE \E c \in Calls : Begin(c) \/ Fire(c) \/ Stop(c)
  BY <1>5 DEF Begin, Fire, Stop, bits, history, BitsOK, Flag
<1>6. CASE \E d \in Direct : Ask(d)
  BY <1>6 DEF Ask, bits, history, BitsOK, Flag
<1>7. ASSUME NEW a \in Agents, AgentStep(a)
      PROVE  \/ raised' + Flag' <= raised + Flag
             \/ Trip(a) /\ raised' + Flag' <= raised + 1
  <2>1. CASE Trip(a)
    BY <2>1 DEF Trip, history, BitsOK, Flag
  <2>2. CASE ~Trip(a)
    BY <1>7, <2>2 DEF AgentStep, LockImu, Check, SetInterrupt, Is, Breaker, UnlockImu,
                      bits, history, BitsOK, Flag
  <2> QED
    BY <2>1, <2>2
<1> QED
  BY <1>1, <1>2, <1>3, <1>4, <1>5, <1>6, <1>7 DEF Next

(* A chain of three, for the sums below. *)
LEMMA AtMostTrans ==
  ASSUME NEW a \in Int, NEW b \in Int, NEW c \in Int, NEW d \in Int,
         a <= b, b <= c, c <= d
  PROVE  a <= d
  OBVIOUS

(* So one step raises at most for a request that is accounted for. *)
LEMMA RaiseNext ==
  ASSUME AgentsOK, BitsOK, BitsOK', Past \subseteq Past', OneRaisePerRequest, [Next]_vars
  PROVE  OneRaisePerRequest'
<1> SUFFICES raised' + Flag' <= Cardinality(Past')
  BY DEF OneRaisePerRequest, Past, Flag
<1>1. raised + Flag <= Cardinality(Past)
  BY DEF OneRaisePerRequest, Past, Flag
<1>2. IsFiniteSet(Past') /\ Cardinality(Past') \in Nat /\ Cardinality(Past) \in Nat
  BY PastFinite, InterruptsAssumption, FS_Subset, FS_CardinalityType DEF Past
<1>3. Cardinality(Past) <= Cardinality(Past')
  BY <1>2, FS_Subset
<1>4. raised \in Nat /\ raised' \in Nat /\ Flag \in 0..1 /\ Flag' \in 0..1
  BY DEF BitsOK, Flag
<1>5. CASE raised' + Flag' <= raised + Flag
  <2>1. raised + Flag \in Int /\ raised' + Flag' \in Int
    BY <1>4
  <2> QED
    BY <1>1, <1>2, <1>3, <1>5, <2>1, AtMostTrans
<1>6. ASSUME NEW a \in Agents, Trip(a), raised' + Flag' <= raised + 1
      PROVE  raised' + Flag' <= Cardinality(Past')
  <2>1. a \notin Past /\ a \in Past'
    BY <1>6 DEF Trip, AgentGoto, AgentsOK, Past
  <2>2. Past \cup {a} \subseteq Past'
    BY <2>1
  <2>3. Cardinality(Past \cup {a}) = Cardinality(Past) + 1
    BY <2>1, PastFinite, FS_AddElement
  <2>4. Cardinality(Past) + 1 <= Cardinality(Past')
    BY <1>2, <2>2, <2>3, FS_Subset
  <2>5. raised + 1 <= Cardinality(Past) + 1
    BY <1>1, <1>2, <1>4
  <2>6. raised + 1 \in Int /\ raised' + Flag' \in Int /\ Cardinality(Past) + 1 \in Int
    BY <1>2, <1>4
  <2> QED
    BY <1>2, <1>6, <2>4, <2>5, <2>6, AtMostTrans
<1> QED
  BY <1>5, <1>6, FlagStep

-----------------------------------------------------------------------------

(* The invariant is inductive. *)
LEMMA NextIInv == IInv /\ [Next]_vars => IInv'
  BY StackNext, AgentsNext, InterpNext, BitsNext, SeenNext, RaiseNext DEF IInv

(* So it holds of every behaviour. *)
LEMMA Invariant == Spec => []IInv
  BY InitIInv, NextIInv, PTL DEF Spec

(* The variables keep their types. *)
THEOREM TypeCorrect == Spec => []TypeOK
<1>1. IInv => TypeOK
  <2> SUFFICES ASSUME IInv PROVE TypeOK
    OBVIOUS
  <2>1. raised \in 0..Cardinality(Agents)
    <3>1. raised + Flag <= Cardinality(Past)
      BY DEF IInv, OneRaisePerRequest, Past, Flag
    <3>2. Cardinality(Agents) \in Nat
      BY InterruptsAssumption, FS_CardinalityType
    <3> QED
      BY <3>1, <3>2, PastFinite DEF IInv, BitsOK, Flag
  <2>2. stack \in Seq([call : Calls, at : Places])
    BY DEF IInv, StackOK, Frame
  <2> QED
    BY <2>1, <2>2 DEF IInv, TypeOK, StackOK, AgentsOK, InterpOK, BitsOK, AgentPlaces
<1> QED
  BY <1>1, Invariant, PTL

(* imu admits one Interrupt at a time to the C code on the itls of its       *)
(* interpreter, also when an old one and a new one are interrupted at once.  *)
THEOREM ImuExcludes == Spec => []OneOnItls
<1>1. IInv => OneOnItls
  BY DEF IInv, HoldsImu, OneOnItls
<1> QED
  BY <1>1, Invariant, PTL

(* No tripped signal is overlooked by the eval loop, however its clears and *)
(* the stores of trip_signal interleave: no lock is between them.           *)
THEOREM NoLostInterrupt == Spec => []TrippedIsSeen
<1>1. IInv => TrippedIsSeen
  BY DEF IInv, Seen, TrippedIsSeen
<1> QED
  BY <1>1, Invariant, PTL

(* Every KeyboardInterrupt answers a request of its own, and one request    *)
(* more is accounted for while the flag is set.                             *)
THEOREM RaisesAreRequested == Spec => []OneRaisePerRequest
<1>1. IInv => OneRaisePerRequest
  BY DEF IInv
<1> QED
  BY <1>1, Invariant, PTL

-----------------------------------------------------------------------------

(* A call is in progress once, and not after it has ended. *)
Distinct(s) == \A i, j \in 1..Len(s) : s[i].call = s[j].call => i = j
Once == Distinct(stack) /\ \A c \in Calls : Calling(c) => c \notin ended

(* Only an open interpreter runs code, and SIGINT has a handler in it; an   *)
(* ignored one is Python code's doing.                                      *)
OpenRuns ==
  /\ phase # "open" => stack = << >>
  /\ handler = "null" => phase # "open"
  /\ handler = "ign" => spared

(* A call that has a context has a watcher, for its own interpreter. *)
Watches(c) == Calling(c) /\ CtxOf[c] # NoContext
Watched == \A c \in Calls : Watches(c) => ipc[c] # "idle" /\ own[c] = gen

(* The watcher of a call has yet to set the signal's flag, or the flag is   *)
(* set, or KeyboardInterrupt is on its way out of the calls in progress;    *)
(* unless Python code or a host function has declined it.                   *)
Asking(c) == ipc[c] \in {"select", "lock", "check", "handler", "trip"}
UnderWay == tripped \/ At("raise") \/ At("ki") \/ At("hosterr")
CancelNotLost == \A c \in Calls : Watches(c) => Asking(c) \/ spared \/ UnderWay

CancelInv == Once /\ OpenRuns /\ Watched /\ CancelNotLost

(* The call made last is another than those it is made in. *)
LEMMA PushDistinct ==
  ASSUME NEW s \in Seq(Frame), NEW f \in Frame, Distinct(s), f.call \notin CallsOf(s)
  PROVE  Distinct(<<f>> \o s)
<1> DEFINE t == <<f>> \o s
<1>1. t[1] = f /\ Len(t) = Len(s) + 1 /\ Len(s) \in Nat /\ \A i \in 1..Len(s) : t[i + 1] = s[i]
  OBVIOUS
<1> HIDE DEF t
<1>2. ASSUME NEW i \in 1..Len(t), i # 1
      PROVE  i - 1 \in 1..Len(s) /\ t[i] = s[i - 1]
  <2>1. i - 1 \in 1..Len(s) /\ (i - 1) + 1 = i
    BY <1>1, <1>2
  <2> QED
    BY <1>1, <2>1
<1>3. ASSUME NEW i \in 1..Len(t), i # 1 PROVE t[i].call # f.call
  BY <1>2, <1>3 DEF CallsOf
<1>4. ASSUME NEW i \in 1..Len(t), NEW j \in 1..Len(t), t[i].call = t[j].call PROVE i = j
  <2>1. CASE i = 1 \/ j = 1
    BY <1>1, <1>3, <1>4, <2>1
  <2>2. CASE i # 1 /\ j # 1
    <3>1. i - 1 = j - 1
      BY <1>2, <1>4, <2>2 DEF Distinct
    <3> QED
      BY <1>1, <3>1
  <2> QED
    BY <2>1, <2>2
<1> QED
  BY <1>4 DEF Distinct, t

(* And without it they are still distinct. *)
LEMMA PopDistinct ==
  ASSUME NEW s \in Seq(Frame), s # << >>, Distinct(s)
  PROVE  Distinct(Tail(s)) /\ Head(s).call \notin CallsOf(Tail(s))
<1>1. /\ Len(Tail(s)) = Len(s) - 1 /\ Len(s) \in Nat \ {0} /\ Head(s) = s[1]
      /\ \A i \in 1..Len(Tail(s)) : Tail(s)[i] = s[i + 1]
  OBVIOUS
<1>2. 1 \in 1..Len(s) /\ \A i \in 1..Len(Tail(s)) : i \in Nat /\ i + 1 \in 1..Len(s) /\ i + 1 # 1
  BY <1>1
<1>3. ASSUME NEW i \in 1..Len(Tail(s)), NEW j \in 1..Len(Tail(s)), Tail(s)[i].call = Tail(s)[j].call
      PROVE  i = j
  <2>1. i + 1 = j + 1
    BY <1>1, <1>2, <1>3 DEF Distinct
  <2> QED
    BY <1>2, <2>1
<1>4. \A i \in 1..Len(Tail(s)) : Tail(s)[i].call # Head(s).call
  BY <1>1, <1>2 DEF Distinct
<1> QED
  BY <1>3, <1>4 DEF Distinct, CallsOf

(* How the calls in progress change. *)
LEMMA CallsChange ==
  ASSUME StackOK, Once, [Next]_vars
  PROVE  /\ Once'
         /\ \/ stack # << >> /\ CallsOf(stack') = CallsOf(stack)
            \/ stack' = stack
            \/ \E c \in Calls : Begin(c) /\ CallsOf(stack') = CallsOf(stack) \cup {c}
            \/ End /\ CallsOf(stack') \subseteq CallsOf(stack)
<1>0. /\ \A c : Calling(c) <=> c \in CallsOf(stack)
      /\ \A c : Calling(c)' <=> c \in CallsOf(stack')
  BY DEF Calling, CallsOf
<1>1. CASE stack' = stack /\ ended' = ended
  BY <1>0, <1>1 DEF Once
<1>2. CASE stack # << >> /\ Moves /\ ended' = ended
  <2>1. PICK l \in Places : stack' = [stack EXCEPT ![1].at = l]
    BY <1>2 DEF Moves, Goto
  <2>2. CallsOf(stack') = CallsOf(stack)
    BY <1>2, <2>1, Relabel DEF StackOK
  <2>3. Len(stack') = Len(stack) /\ \A i \in 1..Len(stack) : stack'[i].call = stack[i].call
    BY <1>2, <2>1 DEF StackOK, Frame
  <2>4. Distinct(stack')
    BY <2>3 DEF Once, Distinct
  <2> QED
    BY <1>0, <1>2, <2>2, <2>4 DEF Once
<1>3. ASSUME NEW c \in Calls, Begin(c)
      PROVE  Once' /\ CallsOf(stack') = CallsOf(stack) \cup {c}
  <2>1. /\ stack' = <<[call |-> c, at |-> "run"]>> \o stack /\ ended' = ended
        /\ c \notin ended /\ c \notin CallsOf(stack)
    BY <1>0, <1>3 DEF Begin
  <2>2. [call |-> c, at |-> "run"] \in Frame
    BY DEF Frame, Places
  <2>3. CallsOf(stack') = CallsOf(stack) \cup {c} /\ Distinct(stack')
    BY <2>1, <2>2, Push, PushDistinct DEF StackOK, Once
  <2> QED
    BY <1>0, <2>1, <2>3 DEF Once
<1>4. CASE End
  <2> DEFINE rest == Tail(stack)
  <2>1. stack # << >> /\ ended' = ended \cup {Head(stack).call}
    BY <1>4 DEF End, At
  <2>2. /\ rest \in Seq(Frame) /\ Head(stack) \in Frame
        /\ CallsOf(stack) = CallsOf(rest) \cup {Head(stack).call}
        /\ Distinct(rest) /\ Head(stack).call \notin CallsOf(rest)
    BY <2>1, Pop, PopDistinct DEF StackOK, Once
  <2>3. \/ stack' = rest
        \/ rest # << >> /\ stack' = [rest EXCEPT ![1].at = "hosterr"]
    BY <1>4 DEF End
  <2> HIDE DEF rest
  <2>4. CallsOf(stack') = CallsOf(rest)
    <3>1. "hosterr" \in Places
      BY DEF Places
    <3> QED
      BY <2>2, <2>3, <3>1, Relabel
  <2>5. Distinct(stack')
    <3>1. CASE stack' = rest
      BY <2>2, <3>1
    <3>2. CASE rest # << >> /\ stack' = [rest EXCEPT ![1].at = "hosterr"]
      <4>1. Len(stack') = Len(rest) /\ \A i \in 1..Len(rest) : stack'[i].call = rest[i].call
        BY <2>2, <3>2 DEF Frame
      <4> QED
        BY <2>2, <4>1 DEF Distinct
    <3> QED
      BY <2>3, <3>1, <3>2
  <2> QED
    BY <1>0, <1>4, <2>1, <2>2, <2>4, <2>5 DEF Once
<1> QED
  BY <1>1, <1>2, <1>3, <1>4, StackStep

(* Close waits for the calls, and the handler is there before the next one. *)
LEMMA OpenRunsNext ==
  ASSUME StackOK, InterpOK, BitsOK, OpenRuns, [Next]_vars
  PROVE  OpenRuns' /\ (stack # << >> => gen' = gen /\ phase = "open")
<1> USE DEF OpenRuns, At
<1>1. CASE UNCHANGED vars
  BY <1>1 DEF vars, calls, interp, history
<1>2. CASE EvalLoop \/ CallHost \/ HostReturn \/ End
  BY <1>2 DEF EvalLoop, SeeBreaker, CheckIs, Scan, Raise, CallHost, HostReturn, End, interp, history
<1>3. CASE SetHandler
  BY <1>3 DEF SetHandler, calls, interp
<1>4. CASE Close \/ SignalFini \/ NewReset \/ SignalInit
  BY <1>4 DEF Close, SignalFini, NewReset, SignalInit, calls, history
<1>5. CASE \E x \in Contexts : Cancel(x)
  BY <1>5 DEF Cancel, calls, interp, history
<1>6. CASE \E c \in Calls : Begin(c) \/ Fire(c) \/ Stop(c)
  BY <1>6 DEF Begin, Fire, Stop, calls, interp, history
<1>7. CASE \E d \in Direct : Ask(d)
  BY <1>7 DEF Ask, calls, interp, history
<1>8. CASE \E a \in Agents : AgentStep(a)
  BY <1>8 DEF AgentStep, LockImu, Check, SetInterrupt, Trip, Is, Breaker, UnlockImu, calls, interp, history
<1> QED
  BY <1>1, <1>2, <1>3, <1>4, <1>5, <1>6, <1>7, <1>8 DEF Next

(* A watched call was in progress before, or has just begun. *)
LEMMA WatchesBefore ==
  ASSUME StackOK, Once, [Next]_vars, NEW c \in Calls, Watches(c)'
  PROVE  Begin(c) \/ Watches(c)
<1>1. Calling(c)' <=> c \in CallsOf(stack')
  BY DEF Calling, CallsOf
<1>2. Calling(c) <=> c \in CallsOf(stack)
  BY DEF Calling, CallsOf
<1> QED
  BY <1>1, <1>2, CallsChange DEF Watches

(* The watcher of a call that begins is started for the interpreter that is *)
(* open, which stays while the call lasts.                                  *)
LEMMA WatchedNext ==
  ASSUME IInv, CancelInv, [Next]_vars
  PROVE  Watched'
<1> SUFFICES ASSUME NEW c \in Calls, Watches(c)' PROVE ipc'[c] # "idle" /\ own'[c] = gen'
  BY DEF Watched
<1>0. c \in Agents /\ c \notin Direct
  BY InterruptsAssumption DEF Agents
<1>1. CASE Begin(c)
  BY <1>0, <1>1 DEF Watches, Begin, AgentGoto, IInv, AgentsOK, interp
<1>2. CASE ~Begin(c)
  <2>1. Watches(c)
    BY <1>2, WatchesBefore DEF IInv, CancelInv
  <2>2. ipc[c] # "idle" /\ own[c] = gen /\ stack # << >>
    BY <2>1 DEF CancelInv, Watched, Watches, Calling
  <2>3. gen' = gen
    BY <2>2, OpenRunsNext DEF IInv, CancelInv
  <2>4. ipc'[c] # "idle"
    <3>1. CASE UNCHANGED agents
      BY <2>2, <3>1 DEF agents
    <3>2. ASSUME NEW a \in Agents, NEW l \in AgentPlaces, AgentMoves(a, l) PROVE ipc'[c] # "idle"
      <4>1. l # "idle" /\ ipc' = [ipc EXCEPT ![a] = l]
        BY <3>2 DEF AgentMoves
      <4> QED
        BY <1>0, <2>2, <4>1 DEF IInv, AgentsOK
    <3> QED
      BY <3>1, <3>2, AgentsStep DEF IInv
  <2>5. own'[c] = own[c]
    <3>1. CASE UNCHANGED vars \/ EvalLoop \/ CallHost \/ HostReturn \/ End \/ SetHandler
      BY <3>1 DEF vars, EvalLoop, SeeBreaker, CheckIs, Scan, Raise, CallHost, HostReturn, End,
                  SetHandler, agents
    <3>2. CASE Close \/ SignalFini \/ NewReset \/ SignalInit \/ \E x \in Contexts : Cancel(x)
      BY <3>2 DEF Close, SignalFini, NewReset, SignalInit, Cancel, agents
    <3>3. CASE \E b \in Calls : Begin(b) \/ Fire(b) \/ Stop(b)
      BY <1>0, <1>2, <3>3 DEF Begin, Fire, Stop, IInv, AgentsOK
    <3>4. CASE \E d \in Direct : Ask(d)
      BY <1>0, <3>4 DEF Ask, IInv, AgentsOK
    <3>5. CASE \E a \in Agents : AgentStep(a)
      BY <3>5 DEF AgentStep, LockImu, Check, SetInterrupt, Trip, Is, Breaker, UnlockImu
    <3> QED
      BY <3>1, <3>2, <3>3, <3>4, <3>5 DEF Next
  <2> QED
    BY <2>2, <2>3, <2>4, <2>5
<1> QED
  BY <1>1, <1>2

(* A cancellation that has been passed on ends in a KeyboardInterrupt that  *)
(* leaves the calls one by one, or is declined.                             *)
LEMMA CancelNext ==
  ASSUME IInv, CancelInv, [Next]_vars
  PROVE  CancelNotLost'
<1> SUFFICES ASSUME NEW c \in Calls, Watches(c)' PROVE Asking(c)' \/ spared' \/ UnderWay'
  BY DEF CancelNotLost
<1>0. /\ c \in Agents /\ c \notin Direct
      /\ StackOK /\ ipc \in [Agents -> AgentPlaces]
  BY InterruptsAssumption DEF Agents, IInv, AgentsOK
<1>1. CASE Begin(c)
  BY <1>0, <1>1 DEF Watches, Begin, AgentGoto, Asking
<1>2. CASE ~Begin(c)
  <2>1. Watches(c) /\ c \notin ended
    BY <1>2, WatchesBefore DEF IInv, CancelInv, Once, Watches
  <2>2. /\ stack # << >> /\ own[c] = gen /\ phase = "open"
        /\ Asking(c) \/ spared \/ UnderWay
        /\ handler = "int" \/ spared
    BY <2>1 DEF CancelInv, Watched, Watches, Calling, OpenRuns, CancelNotLost, IInv, InterpOK
  <2>3. ASSUME NEW l \in Places, Goto(l) PROVE \A k : At(k)' <=> k = l
    BY <1>0, <2>2, <2>3, GotoAt
  <2>4. ASSUME ipc' = ipc PROVE Asking(c)' <=> Asking(c)
    BY <2>4 DEF Asking
  <2>5. ASSUME ipc' = ipc, tripped' = tripped, spared => spared',
               ~At("raise") /\ ~At("ki") /\ ~At("hosterr")
        PROVE  Asking(c)' \/ spared' \/ UnderWay'
    BY <2>2, <2>4, <2>5 DEF UnderWay
  <2>6. CASE SeeBreaker \/ CheckIs \/ CallHost \/ SetHandler
    BY <2>5, <2>6 DEF SeeBreaker, CheckIs, CallHost, SetHandler, At, agents, bits, history
  <2>7. CASE Scan
    <3>1. CASE tripped /\ handler = "int"
      <4>1. Goto("raise")
        BY <2>7, <3>1 DEF Scan
      <4>2. At("raise")'
        BY <2>3, <4>1 DEF Places
      <4> QED
        BY <4>2 DEF UnderWay
    <3>2. CASE ~tripped \/ spared
      <4>1. Asking(c) \/ spared
        BY <2>2, <2>7, <3>2 DEF Scan, At, UnderWay
      <4> QED
        BY <2>4, <2>7, <4>1 DEF Scan, agents
    <3> QED
      BY <2>2, <3>1, <3>2
  <2>8. CASE Raise \/ HostReturn
    <3>1. CASE Goto("ki")
      <4>1. At("ki")'
        BY <2>3, <3>1 DEF Places
      <4> QED
        BY <4>1 DEF UnderWay
    <3>2. CASE spared'
      BY <3>2
    <3>3. CASE HostReturn /\ At("host")
      BY <2>5, <3>3 DEF HostReturn, At, agents, bits
    <3> QED
      BY <2>8, <3>1, <3>2, <3>3 DEF Raise, HostReturn
  <2>9. CASE End
    <3> DEFINE rest == Tail(stack)
    <3>1. CASE At("ki")
      <4>1. rest \in Seq(Frame)
        BY <1>0, <2>2, Pop DEF StackOK
      <4>2. stack' # << >>
        BY DEF Watches, Calling
      <4>3. rest # << >> /\ stack' = [rest EXCEPT ![1].at = "hosterr"]
        BY <2>9, <3>1, <4>2 DEF End
      <4>4. "hosterr" \in Places
        BY DEF Places
      <4>5. stack' # << >> /\ Head(stack').at = "hosterr"
        <5> HIDE DEF rest
        <5> QED
          BY <4>1, <4>3, <4>4, Relabel
      <4> QED
        BY <4>5 DEF UnderWay, At
    <3>2. CASE At("run")
      BY <2>5, <2>9, <3>2 DEF End, At, agents, bits, history
    <3> QED
      BY <2>9, <3>1, <3>2 DEF End
  <2>10. CASE Close \/ SignalFini \/ NewReset \/ SignalInit
    BY <2>2, <2>10 DEF Close, SignalFini, NewReset, SignalInit
  <2>11. ASSUME tripped => tripped', spared' = spared, stack' = stack, Asking(c) => Asking(c)'
         PROVE  Asking(c)' \/ spared' \/ UnderWay'
    BY <2>2, <2>11 DEF UnderWay, At
  <2>12. CASE UNCHANGED vars \/ \E x \in Contexts : Cancel(x)
    BY <2>4, <2>11, <2>12 DEF vars, Cancel, calls, agents, bits, history
  <2>13. ASSUME NEW b \in Calls, b # c, Begin(b) PROVE Asking(c)' \/ spared' \/ UnderWay'
    <3>1. At("host") /\ tripped' = tripped /\ spared' = spared
      BY <2>2, <2>13 DEF Begin, bits, history
    <3>2. Asking(c)' <=> Asking(c)
      BY <1>0, <2>13 DEF Begin, AgentGoto, Asking, Agents
    <3> QED
      BY <2>2, <3>1, <3>2 DEF UnderWay, At
  <2>14. CASE \E b \in Calls : Fire(b) \/ Stop(b)
    <3>1. Asking(c) => Asking(c)'
      BY <1>0, <2>1, <2>14 DEF Fire, Stop, AgentGoto, Asking, Agents
    <3> QED
      BY <2>11, <2>14, <3>1 DEF Fire, Stop, calls, bits, history
  <2>15. CASE \E d \in Direct : Ask(d)
    <3>1. Asking(c)' <=> Asking(c)
      BY <1>0, <2>15 DEF Ask, AgentGoto, Asking, Agents
    <3> QED
      BY <2>11, <2>15, <3>1 DEF Ask, calls, bits, history
  <2>16. ASSUME NEW a \in Agents, AgentStep(a) PROVE Asking(c)' \/ spared' \/ UnderWay'
    <3>1. stack' = stack /\ spared' = spared /\ (tripped => tripped')
      BY <2>16 DEF AgentStep, LockImu, Check, SetInterrupt, Trip, Is, Breaker, UnlockImu,
                   calls, bits, history
    <3>2. CASE Trip(a)
      BY <3>2 DEF Trip, UnderWay
    <3>3. CASE a = c /\ SetInterrupt(a) /\ handler = "ign"
      BY <2>2, <3>1, <3>3
    <3>4. CASE ~Trip(a) /\ (a # c \/ ~SetInterrupt(a) \/ handler # "ign")
      <4>1. CASE a # c
        <5>1. PICK l : ipc' = [ipc EXCEPT ![a] = l]
          BY <2>16 DEF AgentStep, LockImu, Check, SetInterrupt, Trip, Is, Breaker, UnlockImu, AgentGoto
        <5>2. ipc'[c] = ipc[c]
          BY <1>0, <4>1, <5>1
        <5> QED
          BY <2>11, <3>1, <5>2 DEF Asking
      <4>2. CASE a = c /\ (LockImu(c) \/ Is(c) \/ Breaker(c) \/ UnlockImu(c))
        <5>1. Asking(c) => Asking(c)'
          BY <1>0, <4>2 DEF LockImu, Is, Breaker, UnlockImu, AgentGoto, Asking
        <5> QED
          BY <2>11, <3>1, <5>1
      <4>3. CASE a = c /\ Check(c)
        <5>1. ~Closed(own[c])
          BY <2>2 DEF Closed, IInv, InterpOK
        <5>2. ipc' = [ipc EXCEPT ![c] = "handler"]
          BY <4>3, <5>1 DEF Check, AgentGoto
        <5> QED
          BY <1>0, <5>2 DEF Asking
      <4>4. CASE a = c /\ SetInterrupt(c) /\ handler # "ign"
        <5>1. ipc' = [ipc EXCEPT ![c] = "trip"]
          BY <4>4 DEF SetInterrupt, AgentGoto
        <5> QED
          BY <1>0, <5>1 DEF Asking
      <4> QED
        BY <2>16, <3>4, <4>1, <4>2, <4>3, <4>4 DEF AgentStep
    <3> QED
      BY <3>2, <3>3, <3>4
  <2> QED
    BY <1>2, <2>6, <2>7, <2>8, <2>9, <2>10, <2>12, <2>13, <2>14, <2>15, <2>16 DEF Next, EvalLoop
<1> QED
  BY <1>1, <1>2

(* No cancellation of a call in progress is lost, however calls nest, share *)
(* contexts and requests merge: its watcher has yet to ask, or the flag is  *)
(* set, or a KeyboardInterrupt is leaving the calls (cpython.go, watch and  *)
(* Interrupt; hostfunc.go, callHost).  NoLostInterrupt is about the flag.   *)
THEOREM CancelHeard == Spec => []CancelNotLost
<1>1. Init => CancelInv
  BY DEF Init, CancelInv, Once, Distinct, OpenRuns, Watched, CancelNotLost, Watches, Calling
<1>2. IInv /\ CancelInv /\ [Next]_vars => CancelInv'
  BY CallsChange, OpenRunsNext, WatchedNext, CancelNext DEF IInv, CancelInv
<1>3. CancelInv => CancelNotLost
  BY DEF CancelInv
<1> QED
  BY <1>1, <1>2, <1>3, Invariant, PTL DEF Spec

=============================================================================
