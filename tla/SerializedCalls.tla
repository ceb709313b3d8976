--------------------------- MODULE SerializedCalls ---------------------------
(***************************************************************************)
(* What an Interpreter promises its callers ("calls are serialized",       *)
(* "ErrClosed is returned by every method [...] that has been closed"):    *)
(* the goroutine that is inside may go further inside, from its host       *)
(* functions, and every other one waits until it has left; once the        *)
(* interpreter is closed or crashed nobody goes further inside.            *)
(***************************************************************************)
EXTENDS Naturals

CONSTANT Goroutines

VARIABLES
  level,  \* how many methods of each goroutine are in progress
  dead    \* the interpreter is closed or crashed

vars == <<level, dead>>

Init ==
  /\ level = [g \in Goroutines |-> 0]
  /\ dead = FALSE

(* A method passes enter(). *)
GoIn(g) ==
  /\ ~dead
  /\ \A h \in Goroutines \ {g} : level[h] = 0
  /\ level' = [level EXCEPT ![g] = @ + 1]
  /\ dead' \in {dead, TRUE}

(* A method returns; the interpreter may have crashed in it. *)
GoOut(g) ==
  /\ level[g] > 0
  /\ level' = [level EXCEPT ![g] = @ - 1]
  /\ dead' \in {dead, TRUE}

Die ==
  /\ dead' = TRUE
  /\ \E g \in Goroutines : level[g] > 0
  /\ UNCHANGED level

Next == Die \/ \E g \in Goroutines : GoIn(g) \/ GoOut(g)

Spec == Init /\ [][Next]_vars

=============================================================================
