---------------------------- MODULE AtomicInstall ----------------------------
(***************************************************************************)
(* What the cache of the standard library promises (stdlib.Home): a file   *)
(* appears under its name all at once and stays, whoever installs it, and  *)
(* a process that is given the directory finds every file in it.           *)
(***************************************************************************)
CONSTANTS Processes, Files

VARIABLES
  content,  \* what each file's name stands for
  status    \* where each process is with its call of Home

vars == <<content, status>>

Init ==
  /\ content = [f \in Files |-> "none"]
  /\ status = [p \in Processes |-> "out"]

Become(p, s) == status' = [status EXCEPT ![p] = s]

Enter(p) == status[p] # "in" /\ Become(p, "in") /\ UNCHANGED content

Install(p, f) ==
  /\ status[p] = "in" /\ content[f] = "none"
  /\ content' = [content EXCEPT ![f] = "complete"]
  /\ UNCHANGED status

Finish(p) ==
  /\ status[p] = "in"
  /\ \A f \in Files : content[f] = "complete"
  /\ Become(p, "home") /\ UNCHANGED content

(* An error is returned, or the process is killed. *)
GiveUp(p) ==
  /\ status[p] = "in"
  /\ Become(p, "failed") \/ Become(p, "out")
  /\ UNCHANGED content

Next ==
  \E p \in Processes :
    Enter(p) \/ Finish(p) \/ GiveUp(p) \/ \E f \in Files : Install(p, f)

Spec == Init /\ [][Next]_vars

=============================================================================
