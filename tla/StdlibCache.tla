----------------------------- MODULE StdlibCache -----------------------------
(***************************************************************************)
(* The cache of the standard library (src/stdlib/stdlib.go): Home installs *)
(* python314.zip and then the sources of the frozen modules, one after the *)
(* other, each written to a temporary file that is renamed to its name.    *)
(* Several processes may do so at once on one directory.  An operation of  *)
(* the file system may fail, and a process may be killed between any two.  *)
(*                                                                         *)
(* The files are the numbers 1, 2, ...: 1 is the zip.                      *)
(***************************************************************************)
EXTENDS Naturals

CONSTANTS
  Processes,
  NFiles,      \* how many files there are to install
  MaxFaults,   \* how many operations fail
  MaxKills     \* how many processes are killed

ASSUME StdlibCacheAssumption ==
  NFiles \in Nat \ {0} /\ MaxFaults \in Nat /\ MaxKills \in Nat

Files == 1..NFiles

VARIABLES
  content,  \* the file under each name
  status,   \* outside Home, in it, or what it returned
  pc, file, \* where each process is, with which file
  tmp,      \* its temporary file
  err,      \* the processes whose writeFileAtomic returns an error
  left,     \* how many temporary files are left behind
  faults,   \* how many operations have failed,
  kills,    \* and how many processes were killed
  faulty,   \* history: the processes an operation of whose call has failed
  unremoved \* history: how many times Remove was what failed

disk == <<content, tmp, left>>
trouble == <<faults, kills, faulty, unremoved>>
cacheVars == <<disk, status, pc, file, err, trouble>>

TypeOK ==
  /\ content \in [Files -> {"none", "partial", "complete"}]
  /\ status \in [Processes -> {"out", "in", "home", "failed"}]
  /\ pc \in [Processes -> {"out", "stat", "create", "copy", "close",
                           "rename", "check", "remove", "next"}]
  /\ file \in [Processes -> 1..(NFiles + 1)]
  /\ tmp \in [Processes -> {"none", "empty", "partial", "complete"}]
  /\ err \subseteq Processes
  /\ faulty \subseteq Processes
  /\ faults \in 0..MaxFaults /\ unremoved \in 0..faults
  /\ kills \in 0..MaxKills
  /\ left \in 0..(MaxFaults + MaxKills)

CacheInit ==
  /\ content = [f \in Files |-> "none"]
  /\ status = [p \in Processes |-> "out"]
  /\ pc = [p \in Processes |-> "out"]
  /\ file = [p \in Processes |-> 1]
  /\ tmp = [p \in Processes |-> "none"]
  /\ err = {}
  /\ faulty = {}
  /\ left = 0 /\ faults = 0 /\ kills = 0 /\ unremoved = 0

-----------------------------------------------------------------------------

Goto(p, l) == pc' = [pc EXCEPT ![p] = l]
Keep(p, t) == tmp' = [tmp EXCEPT ![p] = t]
Raise(p) == err' = err \cup {p}

(* An operation of p fails. *)
Fault(p) ==
  /\ faults < MaxFaults /\ faults' = faults + 1
  /\ faulty' = faulty \cup {p}
  /\ UNCHANGED <<kills, unremoved>>

(* Home of p is over: what it has not removed stays where it is.            *)
Leave(p, s) ==
  /\ status' = [status EXCEPT ![p] = s]
  /\ Goto(p, "out")
  /\ Keep(p, "none")
  /\ left' = left + (IF tmp[p] = "none" THEN 0 ELSE 1)
  /\ file' = [file EXCEPT ![p] = 1]
  /\ err' = err \ {p}

(* The next part of the source is in the temporary file. *)
More(p) ==
  /\ tmp[p] # "complete"
  /\ Keep(p, IF tmp[p] = "empty" THEN "partial" ELSE "complete")

(* Mistakes these actions could make; the runs show that their properties   *)
(* would notice.                                                            *)

CopyFailsUnseen(p) ==  \* an error of Copy is not looked at
  /\ pc[p] = "copy"
  /\ \/ More(p) /\ UNCHANGED <<pc, trouble>>
     \/ tmp[p] = "complete" /\ Goto(p, "close") /\ UNCHANGED <<tmp, trouble>>
     \/ Fault(p) /\ Goto(p, "close") /\ UNCHANGED tmp
  /\ UNCHANGED <<content, left, status, file, err>>

CopyLeaves(p) ==  \* an error of Copy returns without the deferred Remove
  /\ pc[p] = "copy"
  /\ \/ More(p) /\ UNCHANGED <<left, status, pc, file, err, trouble>>
     \/ /\ tmp[p] = "complete" /\ Goto(p, "close")
        /\ UNCHANGED <<tmp, left, status, file, err, trouble>>
     \/ Fault(p) /\ Leave(p, "failed")
  /\ UNCHANGED content

CheckNot(p) ==  \* a failed rename is an error
  /\ pc[p] = "check"
  /\ Raise(p)
  /\ Goto(p, "remove")
  /\ UNCHANGED <<disk, status, file, trouble>>

CheckAgain(p) ==  \* a failed rename is tried again
  /\ pc[p] = "check"
  /\ Goto(p, "rename")
  /\ UNCHANGED <<disk, status, file, err, trouble>>

-----------------------------------------------------------------------------

Home(p) ==
  /\ pc[p] = "out"
  /\ status' = [status EXCEPT ![p] = "in"]
  /\ Goto(p, "stat")
  /\ faulty' = faulty \ {p}
  /\ UNCHANGED <<disk, file, err, faults, kills, unremoved>>

(* Is the next file there?  Are all of them?  Any error of Stat is taken    *)
(* for a file that is not there.                                            *)
Stat(p) ==
  /\ pc[p] = "stat"
  /\ IF file[p] > NFiles THEN Leave(p, "home") /\ UNCHANGED trouble
     ELSE /\ \/ /\ content[file[p]] # "none"
                /\ file' = [file EXCEPT ![p] = @ + 1]
                /\ UNCHANGED <<pc, trouble>>
             \/ /\ IF content[file[p]] = "none" THEN UNCHANGED trouble ELSE Fault(p)
                /\ Goto(p, "create")
                /\ UNCHANGED file
          /\ UNCHANGED <<tmp, left, status, err>>
  /\ UNCHANGED content

(* MkdirAll, Open of a frozen source and, in writeFileAtomic, CreateTemp,   *)
(* with a name that no other file has.                                      *)
Create(p) ==
  /\ pc[p] = "create"
  /\ \/ /\ Keep(p, "empty") /\ Goto(p, "copy")
        /\ UNCHANGED <<left, status, file, err, trouble>>
     \/ Fault(p) /\ Leave(p, "failed")
  /\ UNCHANGED content

Copy(p) ==
  /\ pc[p] = "copy"
  /\ \/ More(p) /\ UNCHANGED <<pc, err, trouble>>
     \/ tmp[p] = "complete" /\ Goto(p, "close") /\ UNCHANGED <<tmp, err, trouble>>
     \/ Fault(p) /\ Raise(p) /\ Goto(p, "remove") /\ UNCHANGED tmp
  /\ UNCHANGED <<content, left, status, file>>

Close(p) ==
  /\ pc[p] = "close"
  /\ \/ Goto(p, "rename") /\ UNCHANGED <<err, trouble>>
     \/ Fault(p) /\ Raise(p) /\ Goto(p, "remove")
  /\ UNCHANGED <<disk, status, file>>

(* A file that is there already is replaced, or makes the rename fail.      *)
Rename(p) ==
  /\ pc[p] = "rename"
  /\ \/ /\ content' = [content EXCEPT ![file[p]] = tmp[p]]
        /\ Keep(p, "none") /\ Goto(p, "remove")
        /\ UNCHANGED trouble
     \/ /\ IF content[file[p]] # "none" THEN UNCHANGED trouble ELSE Fault(p)
        /\ Goto(p, "check")
        /\ UNCHANGED <<content, tmp>>
  /\ UNCHANGED <<left, status, file, err>>

(* "Another process winning the race is still success." *)
Check(p) ==
  /\ pc[p] = "check"
  /\ \/ content[file[p]] # "none" /\ UNCHANGED <<err, trouble>>
     \/ content[file[p]] = "none" /\ Raise(p) /\ UNCHANGED trouble
     \/ Fault(p) /\ Raise(p)
  /\ Goto(p, "remove")
  /\ UNCHANGED <<disk, status, file>>

(* The deferred Remove of the temporary file, if it is still there; nothing *)
(* looks at an error of it.                                                 *)
Remove(p) ==
  /\ pc[p] = "remove"
  /\ Keep(p, "none") /\ Goto(p, "next")
  /\ \/ UNCHANGED <<left, trouble>>
     \/ /\ tmp[p] # "none" /\ left' = left + 1
        /\ faults < MaxFaults /\ faults' = faults + 1
        /\ unremoved' = unremoved + 1
        /\ UNCHANGED <<kills, faulty>>
  /\ UNCHANGED <<content, status, file, err>>

(* writeFileAtomic has returned: the next file, or the end, if it has       *)
(* failed or the reader of a frozen source fails to close.                  *)
NextFile(p) ==
  /\ pc[p] = "next"
  /\ \/ /\ p \notin err
        /\ file' = [file EXCEPT ![p] = @ + 1]
        /\ Goto(p, "stat")
        /\ UNCHANGED <<tmp, left, status, err, trouble>>
     \/ p \in err /\ Leave(p, "failed") /\ UNCHANGED trouble
     \/ p \notin err /\ file[p] > 1 /\ Fault(p) /\ Leave(p, "failed")
  /\ UNCHANGED content

Kill(p) ==
  /\ pc[p] # "out" /\ kills < MaxKills
  /\ Leave(p, "out")
  /\ kills' = kills + 1
  /\ UNCHANGED <<content, faults, faulty, unremoved>>

-----------------------------------------------------------------------------

Step(p) ==
  \/ Stat(p) \/ Create(p) \/ Copy(p) \/ Close(p) \/ Rename(p) \/ Check(p)
  \/ Remove(p) \/ NextFile(p)

CacheNext == \E p \in Processes : Home(p) \/ Step(p) \/ Kill(p)

CacheSpec == CacheInit /\ [][CacheNext]_cacheVars

(* Processes run. *)
FairSpec == CacheSpec /\ \A p \in Processes : WF_cacheVars(Step(p))

-----------------------------------------------------------------------------

(* "Rename is atomic: concurrent first runs cannot observe a partial file": *)
(* a name stands for nothing or for the complete file, for good, and Home   *)
(* gives its directory to nobody before it holds all of them.               *)
Abstract == INSTANCE AtomicInstall
InstallsAtomically == Abstract!Spec

(* "Another process winning the race is still success": Home fails only in  *)
(* a process one of whose own operations has failed.                        *)
FailsOnlyOnFault ==
  \A p \in Processes : status[p] = "failed" => p \in faulty

(* Temporary files are left behind only by processes that were killed or    *)
(* could not remove theirs, one by each.                                    *)
LeftBehindByKilled ==
  /\ left <= kills + unremoved
  /\ \A p \in Processes : pc[p] = "out" => tmp[p] = "none"

(* A call of Home ends, whatever the others do. *)
HomeReturns == \A p \in Processes : status[p] = "in" ~> status[p] # "in"

=============================================================================
