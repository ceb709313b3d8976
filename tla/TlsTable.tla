------------------------------ MODULE TlsTable ------------------------------
(***************************************************************************)
(* libpython/tls.go: the table of thread-local slots, indexed by tls.ID.   *)
(* Readers take no lock; a missing slot is added under tlsMu to a copy of  *)
(* the table, which then replaces it.  Two goroutines may look up the same *)
(* id: the libc.TLS of Interrupt borrows the id of the interpreter's.      *)
(*                                                                         *)
(* No table and an empty one are the same here, as they are to the code.   *)
(***************************************************************************)
EXTENDS Naturals, Sequences

CONSTANTS
  Goroutines,
  Ids,     \* of the libc.TLS in use
  Slots,   \* addresses of tlsVars that new may return
  NoSlot,  \* a nil entry
  Nobody   \* tlsMu is free

ASSUME TlsTableAssumption ==
  /\ Ids \subseteq Nat
  /\ NoSlot \notin Slots
  /\ Nobody \notin Goroutines

VARIABLES
  table,   \* *tlsTable
  tlsMu,   \* who holds it
  pc,
  want,    \* the id a goroutine looks up
  seen,    \* the table it has loaded: t, then old
  result,  \* what it is about to return
  given    \* what lookups have returned: pairs of an id and a slot

vars == <<table, tlsMu, pc, want, seen, result, given>>

Tables == Seq(Slots \cup {NoSlot})

TypeOK ==
  /\ table \in Tables
  /\ tlsMu \in Goroutines \cup {Nobody}
  /\ pc \in [Goroutines -> {"idle", "load", "look", "lock", "locked", "grow", "unlock", "done"}]
  /\ want \in [Goroutines -> Ids]
  /\ seen \in [Goroutines -> Tables]
  /\ result \in [Goroutines -> Slots \cup {NoSlot}]
  /\ given \subseteq Ids \X Slots

Init ==
  /\ table = << >>
  /\ tlsMu = Nobody
  /\ pc = [g \in Goroutines |-> "idle"]
  /\ want \in [Goroutines -> Ids]
  /\ seen = [g \in Goroutines |-> << >>]
  /\ result = [g \in Goroutines |-> NoSlot]
  /\ given = {}

-----------------------------------------------------------------------------

Goto(g, l) == pc' = [pc EXCEPT ![g] = l]

(* The entry of id in t, or nil when t is too short. *)
At(t, id) == IF id < Len(t) THEN t[id + 1] ELSE NoSlot

(* The copy of old with slot s for id, half as long again if it must grow. *)
Grown(old, id, s) ==
  LET n == IF id >= Len(old) THEN id + 1 + id \div 2 ELSE Len(old) IN
  [i \in 1..n |-> IF i = id + 1 THEN s ELSE At(old, i - 1)]

Fresh == Slots \ {table[i] : i \in 1..Len(table)}

(* Mistakes these actions could make; the runs show that their properties   *)
(* would notice.                                                            *)

AgainUnchecked(g) ==  \* tlsVarsSlow does not look again
  /\ pc[g] = "locked"
  /\ seen' = [seen EXCEPT ![g] = table]
  /\ Goto(g, "grow")
  /\ UNCHANGED <<table, tlsMu, want, result, given>>

LookSpins(g) ==  \* the reader waits for somebody else to add the slot
  /\ pc[g] = "look"
  /\ LET s == At(seen[g], want[g]) IN
     IF s # NoSlot
     THEN Goto(g, "done") /\ result' = [result EXCEPT ![g] = s]
     ELSE Goto(g, "load") /\ UNCHANGED result
  /\ UNCHANGED <<table, tlsMu, want, seen, given>>

-----------------------------------------------------------------------------

Start(g, id) ==
  /\ pc[g] = "idle"
  /\ want' = [want EXCEPT ![g] = id]
  /\ Goto(g, "load")
  /\ UNCHANGED <<table, tlsMu, seen, result, given>>

Load(g) ==
  /\ pc[g] = "load"
  /\ seen' = [seen EXCEPT ![g] = table]
  /\ Goto(g, "look")
  /\ UNCHANGED <<table, tlsMu, want, result, given>>

Look(g) ==
  /\ pc[g] = "look"
  /\ LET s == At(seen[g], want[g]) IN
     IF s # NoSlot
     THEN Goto(g, "done") /\ result' = [result EXCEPT ![g] = s]
     ELSE Goto(g, "lock") /\ UNCHANGED result
  /\ UNCHANGED <<table, tlsMu, want, seen, given>>

Lock(g) ==
  /\ pc[g] = "lock"
  /\ tlsMu = Nobody
  /\ tlsMu' = g
  /\ Goto(g, "locked")
  /\ UNCHANGED <<table, want, seen, result, given>>

Again(g) ==
  /\ pc[g] = "locked"
  /\ seen' = [seen EXCEPT ![g] = table]
  /\ LET s == At(table, want[g]) IN
     IF s # NoSlot
     THEN Goto(g, "unlock") /\ result' = [result EXCEPT ![g] = s]
     ELSE Goto(g, "grow") /\ UNCHANGED result
  /\ UNCHANGED <<table, tlsMu, want, given>>

Grow(g) ==
  /\ pc[g] = "grow"
  /\ \E s \in Fresh :
       /\ table' = Grown(seen[g], want[g], s)
       /\ result' = [result EXCEPT ![g] = s]
  /\ Goto(g, "unlock")
  /\ UNCHANGED <<tlsMu, want, seen, given>>

Unlock(g) ==
  /\ pc[g] = "unlock"
  /\ tlsMu' = Nobody
  /\ Goto(g, "done")
  /\ UNCHANGED <<table, want, seen, result, given>>

Return(g) ==
  /\ pc[g] = "done"
  /\ given' = given \cup {<<want[g], result[g]>>}
  /\ seen' = [seen EXCEPT ![g] = << >>]
  /\ result' = [result EXCEPT ![g] = NoSlot]
  /\ Goto(g, "idle")
  /\ UNCHANGED <<table, tlsMu, want>>

Step(g) ==
  Load(g) \/ Look(g) \/ Lock(g) \/ Again(g) \/ Grow(g) \/ Unlock(g) \/ Return(g)

Next == \E g \in Goroutines : Step(g) \/ \E id \in Ids : Start(g, id)

Spec == Init /\ [][Next]_vars

(* A lookup that has begun goes on, and sync.Mutex starves nobody. *)
FairSpec ==
  Spec /\ \A g \in Goroutines : WF_vars(Step(g)) /\ SF_vars(Lock(g))

-----------------------------------------------------------------------------

(* "copy-on-write; entries are stable": whatever a lookup has ever returned *)
(* for an id is still what the table holds for it, so that a variable's     *)
(* address stays good while other threads are added.                        *)
GivenIsStable == \A x \in given : At(table, x[1]) = x[2]

(* No two ids share their thread-local variables. *)
SlotsDistinct ==
  \A i, j \in Ids : At(table, i) # NoSlot /\ At(table, i) = At(table, j) => i = j

Promise == INSTANCE SlotMap WITH slot <- [id \in Ids |-> At(table, id)]

(* The lock-free reader and the copying writer implement the simple map. *)
ImplementsSlotMap == Promise!Spec

(* Every lookup returns, however many others there are. *)
LookupsReturn == \A g \in Goroutines : pc[g] = "load" ~> pc[g] = "idle"

=============================================================================
