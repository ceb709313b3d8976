------------------------------- MODULE SlotMap ------------------------------
(***************************************************************************)
(* What libpython/tls.go promises of C's _Thread_local variables: every    *)
(* thread id has one slot for ever, no two ids the same, and a lookup      *)
(* never gives anything else.                                              *)
(***************************************************************************)
CONSTANTS Ids, Slots, NoSlot

VARIABLES
  slot,   \* the slot of each id, or NoSlot
  given   \* what lookups have given: pairs of an id and a slot

Init ==
  /\ slot = [id \in Ids |-> NoSlot]
  /\ given = {}

(* The first lookup of an id allocates its slot. *)
Assign(id) ==
  /\ slot[id] = NoSlot
  /\ \E s \in Slots :
       /\ \A i \in Ids : slot[i] # s
       /\ slot' = [slot EXCEPT ![id] = s]
  /\ UNCHANGED given

Give(id) ==
  /\ slot[id] # NoSlot
  /\ given' = given \cup {<<id, slot[id]>>}
  /\ UNCHANGED slot

Next == \E id \in Ids : Assign(id) \/ Give(id)

Spec == Init /\ [][Next]_<<slot, given>>

=============================================================================
