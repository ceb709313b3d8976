--------------------------- MODULE TlsTableProofs ---------------------------
(***************************************************************************)
(* Theorems about TlsTable, for any number of goroutines, any thread ids   *)
(* and any addresses: the lock-free reader and the copying writer keep the *)
(* promise of SlotMap.                                                     *)
(***************************************************************************)
EXTENDS TlsTable, TLAPS

(* Whoever is in the slow path holds tlsMu. *)
SlowHoldsMu ==
  \A g \in Goroutines : pc[g] \in {"locked", "grow", "unlock"} => tlsMu = g

(* A table that a reader has loaded may miss slots, never have others. *)
SeenIsOlder ==
  \A g \in Goroutines, id \in Ids :
    pc[g] = "look" /\ At(seen[g], id) # NoSlot => At(table, id) = At(seen[g], id)

(* What is about to be copied is still the table, and still has no slot. *)
CopiesTheTable ==
  \A g \in Goroutines :
    pc[g] = "grow" => seen[g] = table /\ At(table, want[g]) = NoSlot

ResultIsHeld ==
  \A g \in Goroutines :
    pc[g] \in {"unlock", "done"} =>
      result[g] # NoSlot /\ result[g] = At(table, want[g])

TableInv ==
  /\ TypeOK
  /\ SlowHoldsMu
  /\ SeenIsOlder
  /\ CopiesTheTable
  /\ ResultIsHeld
  /\ GivenIsStable
  /\ SlotsDistinct

-----------------------------------------------------------------------------

(* What a table holds for an id is a slot or nil. *)
LEMMA AtType ==
  ASSUME NEW t \in Tables, NEW id \in Nat
  PROVE  At(t, id) \in Slots \cup {NoSlot}
  BY DEF At, Tables

(* A grown table is the old one with one more slot. *)
LEMMA GrownAt ==
  ASSUME NEW old \in Tables, NEW id \in Nat, NEW s \in Slots
  PROVE  /\ Grown(old, id, s) \in Tables
         /\ \A i \in Nat : At(Grown(old, id, s), i) = IF i = id THEN s ELSE At(old, i)
  <1> DEFINE n == IF id >= Len(old) THEN id + 1 + id \div 2 ELSE Len(old)
             new == [i \in 1..n |-> IF i = id + 1 THEN s ELSE At(old, i - 1)]
  <1>1. Len(old) \in Nat
    BY DEF Tables
  <1>2. id \div 2 \in Nat
    BY SMT
  <1>3. n \in Nat /\ n >= id + 1 /\ n >= Len(old)
    BY <1>1, <1>2
  <1>4. Grown(old, id, s) = new
    BY DEF Grown
  <1> HIDE DEF n
  <1>5. \A i \in 1..n : new[i] \in Slots \cup {NoSlot}
    <2> SUFFICES ASSUME NEW i \in 1..n
                 PROVE  new[i] \in Slots \cup {NoSlot}
      OBVIOUS
    <2>1. i - 1 \in Nat
      BY <1>3
    <2>2. At(old, i - 1) \in Slots \cup {NoSlot}
      BY <2>1, AtType
    <2> QED
      BY <2>2
  <1>6. new \in Seq(Slots \cup {NoSlot}) /\ Len(new) = n
    BY <1>3, <1>5
  <1>7. ASSUME NEW i \in Nat
        PROVE  At(new, i) = IF i = id THEN s ELSE At(old, i)
    <2>1. CASE i < n
      <3>1. i + 1 \in 1..n /\ (i + 1) - 1 = i
        BY <2>1, <1>3
      <3>2. new[i + 1] = IF i + 1 = id + 1 THEN s ELSE At(old, (i + 1) - 1)
        BY <3>1
      <3>3. i + 1 = id + 1 <=> i = id
        OBVIOUS
      <3>4. At(new, i) = new[i + 1]
        BY <1>6, <2>1 DEF At
      <3> QED
        BY <3>1, <3>2, <3>3, <3>4
    <2>2. CASE ~(i < n)
      <3>1. i # id /\ ~(i < Len(old))
        BY <2>2, <1>1, <1>3
      <3> QED
        BY <3>1, <2>2, <1>6 DEF At
    <2> QED
      BY <2>1, <2>2
  <1> QED
    BY <1>4, <1>6, <1>7 DEF Tables

(* A fresh slot belongs to no id. *)
LEMMA FreshIsNew ==
  ASSUME TypeOK, NEW s \in Fresh, NEW id \in Nat
  PROVE  s \in Slots /\ s # NoSlot /\ At(table, id) # s
  BY TlsTableAssumption DEF Fresh, At, TypeOK, Tables

-----------------------------------------------------------------------------

(* Adding the slot of g's id to the table changes no other entry. *)
LEMMA GrowAt ==
  ASSUME TableInv, NEW g \in Goroutines, Grow(g)
  PROVE  /\ table' \in Tables
         /\ result'[g] \in Slots
         /\ \A i \in Nat : At(table', i) = IF i = want[g] THEN result'[g] ELSE At(table, i)
         /\ \A i \in Nat : At(table, i) # result'[g]
         /\ \A h \in Goroutines : h # g => result'[h] = result[h]
         /\ At(table, want[g]) = NoSlot
  <1>1. PICK s \in Fresh : /\ table' = Grown(seen[g], want[g], s)
                           /\ result' = [result EXCEPT ![g] = s]
    BY DEF Grow
  <1>2. s \in Slots /\ \A i \in Nat : At(table, i) # s
    BY FreshIsNew DEF TableInv
  <1>3. want[g] \in Nat /\ table \in Tables /\ result \in [Goroutines -> Slots \cup {NoSlot}]
    BY TlsTableAssumption DEF TableInv, TypeOK
  <1>4. seen[g] = table /\ At(table, want[g]) = NoSlot
    BY DEF TableInv, CopiesTheTable, Grow
  <1>5. /\ table' \in Tables
        /\ \A i \in Nat : At(table', i) = IF i = want[g] THEN s ELSE At(table, i)
    BY <1>1, <1>2, <1>3, <1>4, GrownAt
  <1>6. result'[g] = s /\ \A h \in Goroutines : h # g => result'[h] = result[h]
    BY <1>1, <1>3
  <1> QED
    BY <1>2, <1>4, <1>5, <1>6

(* The empty table satisfies the invariant. *)
LEMMA InitTable == Init => TableInv
  <1> SUFFICES ASSUME Init PROVE TableInv
    OBVIOUS
  <1>1. table \in Tables /\ << >> \in Tables /\ \A id \in Nat : At(<< >>, id) = NoSlot
    BY DEF Init, At, Tables
  <1>2. TypeOK
    BY <1>1 DEF Init, TypeOK
  <1>3. SlotsDistinct
    BY <1>1, TlsTableAssumption DEF Init, SlotsDistinct
  <1>4. SlowHoldsMu /\ SeenIsOlder /\ CopiesTheTable /\ ResultIsHeld /\ GivenIsStable
    BY DEF Init, SlowHoldsMu, SeenIsOlder, CopiesTheTable, ResultIsHeld, GivenIsStable
  <1> QED
    BY <1>2, <1>3, <1>4 DEF TableInv

(* Every step keeps it, action by action. *)
LEMMA NextTable == TableInv /\ [Next]_vars => TableInv'
  <1> SUFFICES ASSUME TableInv, [Next]_vars PROVE TableInv'
    OBVIOUS
  <1> USE TlsTableAssumption
  <1>t. TypeOK
    BY DEF TableInv
  <1>0. CASE UNCHANGED vars
    BY <1>0 DEF vars, TableInv, TypeOK, SlowHoldsMu, SeenIsOlder, CopiesTheTable,
                ResultIsHeld, GivenIsStable, SlotsDistinct, At
  <1>s. ASSUME NEW g \in Goroutines, NEW id \in Ids, Start(g, id)
        PROVE  TableInv'
    <2>1. TypeOK'
      BY <1>s, <1>t DEF Start, Goto, TypeOK
    <2>2. \A h \in Goroutines : h # g => pc'[h] = pc[h] /\ want'[h] = want[h]
      BY <1>s, <1>t DEF Start, Goto, TypeOK
    <2>3. pc'[g] = "load"
      BY <1>s, <1>t DEF Start, Goto, TypeOK
    <2>4. UNCHANGED <<table, tlsMu, seen, result, given>>
      BY <1>s DEF Start
    <2>5. SlowHoldsMu' /\ CopiesTheTable' /\ ResultIsHeld'
      BY <2>2, <2>3, <2>4 DEF TableInv, SlowHoldsMu, CopiesTheTable, ResultIsHeld, At
    <2>6. SeenIsOlder' /\ GivenIsStable' /\ SlotsDistinct'
      BY <2>2, <2>3, <2>4 DEF TableInv, SeenIsOlder, GivenIsStable, SlotsDistinct, At
    <2> QED
      BY <2>1, <2>5, <2>6 DEF TableInv
  <1>l. ASSUME NEW g \in Goroutines, Load(g)
        PROVE  TableInv'
    <2>1. TypeOK'
      BY <1>l, <1>t DEF Load, Goto, TypeOK
    <2>2. \A h \in Goroutines : h # g => pc'[h] = pc[h] /\ seen'[h] = seen[h]
      BY <1>l, <1>t DEF Load, Goto, TypeOK
    <2>3. pc'[g] = "look" /\ seen'[g] = table
      BY <1>l, <1>t DEF Load, Goto, TypeOK
    <2>4. UNCHANGED <<table, tlsMu, want, result, given>>
      BY <1>l DEF Load
    <2>5. SlowHoldsMu' /\ CopiesTheTable' /\ ResultIsHeld'
      BY <2>2, <2>3, <2>4 DEF TableInv, SlowHoldsMu, CopiesTheTable, ResultIsHeld, At
    <2>6. SeenIsOlder' /\ GivenIsStable' /\ SlotsDistinct'
      BY <2>2, <2>3, <2>4 DEF TableInv, SeenIsOlder, GivenIsStable, SlotsDistinct, At
    <2> QED
      BY <2>1, <2>5, <2>6 DEF TableInv
  <1>k. ASSUME NEW g \in Goroutines, Look(g)
        PROVE  TableInv'
    <2> DEFINE s == At(seen[g], want[g])
    <2>a. want[g] \in Ids /\ want[g] \in Nat /\ s \in Slots \cup {NoSlot}
      BY <1>t, AtType DEF TypeOK
    <2>b. s # NoSlot => At(table, want[g]) = s
      BY <1>k, <2>a DEF TableInv, SeenIsOlder, Look
    <2> HIDE DEF s
    <2>1. \/ s # NoSlot /\ Goto(g, "done") /\ result' = [result EXCEPT ![g] = s]
          \/ Goto(g, "lock") /\ UNCHANGED result
      BY <1>k DEF Look, s
    <2>2. UNCHANGED <<table, tlsMu, want, seen, given>> /\ pc[g] = "look"
      BY <1>k DEF Look
    <2>3. TypeOK'
      BY <2>a, <2>1, <2>2, <1>t DEF Goto, TypeOK
    <2>4. \A h \in Goroutines : h # g => pc'[h] = pc[h] /\ result'[h] = result[h]
      BY <2>1, <1>t DEF Goto, TypeOK
    <2>5. \/ pc'[g] = "done" /\ result'[g] = s /\ s # NoSlot
          \/ pc'[g] = "lock"
      BY <2>1, <1>t DEF Goto, TypeOK
    <2>6. SlowHoldsMu' /\ CopiesTheTable'
      BY <2>2, <2>4, <2>5 DEF TableInv, SlowHoldsMu, CopiesTheTable, At
    <2>7. ResultIsHeld'
      BY <2>b, <2>2, <2>4, <2>5 DEF TableInv, ResultIsHeld, At
    <2>8. SeenIsOlder' /\ GivenIsStable' /\ SlotsDistinct'
      BY <2>2, <2>4, <2>5 DEF TableInv, SeenIsOlder, GivenIsStable, SlotsDistinct, At
    <2> QED
      BY <2>3, <2>6, <2>7, <2>8 DEF TableInv
  <1>m. ASSUME NEW g \in Goroutines, Lock(g)
        PROVE  TableInv'
    <2>1. TypeOK'
      BY <1>m, <1>t DEF Lock, Goto, TypeOK
    <2>2. \A h \in Goroutines : h # g => pc'[h] = pc[h]
      BY <1>m, <1>t DEF Lock, Goto, TypeOK
    <2>3. pc'[g] = "locked" /\ tlsMu = Nobody /\ tlsMu' = g
      BY <1>m, <1>t DEF Lock, Goto, TypeOK
    <2>4. UNCHANGED <<table, want, seen, result, given>>
      BY <1>m DEF Lock
    <2>5. SlowHoldsMu'
      BY <2>2, <2>3 DEF TableInv, SlowHoldsMu
    <2>6. CopiesTheTable' /\ ResultIsHeld'
      BY <2>2, <2>3, <2>4 DEF TableInv, CopiesTheTable, ResultIsHeld, At
    <2>7. SeenIsOlder' /\ GivenIsStable' /\ SlotsDistinct'
      BY <2>2, <2>3, <2>4 DEF TableInv, SeenIsOlder, GivenIsStable, SlotsDistinct, At
    <2> QED
      BY <2>1, <2>5, <2>6, <2>7 DEF TableInv
  <1>a. ASSUME NEW g \in Goroutines, Again(g)
        PROVE  TableInv'
    <2> DEFINE s == At(table, want[g])
    <2>a. want[g] \in Nat /\ s \in Slots \cup {NoSlot}
      BY <1>t, AtType DEF TypeOK
    <2>1. \/ s # NoSlot /\ Goto(g, "unlock") /\ result' = [result EXCEPT ![g] = s]
          \/ s = NoSlot /\ Goto(g, "grow") /\ UNCHANGED result
      BY <1>a DEF Again
    <2>2. /\ UNCHANGED <<table, tlsMu, want, given>> /\ pc[g] = "locked"
          /\ seen' = [seen EXCEPT ![g] = table]
      BY <1>a DEF Again
    <2>b. At(table', want'[g]) = s
      BY <2>2
    <2> HIDE DEF s
    <2>3. TypeOK'
      BY <2>a, <2>1, <2>2, <1>t DEF Goto, TypeOK
    <2>4. \A h \in Goroutines : h # g => pc'[h] = pc[h] /\ result'[h] = result[h] /\ seen'[h] = seen[h]
      BY <2>1, <2>2, <1>t DEF Goto, TypeOK
    <2>5. \/ pc'[g] = "unlock" /\ result'[g] = s /\ s # NoSlot
          \/ pc'[g] = "grow" /\ s = NoSlot
      BY <2>1, <1>t DEF Goto, TypeOK
    <2>6. seen'[g] = table'
      BY <2>2, <1>t DEF TypeOK
    <2>7. SlowHoldsMu'
      BY <2>2, <2>4, <2>5 DEF TableInv, SlowHoldsMu
    <2>8. CopiesTheTable'
      <3> SUFFICES ASSUME NEW h \in Goroutines, pc'[h] = "grow"
                   PROVE  seen'[h] = table' /\ At(table', want'[h]) = NoSlot
        BY DEF CopiesTheTable
      <3>1. CASE h = g
        BY <3>1, <2>b, <2>5, <2>6
      <3>2. CASE h # g
        BY <3>2, <2>2, <2>4 DEF TableInv, CopiesTheTable
      <3> QED
        BY <3>1, <3>2
    <2>9. ResultIsHeld'
      <3> SUFFICES ASSUME NEW h \in Goroutines, pc'[h] \in {"unlock", "done"}
                   PROVE  result'[h] # NoSlot /\ result'[h] = At(table', want'[h])
        BY DEF ResultIsHeld
      <3>1. CASE h = g
        BY <3>1, <2>b, <2>5
      <3>2. CASE h # g
        BY <3>2, <2>2, <2>4 DEF TableInv, ResultIsHeld
      <3> QED
        BY <3>1, <3>2
    <2>10. SeenIsOlder' /\ GivenIsStable' /\ SlotsDistinct'
      BY <2>2, <2>4, <2>5 DEF TableInv, SeenIsOlder, GivenIsStable, SlotsDistinct, At
    <2> QED
      BY <2>3, <2>7, <2>8, <2>9, <2>10 DEF TableInv
  <1>g. ASSUME NEW g \in Goroutines, Grow(g)
        PROVE  TableInv'
    <2> DEFINE s == result'[g]
    <2>1. /\ table' \in Tables
          /\ s \in Slots
          /\ \A i \in Nat : At(table', i) = IF i = want[g] THEN s ELSE At(table, i)
          /\ \A i \in Nat : At(table, i) # s
          /\ \A h \in Goroutines : h # g => result'[h] = result[h]
          /\ At(table, want[g]) = NoSlot
      BY <1>g, GrowAt
    <2>2. UNCHANGED <<tlsMu, want, seen, given>> /\ pc[g] = "grow" /\ Goto(g, "unlock")
      BY <1>g DEF Grow
    <2>3. pc'[g] = "unlock" /\ \A h \in Goroutines : h # g => pc'[h] = pc[h]
      BY <2>2, <1>t DEF Goto, TypeOK
    <2>4. result' \in [Goroutines -> Slots \cup {NoSlot}]
      BY <1>g, <1>t DEF Grow, Fresh, TypeOK
    <2>5. TypeOK'
      BY <2>1, <2>2, <2>4, <1>t DEF Goto, TypeOK
    <2> HIDE DEF s
    <2>6. \A i \in Nat : At(table, i) # NoSlot => At(table', i) = At(table, i)
      BY <2>1
    <2>i. \A h \in Goroutines : want[h] \in Ids /\ want[h] \in Nat
      BY <1>t DEF TypeOK
    <2>7. SlowHoldsMu'
      BY <2>2, <2>3 DEF TableInv, SlowHoldsMu
    <2>8. CopiesTheTable'
      <3>1. \A h \in Goroutines : h # g => pc[h] # "grow"
        BY <2>2 DEF TableInv, SlowHoldsMu
      <3> QED
        BY <3>1, <2>3 DEF CopiesTheTable
    <2>9. ResultIsHeld'
      <3> SUFFICES ASSUME NEW h \in Goroutines, pc'[h] \in {"unlock", "done"}
                   PROVE  result'[h] # NoSlot /\ result'[h] = At(table', want'[h])
        BY DEF ResultIsHeld
      <3>1. CASE h = g
        BY <3>1, <2>1, <2>2, <2>i DEF s
      <3>2. CASE h # g
        <4>1. result[h] # NoSlot /\ result[h] = At(table, want[h])
          BY <3>2, <2>3 DEF TableInv, ResultIsHeld
        <4> QED
          BY <3>2, <4>1, <2>1, <2>2, <2>6, <2>i
      <3> QED
        BY <3>1, <3>2
    <2>10. SeenIsOlder'
      <3> SUFFICES ASSUME NEW h \in Goroutines, NEW id \in Ids,
                          pc'[h] = "look", At(seen'[h], id) # NoSlot
                   PROVE  At(table', id) = At(seen'[h], id)
        BY DEF SeenIsOlder
      <3>1. pc[h] = "look" /\ seen'[h] = seen[h]
        BY <2>2, <2>3
      <3>2. At(table, id) = At(seen[h], id) /\ At(table, id) # NoSlot
        BY <3>1 DEF TableInv, SeenIsOlder
      <3>3. id \in Nat
        OBVIOUS
      <3> QED
        BY <3>1, <3>2, <3>3, <2>6
    <2>11. GivenIsStable'
      <3> SUFFICES ASSUME NEW x \in given'
                   PROVE  At(table', x[1]) = x[2]
        BY DEF GivenIsStable
      <3>1. x \in given /\ x[1] \in Nat /\ x[2] \in Slots
        BY <2>2, <1>t DEF TypeOK
      <3>2. At(table, x[1]) = x[2] /\ x[2] # NoSlot
        BY <3>1 DEF TableInv, GivenIsStable
      <3> QED
        BY <3>1, <3>2, <2>6
    <2>12. SlotsDistinct'
      <3> SUFFICES ASSUME NEW i \in Ids, NEW j \in Ids,
                          At(table', i) # NoSlot, At(table', i) = At(table', j)
                   PROVE  i = j
        BY DEF SlotsDistinct
      <3>1. i \in Nat /\ j \in Nat
        OBVIOUS
      <3>2. CASE i # want[g] /\ j # want[g]
        BY <3>1, <3>2, <2>1 DEF TableInv, SlotsDistinct
      <3>3. CASE i = want[g] \/ j = want[g]
        BY <3>1, <3>3, <2>1
      <3> QED
        BY <3>2, <3>3
    <2> QED
      BY <2>5, <2>7, <2>8, <2>9, <2>10, <2>11, <2>12 DEF TableInv
  <1>u. ASSUME NEW g \in Goroutines, Unlock(g)
        PROVE  TableInv'
    <2>1. TypeOK'
      BY <1>u, <1>t DEF Unlock, Goto, TypeOK
    <2>2. \A h \in Goroutines : h # g => pc'[h] = pc[h]
      BY <1>u, <1>t DEF Unlock, Goto, TypeOK
    <2>3. pc[g] = "unlock" /\ pc'[g] = "done"
      BY <1>u, <1>t DEF Unlock, Goto, TypeOK
    <2>4. UNCHANGED <<table, want, seen, result, given>>
      BY <1>u DEF Unlock
    <2>5. SlowHoldsMu'
      BY <2>2, <2>3 DEF TableInv, SlowHoldsMu
    <2>6. CopiesTheTable' /\ ResultIsHeld'
      BY <2>2, <2>3, <2>4 DEF TableInv, CopiesTheTable, ResultIsHeld, At
    <2>7. SeenIsOlder' /\ GivenIsStable' /\ SlotsDistinct'
      BY <2>2, <2>3, <2>4 DEF TableInv, SeenIsOlder, GivenIsStable, SlotsDistinct, At
    <2> QED
      BY <2>1, <2>5, <2>6, <2>7 DEF TableInv
  <1>r. ASSUME NEW g \in Goroutines, Return(g)
        PROVE  TableInv'
    <2>1. result[g] # NoSlot /\ result[g] = At(table, want[g])
      BY <1>r DEF Return, TableInv, ResultIsHeld
    <2>2. /\ UNCHANGED <<table, tlsMu, want>>
          /\ given' = given \cup {<<want[g], result[g]>>}
          /\ seen' = [seen EXCEPT ![g] = << >>]
          /\ result' = [result EXCEPT ![g] = NoSlot]
          /\ Goto(g, "idle")
      BY <1>r DEF Return
    <2>3. << >> \in Tables
      BY DEF Tables
    <2>4. want[g] \in Ids /\ result[g] \in Slots
      BY <2>1, <1>t DEF TypeOK
    <2>5. TypeOK'
      BY <2>2, <2>3, <2>4, <1>t DEF Goto, TypeOK
    <2>6. \A h \in Goroutines : h # g => pc'[h] = pc[h] /\ seen'[h] = seen[h] /\ result'[h] = result[h]
      BY <2>2, <1>t DEF Goto, TypeOK
    <2>7. pc'[g] = "idle"
      BY <2>2, <1>t DEF Goto, TypeOK
    <2>8. SlowHoldsMu' /\ CopiesTheTable' /\ ResultIsHeld'
      BY <2>2, <2>6, <2>7 DEF TableInv, SlowHoldsMu, CopiesTheTable, ResultIsHeld, At
    <2>9. SeenIsOlder' /\ SlotsDistinct'
      BY <2>2, <2>6, <2>7 DEF TableInv, SeenIsOlder, SlotsDistinct, At
    <2>10. GivenIsStable'
      BY <2>1, <2>2 DEF TableInv, GivenIsStable
    <2> QED
      BY <2>5, <2>8, <2>9, <2>10 DEF TableInv
  <1> QED
    BY <1>0, <1>s, <1>l, <1>k, <1>m, <1>a, <1>g, <1>u, <1>r DEF Next, Step

(* It holds of every reachable state. *)
LEMMA TableInvariant == Spec => []TableInv
  BY InitTable, NextTable, PTL DEF Spec

-----------------------------------------------------------------------------

(* The variables keep their types. *)
THEOREM TypeCorrect == Spec => []TypeOK
  BY TableInvariant, PTL DEF TableInv

(* A slot once returned for an id stays that id's slot. *)
THEOREM Stability == Spec => []GivenIsStable
  BY TableInvariant, PTL DEF TableInv

(* Two ids never have one slot. *)
THEOREM Distinctness == Spec => []SlotsDistinct
  BY TableInvariant, PTL DEF TableInv

-----------------------------------------------------------------------------
(* The refinement: Grow assigns, Return gives, all else stutters.           *)

slot == [id \in Ids |-> At(table, id)]

(* At first nobody has a slot. *)
LEMMA InitRefines == Init => Promise!Init
  <1>1. ASSUME Init, NEW id \in Ids
        PROVE  At(table, id) = NoSlot
    BY <1>1, TlsTableAssumption DEF Init, At
  <1> QED
    BY <1>1 DEF Init, Promise!Init

(* Every step gives one slot, removes one, or changes none. *)
LEMMA NextRefines ==
  ASSUME TableInv, [Next]_vars
  PROVE  [Promise!Next]_<<slot, given>>
  <1> USE TlsTableAssumption
  <1>0. ASSUME UNCHANGED <<table, given>>
        PROVE  UNCHANGED <<slot, given>>
    BY <1>0 DEF slot
  <1>1. CASE UNCHANGED vars
    BY <1>0, <1>1 DEF vars
  <1>2. ASSUME NEW g \in Goroutines, NEW id \in Ids, Start(g, id)
        PROVE  UNCHANGED <<slot, given>>
    BY <1>0, <1>2 DEF Start
  <1>3. ASSUME NEW g \in Goroutines,
               Load(g) \/ Look(g) \/ Lock(g) \/ Again(g) \/ Unlock(g)
        PROVE  UNCHANGED <<slot, given>>
    BY <1>0, <1>3 DEF Load, Look, Lock, Again, Unlock
  <1>4. ASSUME NEW g \in Goroutines, Grow(g)
        PROVE  Promise!Assign(want[g])
    <2> DEFINE s == result'[g]
    <2>1. /\ s \in Slots
          /\ \A i \in Nat : At(table', i) = IF i = want[g] THEN s ELSE At(table, i)
          /\ \A i \in Nat : At(table, i) # s
          /\ At(table, want[g]) = NoSlot
      BY <1>4, GrowAt
    <2>2. UNCHANGED given
      BY <1>4 DEF Grow
    <2>3. want[g] \in Ids
      BY DEF TableInv, TypeOK
    <2> HIDE DEF s
    <2>4. [id \in Ids |-> At(table', id)] = [slot EXCEPT ![want[g]] = s]
      BY <2>1, <2>3 DEF slot
    <2>5. slot[want[g]] = NoSlot /\ \A i \in Ids : slot[i] # s
      BY <2>1, <2>3 DEF slot
    <2> QED
      BY <2>1, <2>2, <2>4, <2>5 DEF Promise!Assign, slot
  <1>5. ASSUME NEW g \in Goroutines, Return(g)
        PROVE  Promise!Give(want[g])
    <2>1. want[g] \in Ids /\ result[g] # NoSlot /\ result[g] = At(table, want[g])
      BY <1>5 DEF Return, TableInv, TypeOK, ResultIsHeld
    <2>2. UNCHANGED table /\ given' = given \cup {<<want[g], result[g]>>}
      BY <1>5 DEF Return
    <2> QED
      BY <2>1, <2>2 DEF Promise!Give
  <1>6. \A g \in Goroutines : want[g] \in Ids
    BY DEF TableInv, TypeOK
  <1> QED
    BY <1>1, <1>2, <1>3, <1>4, <1>5, <1>6 DEF Next, Step, Promise!Next

(* The table implements the promise of SlotMap. *)
THEOREM Refinement == Spec => ImplementsSlotMap
  <1>1. TableInv /\ [Next]_vars => [Promise!Next]_<<slot, given>>
    BY NextRefines
  <1> QED
    BY <1>1, InitRefines, TableInvariant, PTL DEF Spec, ImplementsSlotMap, Promise!Spec, slot

=============================================================================
