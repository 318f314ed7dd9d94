--------------------------- MODULE OpenAddrHTProofs ---------------------------
(***************************************************************************)
(* For every table size, and whatever the threads' pages: the hash table   *)
(* implements the page table.  The inductive invariant is Reachable: the   *)
(* probe for an owned id meets the id's value before any other entry of    *)
(* the same id and before any empty slot.                                  *)
(***************************************************************************)
EXTENDS OpenAddrHT, TLAPS, WellFoundedInduction

\* Slot s holds the value that the probe for id finds.
FoundAt(id, s) ==
    /\ table[s].id = id
    /\ table[s].val # Null
    /\ \A u \in Slots : Distance(id, u) < Distance(id, s) =>
          table[u].id # id /\ table[u].id # NoId

Reachable == \A id \in owned : \E s \in Slots : FoundAt(id, s)

HTInv == TypeOK /\ Reachable

-----------------------------------------------------------------------------
(* Probing *)

\* The hash of an id is a slot (open_address_ht.c:7-9).
LEMMA HashIsSlot ==
    ASSUME NEW id \in Ids
    PROVE  lin_hash(id) \in Slots
<1>1. id[1] \in Nat /\ id[2] \in Nat
  <2>1. PICK pid \in Pids, key \in Keys : id = <<pid, key>>
    BY DEF Ids
  <2>2. pid \in Nat /\ key \in Nat
    BY HTAssumption, Zenon
  <2> QED BY <2>1, <2>2
<1>2. id[1] * 65536 + id[2] \in Int
  BY <1>1
<1> DEFINE n == id[1] * 65536 + id[2]
<1>3. n % HT_SIZE \in 0 .. HT_SIZE - 1
  <2>1. n \in Int
    BY <1>2
  <2> HIDE DEF n
  <2> QED BY <2>1, HTAssumption
<1> QED BY <1>3 DEF lin_hash, Slots

\* A probe reaches every slot once, in HT_SIZE steps.
LEMMA DistanceIsSlot ==
    ASSUME NEW id \in Ids, NEW s \in Slots
    PROVE  Distance(id, s) \in Slots
<1>1. lin_hash(id) \in Slots
  BY HashIsSlot
<1> QED BY <1>1, HTAssumption DEF Distance, Slots

LEMMA DistanceInjective ==
    ASSUME NEW id \in Ids, NEW s \in Slots, NEW u \in Slots,
           Distance(id, s) = Distance(id, u)
    PROVE  s = u
<1>1. lin_hash(id) \in Slots
  BY HashIsSlot
<1> QED BY <1>1, HTAssumption DEF Distance, Slots

\* The probe goes from a slot to the following one, until it has been everywhere.
LEMMA DistanceFollowing ==
    ASSUME NEW id \in Ids, NEW s \in Slots
    PROVE  /\ Following(s) \in Slots
           /\ \/ Distance(id, Following(s)) = Distance(id, s) + 1
              \/ \A u \in Slots : Distance(id, u) <= Distance(id, s)
<1>1. lin_hash(id) \in Slots
  BY HashIsSlot
<1>2. Following(s) \in Slots
  BY HTAssumption DEF Following, Slots
<1>3. CASE Following(s) = lin_hash(id)
  <2>1. Distance(id, s) = HT_SIZE - 1
    BY <1>1, <1>3, HTAssumption DEF Distance, Following, Slots
  <2>2. \A u \in Slots : Distance(id, u) <= HT_SIZE - 1
    BY DistanceIsSlot, HTAssumption DEF Slots
  <2> QED BY <1>2, <2>1, <2>2
<1>4. CASE Following(s) # lin_hash(id)
  BY <1>1, <1>2, <1>4, HTAssumption DEF Distance, Following, Slots
<1> QED BY <1>3, <1>4

\* A probe meets one of any set of slots first.
LEMMA FirstIsFirst ==
    ASSUME NEW id \in Ids, NEW S \in SUBSET Slots, S # {}
    PROVE  /\ First(id, S) \in S
           /\ \A u \in S : Distance(id, First(id, S)) <= Distance(id, u)
<1> DEFINE D == {Distance(id, s) : s \in S}
<1>1. D \subseteq Nat /\ D # {}
  <2>1. \A s \in S : Distance(id, s) \in Nat
    BY DistanceIsSlot, HTAssumption DEF Slots
  <2> QED BY <2>1
<1>2. PICK d \in D : \A e \in D : ~ (<<e, d>> \in OpToRel(<, Nat))
  <2> HIDE DEF D
  <2> QED BY ONLY <1>1, NatLessThanWellFounded, WFMin, Zenon
<1>3. \A e \in D : d <= e
  <2> SUFFICES ASSUME NEW e \in D PROVE d <= e
    OBVIOUS
  <2>1. d \in Nat /\ e \in Nat
    BY <1>1
  <2>2. ~(e < d)
    BY <1>2, <2>1 DEF OpToRel
  <2> QED BY <2>1, <2>2
<1>4. PICK s \in S : d = Distance(id, s)
  OBVIOUS
<1>5. \A u \in S : Distance(id, s) <= Distance(id, u)
  BY <1>3, <1>4
<1> QED BY <1>4, <1>5 DEF First

\* What ht_get returns is the value that is found.
LEMMA GetFinds ==
    ASSUME TypeOK, NEW id \in Ids, NEW s \in Slots, FoundAt(id, s)
    PROVE  /\ GetStops(id) \in SUBSET Slots
           /\ GetStops(id) # {}
           /\ First(id, GetStops(id)) = s
<1>1. s \in GetStops(id) /\ GetStops(id) \in SUBSET Slots
  BY DEF FoundAt, GetStops
<1> DEFINE f == First(id, GetStops(id))
<1>2. f \in GetStops(id) /\ Distance(id, f) <= Distance(id, s)
  BY <1>1, FirstIsFirst
<1>3. f \in Slots /\ (table[f].id = id \/ table[f].id = NoId)
  BY <1>2 DEF GetStops
<1>4. ~(Distance(id, f) < Distance(id, s))
  BY <1>3 DEF FoundAt
<1>5. Distance(id, f) \in Slots /\ Distance(id, s) \in Slots
  BY <1>3, DistanceIsSlot
<1>6. Distance(id, f) = Distance(id, s)
  BY <1>2, <1>4, <1>5, HTAssumption DEF Slots
<1>7. f = s
  BY <1>3, <1>6, DistanceInjective
<1> QED BY <1>1, <1>7

LEMMA NoIdIsNoId == NoId \notin Ids
  BY HTAssumption DEF NoId, Ids

\* In terms of the map: an owned id that is found has its value.
THEOREM GetIsFound ==
    TypeOK => \A id \in Ids, s \in Slots : FoundAt(id, s) => ht_get(id) = table[s].val
BY GetFinds DEF ht_get

-----------------------------------------------------------------------------
(* The steps *)

\* A put leaves the values of the other ids where they are found.
LEMMA PutKeepsOthers ==
    ASSUME TypeOK, NEW id \in Ids, NEW val \in Vals, ht_put(id, val),
           NEW other \in Ids, other # id, NEW s \in Slots, FoundAt(other, s)
    PROVE  FoundAt(other, s)' /\ table'[s].val = table[s].val
<1> DEFINE f == First(id, PutStops(id))
<1>1. f \in Slots /\ (table[f].id = id \/ table[f].val = Null)
  <2>1. PutStops(id) \in SUBSET Slots /\ PutStops(id) # {}
    BY DEF ht_put, PutStops
  <2> QED BY <2>1, FirstIsFirst DEF PutStops
<1>2. table' = [table EXCEPT ![f] = [id |-> id, val |-> val]]
  BY DEF ht_put
<1>3. \A u \in Slots : table'[u] = IF u = f THEN [id |-> id, val |-> val] ELSE table[u]
  BY <1>2 DEF TypeOK
<1>4. s # f
  BY <1>1 DEF FoundAt
<1> QED BY <1>3, <1>4, NoIdIsNoId DEF FoundAt, Distance, lin_hash

\* After a put, its value is found.
LEMMA PutIsFound ==
    ASSUME TypeOK, NEW id \in Ids, NEW val \in Vals, ht_put(id, val)
    PROVE  \E s \in Slots : FoundAt(id, s)' /\ table'[s].val = val
<1> DEFINE f == First(id, PutStops(id))
<1>1. f \in Slots /\ \A u \in PutStops(id) : Distance(id, f) <= Distance(id, u)
  <2>1. PutStops(id) \in SUBSET Slots /\ PutStops(id) # {}
    BY DEF ht_put, PutStops
  <2> QED BY <2>1, FirstIsFirst DEF PutStops
<1>2. \A u \in Slots : table'[u] = IF u = f THEN [id |-> id, val |-> val] ELSE table[u]
  BY DEF ht_put, TypeOK
<1>3. \A u \in Slots : Distance(id, u) < Distance(id, f) =>
          table'[u].id # id /\ table'[u].id # NoId
  <2> SUFFICES ASSUME NEW u \in Slots, Distance(id, u) < Distance(id, f)
               PROVE  table'[u].id # id /\ table'[u].id # NoId
    OBVIOUS
  <2>1. Distance(id, u) \in Int /\ Distance(id, f) \in Int
    BY <1>1, DistanceIsSlot, HTAssumption DEF Slots
  <2>2. u \notin PutStops(id) /\ u # f
    BY <1>1, <2>1
  <2> QED BY <1>2, <2>2 DEF PutStops, TypeOK
<1>4. val # Null
  BY HTAssumption
<1>5. PICK s : s = f
  OBVIOUS
<1> HIDE DEF f
<1>6. FoundAt(id, s)'
  BY <1>1, <1>2, <1>3, <1>4, <1>5 DEF FoundAt, Distance, lin_hash
<1> QED BY <1>1, <1>2, <1>5, <1>6

\* A delete of an owned id finds it: it becomes a tombstone, or its slot is
\* emptied when the following one is empty.
LEMMA DeleteEffect ==
    ASSUME TypeOK, NEW id \in Ids, ht_delete(id), NEW d \in Slots, FoundAt(id, d)
    PROVE  /\ owned' = owned \ {id} /\ halt' = halt
           /\ \A u \in Slots : u # d => table'[u] = table[u]
           /\ table'[d].val = Null
           /\ \/ table'[d].id = id
              \/ table'[d].id = NoId /\ table[Following(d)].id = NoId
           /\ table' \in [Slots -> EntryType]
<1>1. GetStops(id) # {} /\ First(id, GetStops(id)) = d
  BY GetFinds
<1>2. Finds(id)
  BY <1>1 DEF Finds, FoundAt
<1>3. /\ table' = IF table[Following(d)].id = NoId
                 THEN [table EXCEPT ![d] = Empty]
                 ELSE [table EXCEPT ![d].val = Null]
      /\ owned' = owned \ {id} /\ halt' = halt
  BY <1>1, <1>2 DEF ht_delete
<1>4. CASE table[Following(d)].id = NoId
  BY <1>3, <1>4 DEF TypeOK, EntryType, Empty
<1>5. CASE table[Following(d)].id # NoId
  BY <1>3, <1>5 DEF TypeOK, EntryType, FoundAt
<1> QED BY <1>4, <1>5

\* A delete leaves the values of the other ids where they are found: none of
\* them is beyond an empty slot.
LEMMA DeleteKeepsOthers ==
    ASSUME TypeOK, NEW id \in Ids, ht_delete(id), NEW d \in Slots, FoundAt(id, d),
           NEW other \in Ids, other # id, NEW s \in Slots, FoundAt(other, s)
    PROVE  FoundAt(other, s)' /\ table'[s].val = table[s].val
<1>1. /\ \A u \in Slots : u # d => table'[u] = table[u]
      /\ \/ table'[d].id = id
         \/ table'[d].id = NoId /\ table[Following(d)].id = NoId
  BY DeleteEffect
<1>2. s # d
  BY DEF FoundAt
<1>3. Distance(other, d) < Distance(other, s) =>
          table'[d].id # other /\ table'[d].id # NoId
  <2> SUFFICES ASSUME Distance(other, d) < Distance(other, s), table'[d].id = NoId,
                      table[Following(d)].id = NoId
               PROVE  FALSE
    BY <1>1, NoIdIsNoId
  <2>1. /\ Distance(other, d) \in Int /\ Distance(other, s) \in Int
        /\ Following(d) \in Slots /\ Distance(other, Following(d)) \in Int
    BY DistanceIsSlot, DistanceFollowing, HTAssumption DEF Slots
  <2>2. Distance(other, Following(d)) = Distance(other, d) + 1
    <3>1. ~(Distance(other, s) <= Distance(other, d))
      BY <2>1
    <3> QED BY <3>1, DistanceFollowing
  <2>3. Following(d) # s
    BY NoIdIsNoId DEF FoundAt
  <2>4. Distance(other, Following(d)) # Distance(other, s)
    BY <2>1, <2>3, DistanceInjective
  <2>5. Distance(other, Following(d)) < Distance(other, s)
    BY <2>1, <2>2, <2>4
  <2> QED BY <2>1, <2>5 DEF FoundAt
<1>4. \A u \in Slots : Distance(other, u) < Distance(other, s) =>
          table'[u].id # other /\ table'[u].id # NoId
  BY <1>1, <1>3 DEF FoundAt
<1> QED BY <1>1, <1>2, <1>4 DEF FoundAt, Distance, lin_hash

-----------------------------------------------------------------------------
(* The inductive invariant *)

LEMMA InitHTInv == Init => HTInv
BY HTAssumption DEF Init, HTInv, TypeOK, Reachable, EntryType, Empty, NoId, Ids

LEMMA PutStep ==
    ASSUME HTInv, NEW id \in Ids, NEW val \in Vals, ht_put(id, val)
    PROVE  HTInv'
<1>1. TypeOK'
  <2>1. PutStops(id) \in SUBSET Slots /\ PutStops(id) # {}
    BY DEF ht_put, PutStops
  <2>2. First(id, PutStops(id)) \in Slots
    BY <2>1, FirstIsFirst
  <2>3. owned' \subseteq Ids /\ halt' = halt
    BY DEF HTInv, TypeOK, ht_put
  <2>4. [id |-> id, val |-> val] \in EntryType /\ id # NoId
    BY NoIdIsNoId DEF EntryType
  <2>5. table' = [table EXCEPT ![First(id, PutStops(id))] = [id |-> id, val |-> val]]
    BY DEF ht_put
  <2> QED BY <2>2, <2>3, <2>4, <2>5 DEF HTInv, TypeOK
<1>2. ASSUME NEW other \in owned'
      PROVE  \E s \in Slots : FoundAt(other, s)'
  <2>1. CASE other = id
    BY <2>1, PutIsFound DEF HTInv
  <2>2. CASE other # id
    <3>1. other \in owned /\ other \in Ids
      BY <1>2, <2>2 DEF ht_put, HTInv, TypeOK
    <3>2. PICK s \in Slots : FoundAt(other, s)
      BY <3>1 DEF HTInv, Reachable
    <3> QED BY <2>2, <3>1, <3>2, PutKeepsOthers DEF HTInv
  <2> QED BY <2>1, <2>2
<1> QED BY <1>1, <1>2 DEF HTInv, Reachable

LEMMA DeleteStep ==
    ASSUME HTInv, NEW id \in Ids, ht_delete(id)
    PROVE  HTInv'
<1>1. id \in owned
  BY DEF ht_delete, MayDelete
<1>2. PICK d \in Slots : FoundAt(id, d)
  BY <1>1 DEF HTInv, Reachable
<1>3. TypeOK'
  BY <1>2, DeleteEffect, NoIdIsNoId DEF HTInv, TypeOK
<1>4. ASSUME NEW other \in owned'
      PROVE  \E s \in Slots : FoundAt(other, s)'
  <2>1. other \in owned /\ other # id /\ other \in Ids
    BY <1>2, <1>4, DeleteEffect DEF HTInv, TypeOK
  <2>2. PICK s \in Slots : FoundAt(other, s)
    BY <2>1 DEF HTInv, Reachable
  <2> QED BY <1>2, <2>1, <2>2, DeleteKeepsOthers DEF HTInv
<1> QED BY <1>3, <1>4 DEF HTInv, Reachable

LEMMA StutterStep ==
    ASSUME HTInv, table' = table, owned' = owned, halt' \in {"none", "loop", "error"}
    PROVE  HTInv'
BY DEF HTInv, TypeOK, Reachable, FoundAt, Distance, lin_hash

\* HTInv is inductive, and so an invariant.
THEOREM HTInvariant == Spec => []HTInv
<1>1. HTInv /\ [Next]_vars => HTInv'
  <2> SUFFICES ASSUME HTInv, [Next]_vars
               PROVE  HTInv'
    OBVIOUS
  <2>1. ASSUME NEW id \in Ids, NEW val \in Vals, ht_put(id, val)
        PROVE  HTInv'
    BY <2>1, PutStep
  <2>2. ASSUME NEW id \in Ids, PutLoops(id)
        PROVE  HTInv'
    BY <2>2, StutterStep DEF PutLoops
  <2>3. ASSUME NEW id \in Ids, ht_delete(id)
        PROVE  HTInv'
    BY <2>3, DeleteStep
  <2>4. CASE UNCHANGED vars
    BY <2>4, StutterStep DEF vars, HTInv, TypeOK
  <2> QED BY <2>1, <2>2, <2>3, <2>4 DEF Next, Halted
<1> QED BY <1>1, InitHTInv, PTL DEF Spec

\* Every variable keeps to its type, and an entry without id has no value.
THEOREM HTTypeCorrect == Spec => []TypeOK
BY HTInvariant, PTL DEF HTInv

-----------------------------------------------------------------------------
(* The refinement *)

Place == [id \in Ids |-> IF id \in owned THEN ht_get(id) ELSE Null]

\* What ht_get returns after a step.
LEMMA GetIsFoundNext ==
    TypeOK' => \A id \in Ids, s \in Slots : FoundAt(id, s)' => ht_get(id)' = table'[s].val
<1>1. (TypeOK => \A id \in Ids, s \in Slots : FoundAt(id, s) => ht_get(id) = table[s].val)'
  BY GetIsFound, PTL
<1> QED BY <1>1

\* A put is a Map of the page table.
LEMMA PutMaps ==
    ASSUME HTInv, NEW id \in Ids, NEW val \in Vals, ht_put(id, val)
    PROVE  Place' = [Place EXCEPT ![id] = val]
<1>1. owned' = owned \cup {id} /\ TypeOK /\ TypeOK'
  BY PutStep DEF ht_put, HTInv
<1>2. ht_get(id)' = val
  BY <1>1, PutIsFound, GetIsFoundNext
<1>3. ASSUME NEW other \in owned, other # id
      PROVE  ht_get(other)' = ht_get(other)
  <2>1. other \in Ids
    BY <1>1 DEF TypeOK
  <2>2. PICK s \in Slots : FoundAt(other, s)
    BY DEF HTInv, Reachable
  <2>3. FoundAt(other, s)' /\ table'[s].val = table[s].val
    BY <1>1, <1>3, <2>1, <2>2, PutKeepsOthers
  <2>4. ht_get(other) = table[s].val
    BY <1>1, <2>1, <2>2, GetIsFound
  <2>5. ht_get(other)' = table'[s].val
    BY <1>1, <2>1, <2>3, GetIsFoundNext
  <2> QED BY <2>3, <2>4, <2>5
<1>4. ASSUME NEW other \in Ids
      PROVE  (IF other \in owned' THEN ht_get(other)' ELSE Null) =
                 IF other = id THEN val ELSE IF other \in owned THEN ht_get(other) ELSE Null
  BY <1>1, <1>2, <1>3
<1>5. Place' = [other \in Ids |-> IF other \in owned' THEN ht_get(other)' ELSE Null]
  BY DEF Place
<1>6. [Place EXCEPT ![id] = val] =
          [other \in Ids |-> IF other = id THEN val
                             ELSE IF other \in owned THEN ht_get(other) ELSE Null]
  BY DEF Place
<1> QED BY <1>4, <1>5, <1>6, Zenon

\* A delete is an Unmap of the page table.
LEMMA DeleteUnmaps ==
    ASSUME HTInv, NEW id \in Ids, ht_delete(id)
    PROVE  Place[id] # Null /\ Place' = [Place EXCEPT ![id] = Null]
<1>1. id \in owned /\ TypeOK /\ TypeOK'
  BY DeleteStep DEF ht_delete, MayDelete, HTInv
<1>2. PICK d \in Slots : FoundAt(id, d)
  BY <1>1 DEF HTInv, Reachable
<1>3. owned' = owned \ {id}
  BY <1>1, <1>2, DeleteEffect
<1>4. ht_get(id) # Null
  BY <1>1, <1>2, GetIsFound DEF FoundAt
<1>5. ASSUME NEW other \in owned, other # id
      PROVE  ht_get(other)' = ht_get(other)
  <2>1. other \in Ids
    BY <1>1 DEF TypeOK
  <2>2. PICK s \in Slots : FoundAt(other, s)
    BY DEF HTInv, Reachable
  <2>3. FoundAt(other, s)' /\ table'[s].val = table[s].val
    BY <1>1, <1>2, <1>5, <2>1, <2>2, DeleteKeepsOthers
  <2>4. ht_get(other) = table[s].val
    BY <1>1, <2>1, <2>2, GetIsFound
  <2>5. ht_get(other)' = table'[s].val
    BY <1>1, <2>1, <2>3, GetIsFoundNext
  <2> QED BY <2>3, <2>4, <2>5
<1>6. ASSUME NEW other \in Ids
      PROVE  (IF other \in owned' THEN ht_get(other)' ELSE Null) =
                 IF other = id THEN Null ELSE IF other \in owned THEN ht_get(other) ELSE Null
  BY <1>3, <1>5
<1>7. Place' = [other \in Ids |-> IF other \in owned' THEN ht_get(other)' ELSE Null]
  BY DEF Place
<1>8. [Place EXCEPT ![id] = Null] =
          [other \in Ids |-> IF other = id THEN Null
                             ELSE IF other \in owned THEN ht_get(other) ELSE Null]
  BY DEF Place
<1>9. Place[id] # Null
  BY <1>1, <1>4 DEF Place
<1> QED BY <1>6, <1>7, <1>8, <1>9, Zenon

\* Every behaviour of the hash table, read at the owned ids, is one of the page
\* table.
THEOREM TableRefines == Spec => ImplementsPageTable
<1>1. Init => PT!Init
  BY DEF Init, PT!Init
<1>2. HTInv /\ [Next]_vars => [PT!Next]_Place
  <2> SUFFICES ASSUME HTInv, [Next]_vars
               PROVE  [PT!Next]_Place
    OBVIOUS
  <2>1. ASSUME NEW id \in Ids, NEW val \in Vals, ht_put(id, val)
        PROVE  PT!Next
    <3>1. PT!Map(id, val)
      BY <2>1, PutMaps DEF PT!Map, Place
    <3> QED BY <3>1 DEF PT!Next
  <2>2. ASSUME NEW id \in Ids, ht_delete(id)
        PROVE  PT!Next
    <3>1. PT!Unmap(id)
      BY <2>2, DeleteUnmaps DEF PT!Unmap, Place
    <3> QED BY <3>1 DEF PT!Next
  <2>3. CASE table' = table /\ owned' = owned
    BY <2>3 DEF Place, ht_get, First, GetStops, Distance, lin_hash
  <2> QED BY <2>1, <2>2, <2>3 DEF Next, PutLoops, Halted, vars
<1> QED BY <1>1, <1>2, HTInvariant, PTL DEF Spec, ImplementsPageTable, PT!Spec, Place

=============================================================================
