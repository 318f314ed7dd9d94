----------------------------- MODULE OpenAddrHT -----------------------------
(***************************************************************************)
(* The open-addressed hash table of open_address_ht.c, the allocator's     *)
(* page table, under the calls its client memory_finder.c makes: ht_put    *)
(* for a page of a thread, old or new, ht_get and ht_delete for one the    *)
(* thread has.                                                             *)
(*                                                                         *)
(* An entry is [id, val].  A deleted entry keeps its id and loses its      *)
(* value (a tombstone), unless no entry follows it.                        *)
(***************************************************************************)
EXTENDS Integers, FiniteSets

CONSTANTS
    HT_SIZE,    \* slots of the table (MEMSIZE/page size, 2048 in the code)
    NumPages,   \* bound: pages that threads have at one time (num_pages)
    Pids,       \* thread ids; 0 is the library itself
    Keys,       \* page indices, as the threads number them
    Vals,       \* page indices in memory
    Null        \* HT_NULL_VAL

ASSUME HTAssumption ==
    /\ HT_SIZE \in Nat \ {0}
    /\ NumPages \in Nat
    /\ Pids \subseteq Nat
    /\ Keys \subseteq Nat
    /\ Null \notin Vals

Slots == 0 .. HT_SIZE - 1
Ids == Pids \X Keys
NoId == <<0, -1>>           \* pid 0, HT_NULL_KEY
Empty == [id |-> NoId, val |-> Null]

VARIABLES
    table,      \* [Slots -> entries]
    owned,      \* ids put and not deleted since
    halt        \* "none", "loop" when a probe never ends, or "error" when
                \* ht_delete ends the process

vars == << table, owned, halt >>

EntryType == [id : Ids \cup {NoId}, val : Vals \cup {Null}]

\* Every variable keeps to its type, and an entry without id has no value.
TypeOK ==
    /\ table \in [Slots -> EntryType]
    /\ \A s \in Slots : table[s].id = NoId => table[s].val = Null
    /\ owned \subseteq Ids
    /\ halt \in {"none", "loop", "error"}

\* createTable
Init ==
    /\ table = [s \in Slots |-> Empty]
    /\ owned = {}
    /\ halt = "none"

-----------------------------------------------------------------------------
(* Probing *)

lin_hash(id) == (id[1] * 65536 + id[2]) % HT_SIZE

Following(s) == IF s = HT_SIZE - 1 THEN 0 ELSE s + 1

\* How many slots after the first one the probe for id reaches slot s.
Distance(id, s) ==
    IF s >= lin_hash(id) THEN s - lin_hash(id) ELSE s + HT_SIZE - lin_hash(id)

\* The slot of S that the probe for id reaches first.
First(id, S) == CHOOSE s \in S : \A u \in S : Distance(id, s) <= Distance(id, u)

\* The slots at which ht_put's loop stops: the id's own, and those with no value.
PutStops(id) == {s \in Slots : table[s].id = id \/ table[s].val = Null}

\* The slots at which ht_get's and ht_delete's loops stop: the id's own, and
\* those with no id.
GetStops(id) == {s \in Slots : table[s].id = id \/ table[s].id = NoId}

ht_get(id) == table[First(id, GetStops(id))].val

-----------------------------------------------------------------------------
(* The operations *)

MayPut(id) == halt = "none" /\ Cardinality(owned \cup {id}) <= NumPages

ht_put(id, val) ==
    /\ MayPut(id)
    /\ PutStops(id) # {}
    /\ table' = [table EXCEPT ![First(id, PutStops(id))] = [id |-> id, val |-> val]]
    /\ owned' = owned \cup {id}
    /\ UNCHANGED halt

\* Every slot has a value, of another id: the loop goes round for ever.
PutLoops(id) ==
    /\ MayPut(id)
    /\ PutStops(id) = {}
    /\ halt' = "loop"
    /\ UNCHANGED << table, owned >>

MayDelete(id) == halt = "none" /\ id \in owned

Finds(id) == GetStops(id) # {} /\ table[First(id, GetStops(id))].id = id

\* The id is not there: exit(EXIT_FAILURE), or a loop when no slot is empty.
DeleteFails(id) ==
    /\ halt' = IF GetStops(id) = {} THEN "loop" ELSE "error"
    /\ UNCHANGED << table, owned >>

\* Fault: the slot is emptied whatever follows it.
ht_delete_NoTombstone(id) ==
    /\ MayDelete(id)
    /\ table' = [table EXCEPT ![First(id, GetStops(id))] = Empty]
    /\ owned' = owned \ {id}
    /\ UNCHANGED halt

\* Fault: the value stays in the slot that is emptied.
ht_delete_KeepsValue(id) ==
    /\ MayDelete(id)
    /\ table' = [table EXCEPT ![First(id, GetStops(id))].id = NoId]
    /\ owned' = owned \ {id}
    /\ UNCHANGED halt

\* A tombstone stays, unless the run of entries ends here.
ht_delete(id) ==
    /\ MayDelete(id)
    /\ IF Finds(id)
       THEN /\ LET s == First(id, GetStops(id))
               IN  table' = IF table[Following(s)].id = NoId
                            THEN [table EXCEPT ![s] = Empty]
                            ELSE [table EXCEPT ![s].val = Null]
            /\ owned' = owned \ {id}
            /\ UNCHANGED halt
       ELSE DeleteFails(id)

Halted == halt # "none" /\ UNCHANGED vars

Next ==
    \/ \E id \in Ids :
          \/ \E val \in Vals : ht_put(id, val)
          \/ PutLoops(id)
          \/ ht_delete(id)
    \/ Halted

Spec == Init /\ [][Next]_vars

-----------------------------------------------------------------------------
(* Properties *)

\* Read at the pages the threads have, the table is the map the allocator
\* relies on: tombstones, duplicates and emptied slots never hide, lose or
\* change the place of a page that some thread still has.
PT == INSTANCE PageTable WITH
          place <- [id \in Ids |-> IF id \in owned THEN ht_get(id) ELSE Null]

ImplementsPageTable == PT!Spec

\* "Put the key value pair into the hashtable. If there is already a value for
\* that key, replace it." (open_address_ht.h:40-41): as long as the pages threads
\* have are fewer than the slots, a put, like a delete, returns.  The table does
\* not promise it: entries of pages given back fill it (README, "Known not to hold").
CallsReturn == halt = "none"
=============================================================================
