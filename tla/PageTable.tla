------------------------------ MODULE PageTable ------------------------------
(***************************************************************************)
(* What the allocator relies on when it keeps, for every page a thread     *)
(* owns, the place where that page is in memory: a finite map from         *)
(* <<thread, page index of the thread>> to page of memory.  OpenAddrHT is  *)
(* the hash table that implements it.                                      *)
(***************************************************************************)
CONSTANTS
    Ids,        \* the pairs <<pid, page index>>
    Vals,       \* the pages of memory
    Null        \* no page

VARIABLE place  \* [Ids -> Vals \cup {Null}]

Init == place = [id \in Ids |-> Null]

Map(id, val) == place' = [place EXCEPT ![id] = val]

Unmap(id) == place[id] # Null /\ place' = [place EXCEPT ![id] = Null]

Next == \E id \in Ids : Unmap(id) \/ \E val \in Vals : Map(id, val)

Spec == Init /\ [][Next]_place
=============================================================================
