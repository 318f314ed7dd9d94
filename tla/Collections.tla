----------------------------- MODULE Collections -----------------------------
(* What datastructs.c promises: lists are sequences that grow at either end,    *)
(* shrink at the head and lose an element to another list; a map is a partial   *)
(* function.  result is what the last call returned.                            *)
EXTENDS Sequences, Integers

CONSTANTS Lists, Things, Keys,
          Null      \* a null pointer: no list, no map, no element

VARIABLES lists, map, result

vars == << lists, map, result >>

Init ==
    /\ lists = [l \in Lists |-> Null]
    /\ map = Null
    /\ result = Null

Is(l) == lists[l] # Null
SetList(l, value) == lists' = [lists EXCEPT ![l] = value] /\ UNCHANGED map

CreateList(l) == result' = Null /\ ~Is(l) /\ SetList(l, << >>)
FreeList(l) == result' = Null /\ Is(l) /\ SetList(l, Null)
InsertHead(l, d) == result' = Null /\ Is(l) /\ SetList(l, << d >> \o lists[l])
InsertTail(l, d) == result' = Null /\ Is(l) /\ SetList(l, Append(lists[l], d))

Empty(l) == lists[l] \in {Null, << >>}

DeleteHead(l) ==
    \/ ~Empty(l) /\ result' = lists[l][1] /\ SetList(l, Tail(lists[l]))
    \/ Empty(l) /\ result' = Null /\ UNCHANGED << lists, map >>

\* The k-th element of one list becomes the last one of another, or of the same.
Move(from, to, k) ==
    /\ result' = Null
    /\ Is(to)
    /\ LET more == [lists EXCEPT ![to] = Append(@, lists[from][k])]
       IN  lists' = [more EXCEPT ![from] = SubSeq(@, 1, k - 1) \o SubSeq(@, k + 1, Len(@))]
    /\ UNCHANGED map

Ends(l) ==
    /\ result' = IF Empty(l) THEN << Null, Null >> ELSE << lists[l][1], lists[l][Len(lists[l])] >>
    /\ UNCHANGED << lists, map >>

CreateMap == result' = Null /\ map = Null /\ map' = [k \in Keys |-> Null] /\ UNCHANGED lists
FreeMap == result' = Null /\ map # Null /\ map' = Null /\ UNCHANGED lists

Put(k, v) ==
    /\ map # Null
    /\ result' = IF map[k] = Null THEN v ELSE map[k]
    /\ map' = [map EXCEPT ![k] = v]
    /\ UNCHANGED lists

\* A call without a list or a map to act on.
Nothing ==
    /\ map = Null \/ \E l \in Lists : lists[l] = Null
    /\ result' = Null
    /\ UNCHANGED << lists, map >>

Get(k) ==
    /\ result' = IF map = Null THEN Null ELSE map[k]
    /\ UNCHANGED << lists, map >>

Next ==
    \/ \E l \in Lists :
          \/ CreateList(l) \/ FreeList(l) \/ DeleteHead(l) \/ Ends(l)
          \/ \E d \in Things : InsertHead(l, d) \/ InsertTail(l, d)
          \/ Is(l) /\ \E to \in Lists, k \in DOMAIN lists[l] : Move(l, to, k)
    \/ CreateMap \/ FreeMap \/ Nothing
    \/ \E k \in Keys : Get(k) \/ \E v \in Things : Put(k, v)

Spec == Init /\ [][Next]_vars
=============================================================================
