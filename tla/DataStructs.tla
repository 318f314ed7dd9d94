----------------------------- MODULE DataStructs -----------------------------
(***************************************************************************)
(* The linked lists and the chained hash map of datastructs.c, pointer by  *)
(* pointer, and the list surgery that run_maintenance and                  *)
(* my_pthread_mutex_lock do themselves to move a thread between queues.    *)
(* The scheduler keeps the ready queues and the waiting lists in the lists *)
(* and the tcbs, by thread id, in the map; its calls run one at a time.    *)
(*                                                                         *)
(* Nodes of lists and of chains come from the same heap.  heap is a        *)
(* function on the allocated ones, so a freed node can be given out again. *)
(* Bucket arrays start out null: asst1 takes them from calloc.             *)
(***************************************************************************)
EXTENDS Integers, Sequences, SequencesExt

CONSTANTS
    Lists,      \* the list variables of the program
    Things,     \* what is kept in lists and as values of the map: tcbs
    Keys,       \* keys of the map: thread ids
    Nodes,      \* node addresses
    HASHSIZE,   \* buckets of a new map (256)
    Hash,       \* [Keys -> hv, the mixed bits of the key]
    Null        \* the null pointer

Pointers == Nodes \cup {Null}

ListRecords == [head : Pointers, tail : Pointers]

\* The numbers of buckets there can be: a table is replaced by the least one that
\* has room for twice the entries.
Sizes == 1 .. HASHSIZE + 4 * Cardinality(Nodes)

MapsOf(size) == [num_buckets : {size}, entries : 0 .. Cardinality(Nodes),
                 buckets : [0 .. size - 1 -> Pointers]]

ASSUME DataStructsAssumption ==
    /\ HASHSIZE \in Nat \ {0} /\ \E k \in 0 .. HASHSIZE : HASHSIZE = 2^k
    /\ Hash \in [Keys -> Nat]
    /\ IsFiniteSet(Nodes)
    /\ Null \notin Nodes \cup Things /\ Null \notin ListRecords
    /\ \A size \in Sizes : Null \notin MapsOf(size)
    /\ Null \notin Seq(Things) /\ Null \notin [Keys -> Things \cup {Null}]
    /\ Things \cap (Keys \X Things) = {}

VARIABLES
    heap,       \* [allocated nodes -> [data, next]]; a chain's data is <<key, value>>
    list,       \* [Lists -> [head, tail], or Null while there is no list]
    hm,         \* [num_buckets, entries, buckets], or Null while there is no map
    result      \* what the last call returned

vars == << heap, list, hm, result >>

Init ==
    /\ heap = << >>
    /\ list = [l \in Lists |-> Null]
    /\ hm = Null
    /\ result = Null

\* The nodes from a pointer on, as a loop over ->next meets them in heap h.  (A ring
\* or a freed node, which nothing should lead to, ends the sequence.)
NodesFrom(h, first) ==
    LET at[k \in 0 .. Cardinality(Nodes)] ==
            IF k = 0 THEN first
            ELSE LET ptr == at[k - 1] IN IF ptr \in DOMAIN h THEN h[ptr].next ELSE Null
        met == {k \in DOMAIN at : at[k] # Null}
    IN  [k \in 1 .. Cardinality(met) |-> at[k - 1]]

Chain(first) == NodesFrom(heap, first)

\* create_node, create_hash_node: any free memory.
NewNode(n, data, next) ==
    [m \in DOMAIN heap \cup {n} |->
        IF m = n THEN [data |-> data, next |-> next] ELSE heap[m]]
FreeNodes == Nodes \ DOMAIN heap
Without(h, gone) == [n \in DOMAIN h \ gone |-> h[n]]

-----------------------------------------------------------------------------
(* Lists *)

create_list(l) ==
    /\ list[l] = Null
    /\ list' = [list EXCEPT ![l] = [head |-> Null, tail |-> Null]]
    /\ result' = Null
    /\ UNCHANGED << heap, hm >>

free_list(l) ==
    /\ list[l] # Null
    /\ heap' = Without(heap, Range(Chain(list[l].head)))
    /\ list' = [list EXCEPT ![l] = Null]
    /\ result' = Null
    /\ UNCHANGED hm

\* A call on a null pointer does nothing and returns one.
Ignored == result' = Null /\ UNCHANGED << heap, list, hm >>

insert_head(l, thing) ==
    /\ list[l] # Null
    /\ \E n \in FreeNodes :
          /\ heap' = NewNode(n, thing, list[l].head)
          /\ list' = [list EXCEPT ![l].head = n,
                                  ![l].tail = IF list[l].head = Null THEN n ELSE @]
    /\ result' = Null
    /\ UNCHANGED hm

\* The heap and the lists once a node n of thing is the tail of list l.
WithTail(l, thing, n) ==
    LET more == NewNode(n, thing, Null)
        tail == list[l].tail
    IN  IF tail = Null
        THEN << more, [list EXCEPT ![l] = [head |-> n, tail |-> n]] >>
        ELSE << [more EXCEPT ![tail].next = n], [list EXCEPT ![l].tail = n] >>

Becomes(pair) == heap' = pair[1] /\ list' = pair[2]

insert_tail(l, thing) ==
    /\ list[l] # Null
    /\ \E n \in FreeNodes : Becomes(WithTail(l, thing, n))
    /\ result' = Null
    /\ UNCHANGED hm

IsEmpty(l) == list[l] = Null \/ list[l].head = Null

\* Fault: the tail of a list that becomes empty stays.
delete_head_KeepsTail(l) ==
    IF IsEmpty(l) THEN Ignored
    ELSE LET temp == list[l].head
             next == heap[temp].next
         IN  /\ list' = [list EXCEPT ![l].head = next]
             /\ heap' = Without(heap, {temp})
             /\ result' = heap[temp].data
             /\ UNCHANGED hm

delete_head(l) ==
    IF IsEmpty(l) THEN Ignored
    ELSE LET temp == list[l].head
             next == heap[temp].next
         IN  /\ list' = [list EXCEPT ![l].head = next,
                                     ![l].tail = IF next = Null THEN Null ELSE @]
             /\ heap' = Without(heap, {temp})
             /\ result' = heap[temp].data
             /\ UNCHANGED hm

DataAt(ptr) == IF ptr \in DOMAIN heap THEN heap[ptr].data ELSE Null

\* get_head and get_tail.
get_ends(l) ==
    /\ result' = IF list[l] = Null THEN << Null, Null >>
                 ELSE << DataAt(list[l].head), DataAt(list[l].tail) >>
    /\ UNCHANGED << heap, list, hm >>

\* Fault: the tail pointer is left on the node that is taken out.
Unlinked_KeepsTail(h, ls, l, prev_ptr, ptr) ==
    LET next == h[ptr].next
    IN  IF ptr = ls[l].head
        THEN << Without(h, {ptr}), [ls EXCEPT ![l].head = next] >>
        ELSE << Without([h EXCEPT ![prev_ptr].next = next], {ptr}), ls >>

\* The heap and the lists once node ptr, which comes after prev_ptr, is taken out
\* of list l and freed.
Unlinked(h, ls, l, prev_ptr, ptr) ==
    LET next == h[ptr].next
        tail == IF ptr = ls[l].tail THEN prev_ptr ELSE ls[l].tail
    IN  IF ptr = ls[l].head
        THEN << Without(h, {ptr}), [ls EXCEPT ![l] = [head |-> next, tail |-> tail]] >>
        ELSE << Without([h EXCEPT ![prev_ptr].next = next], {ptr}),
                [ls EXCEPT ![l].tail = tail] >>

\* A thread moves to another queue: appended there first, then unlinked here.
\* asst1 also moves one to the end of the queue it is in.
Move(from, to, k) ==
    /\ list[from] # Null /\ list[to] # Null
    /\ LET nodes == Chain(list[from].head)
       IN  /\ k \in DOMAIN nodes
           /\ \E n \in FreeNodes :
                 LET more == WithTail(to, heap[nodes[k]].data, n)
                 IN  Becomes(Unlinked(more[1], more[2], from,
                                      IF k = 1 THEN Null ELSE nodes[k - 1], nodes[k]))
    /\ result' = Null
    /\ UNCHANGED hm

-----------------------------------------------------------------------------
(* The map *)

create_map ==
    /\ hm = Null
    /\ hm' = [num_buckets |-> HASHSIZE, entries |-> 0,
              buckets |-> [b \in 0 .. HASHSIZE - 1 |-> Null]]
    /\ result' = Null
    /\ UNCHANGED << heap, list >>

free_map ==
    /\ hm # Null
    /\ heap' = Without(heap, UNION {Range(Chain(hm.buckets[b])) : b \in DOMAIN hm.buckets})
    /\ hm' = Null
    /\ result' = Null
    /\ UNCHANGED list

\* hv & (num_buckets - 1), num_buckets being a power of two.
hash(num_buckets, key) == Hash[key] % num_buckets

\* Fault: room for the entries there are, not for twice as many.
hash_size_NoRoom(s) ==
    LET i[k \in 0 .. s] ==
            IF k = 0 THEN 1 ELSE IF 2 * i[k - 1] < s THEN 2 * i[k - 1] ELSE i[k - 1]
    IN  i[s]

\* From 1, doubled while it is less than s; s rounds are always enough.
hash_size(s) ==
    LET i[k \in 0 .. s] ==
            IF k = 0 THEN 1 ELSE IF i[k - 1] < s THEN 2 * i[k - 1] ELSE i[k - 1]
    IN  i[s]

KeyOf(h, n) == h[n].data[1]

\* Fault: the old table stays in place.
Rehashed_OldTable(h, buckets, new_size) == << h, buckets >>

\* rehash meets the nodes bucket by bucket and puts each at the head of its new
\* chain: a node's successor is the node of the same new bucket met before it.
Rehashed(h, buckets, new_size) ==
    LET met == FlattenSeq([b \in 1 .. Cardinality(DOMAIN buckets) |->
                              NodesFrom(h, buckets[b - 1])])
        index(k) == hash(new_size, KeyOf(h, met[k]))
        last(b, before) == LET same == {k \in DOMAIN met : k < before /\ index(k) = b}
                           IN  IF same = {} THEN Null
                               ELSE met[CHOOSE k \in same : \A j \in same : j <= k]
    IN  << [n \in DOMAIN h |-> IF \E k \in DOMAIN met : met[k] = n
                               THEN LET k == CHOOSE k \in DOMAIN met : met[k] = n
                                    IN  [h[n] EXCEPT !.next = last(index(k), k)]
                               ELSE h[n]],
           [b \in 0 .. new_size - 1 |-> last(b, Len(met) + 1)] >>

\* The first node of the key's chain that has the key, as a set.
Found(key) ==
    LET nodes == Chain(hm.buckets[hash(hm.num_buckets, key)])
        hits == {k \in DOMAIN nodes : KeyOf(heap, nodes[k]) = key}
    IN  {nodes[k] : k \in {j \in hits : \A i \in hits : j <= i}}

\* A key that is there gets the new value, and the old one is returned.
PutThere(key, value) ==
    \E n \in Found(key) :
        /\ result' = heap[n].data[2]
        /\ heap' = [heap EXCEPT ![n].data = << key, value >>]
        /\ UNCHANGED << list, hm >>

\* A new key goes to the head of its chain; a table that is more than three
\* quarters full is replaced by one of at least twice as many buckets as entries.
PutNew(key, value) ==
    /\ Found(key) = {}
    /\ \E n \in FreeNodes :
          LET index == hash(hm.num_buckets, key)
              more == NewNode(n, << key, value >>, hm.buckets[index])
              buckets == [hm.buckets EXCEPT ![index] = n]
              entries == hm.entries + 1
              new_size == hash_size(entries * 2)
              rehashed == Rehashed(more, buckets, new_size)
          IN  IF 4 * entries > 3 * hm.num_buckets
              THEN /\ heap' = rehashed[1]
                   /\ hm' = [num_buckets |-> new_size, entries |-> entries,
                             buckets |-> rehashed[2]]
              ELSE /\ heap' = more
                   /\ hm' = [hm EXCEPT !.entries = entries, !.buckets = buckets]
    /\ result' = value
    /\ UNCHANGED list

put(key, value) ==
    \/ hm = Null /\ Ignored
    \/ hm # Null /\ PutThere(key, value)
    \/ hm # Null /\ PutNew(key, value)

\* The value the map has for the key, or a null pointer.
Value(key) ==
    LET found == Found(key)
    IN  IF found = {} THEN Null ELSE heap[CHOOSE n \in found : TRUE].data[2]

get(key) ==
    /\ result' = IF hm = Null THEN Null ELSE Value(key)
    /\ UNCHANGED << heap, list, hm >>

-----------------------------------------------------------------------------

Next ==
    \/ \E l \in Lists :
          \/ create_list(l) \/ free_list(l) \/ delete_head(l) \/ get_ends(l)
          \/ list[l] = Null /\ Ignored          \* insert_head, insert_tail
          \/ \E thing \in Things : insert_head(l, thing) \/ insert_tail(l, thing)
          \/ \E to \in Lists, k \in 1 .. Cardinality(Nodes) : Move(l, to, k)
    \/ create_map \/ free_map
    \/ \E key \in Keys : get(key) \/ \E thing \in Things : put(key, thing)

Spec == Init /\ [][Next]_vars

-----------------------------------------------------------------------------
(* Properties *)

\* Every variable keeps to its type.
TypeOK ==
    /\ DOMAIN heap \subseteq Nodes
    /\ heap \in [DOMAIN heap -> [data : Things \cup (Keys \X Things), next : Pointers]]
    /\ list \in [Lists -> ListRecords \cup {Null}]
    /\ hm # Null => hm.num_buckets \in Sizes /\ hm \in MapsOf(hm.num_buckets)

\* Where a list or a chain of the map begins.
Roots ==
    {list[l].head : l \in {l \in Lists : list[l] # Null}} \cup
    (IF hm = Null THEN {} ELSE Range(hm.buckets))

\* Every allocated node is in one list or chain, once, and none that is in one
\* has been freed: after surgery in the middle of a queue no node is lost, shared
\* or dangling, and no chain has become a ring (my_scheduler.c:101-112,
\* my_pthread.c:173-188, datastructs.c:131-146).
NodesOwned ==
    /\ UNION {Range(Chain(first)) : first \in Roots} = DOMAIN heap
    /\ \A first \in Roots :
          /\ Len(Chain(first)) <= Cardinality(Nodes) /\ IsInjective(Chain(first))
          /\ \A other \in Roots \ {first} :
                Range(Chain(first)) \cap Range(Chain(other)) = {}

\* The table stays at most three quarters full, and entries counts its nodes
\* (datastructs.c:208-209).
LoadBounded ==
    hm # Null =>
        /\ 4 * hm.entries <= 3 * hm.num_buckets
        /\ hm.entries = Cardinality({n \in DOMAIN heap : heap[n].data \in Keys \X Things})

\* Read through the pointers: each list a sequence, the map a function.
ListValues ==
    [l \in Lists |-> IF list[l] = Null THEN Null
                     ELSE LET nodes == Chain(list[l].head)
                          IN  [k \in DOMAIN nodes |-> heap[nodes[k]].data]]
MapValues == IF hm = Null THEN Null ELSE [key \in Keys |-> Value(key)]

Abstract == INSTANCE Collections WITH lists <- ListValues, map <- MapValues

\* The lists and the map are the sequences and the function the scheduler takes
\* them for, and every call returns what they contain.
ImplementsCollections == Abstract!Spec
=============================================================================
