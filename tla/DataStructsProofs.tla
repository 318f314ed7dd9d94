-------------------------- MODULE DataStructsProofs --------------------------
(***************************************************************************)
(* What the linked lists and the thread map of datastructs.c keep, for any *)
(* number of lists, keys, things and nodes, and any table size to start    *)
(* with.                                                                   *)
(*                                                                         *)
(* The pointers are read as a forest: a function c from the lists and the  *)
(* buckets to sequences of nodes, such that each sequence is the path of   *)
(* ->next from its head, no node is in two of them, and every allocated    *)
(* node is in one (Forest).  Each operation is shown to change c the way   *)
(* it should; a rehash, which threads all nodes on new chains, keeps it    *)
(* for the lists and builds it for the buckets.  From that follows that no *)
(* node is lost or shared (Owned), that the table has room (Loaded), and   *)
(* that the calls do to the lists and the map what Collections says.       *)
(***************************************************************************)
EXTENDS DataStructs, TLAPS, FiniteSetTheorems, SequenceTheorems,
        WellFoundedInduction

-----------------------------------------------------------------------------
(* Loops *)

\* A set of numbers has a least one.
LEMMA LeastOf ==
    ASSUME NEW S, S \subseteq Nat, S # {}
    PROVE  \E least \in S : \A n \in S : least <= n
<1>1. PICK least \in S : \A n \in S : ~(<< n, least >> \in OpToRel(<, Nat))
    BY ONLY S \subseteq Nat, S # {}, WFMin, NatLessThanWellFounded, Zenon
<1>2. ASSUME NEW n \in S PROVE least <= n
    <2>1. least \in Nat /\ n \in Nat
        OBVIOUS
    <2>2. ~(n < least)
        BY <1>1, <2>1 DEF OpToRel
    <2>3. QED
        BY <2>1, <2>2
<1>3. QED
    BY <1>2

\* Induction, for a set of numbers.
LEMMA Everywhere ==
    ASSUME NEW S, 0 \in S, \A n \in Nat : n \in S => n + 1 \in S
    PROVE  \A n \in Nat : n \in S
<1>1. SUFFICES ASSUME Nat \ S # {} PROVE FALSE
    OBVIOUS
<1>2. PICK least \in Nat \ S : \A n \in Nat \ S : least <= n
    <2>1. Nat \ S \subseteq Nat
        OBVIOUS
    <2>2. QED
        BY <1>1, <2>1, LeastOf
<1>3. least # 0
    OBVIOUS
<1>4. least - 1 \in Nat /\ least - 1 \in S
    BY <1>2, <1>3
<1>5. QED
    BY <1>4

\* The sequences of n steps from a value.
Iterations(n, D, first, step) ==
    {f \in [0 .. n -> D] : f[0] = first /\ \A k \in 1 .. n : f[k] = step[k][f[k - 1]]}

\* There is such a sequence: what a recursive function of the numbers takes.
LEMMA Recursion ==
    ASSUME NEW n \in Nat, NEW D, NEW first \in D, NEW step \in [1 .. n -> [D -> D]]
    PROVE  Iterations(n, D, first, step) # {}
<1> DEFINE Good(m, f) == /\ f \in [0 .. m -> D]
                         /\ f[0] = first
                         /\ \A k \in 1 .. m : f[k] = step[k][f[k - 1]]
           S == {m \in Nat : m <= n => \E f : Good(m, f)}
<1>1. 0 \in S
    <2>1. Good(0, [k \in 0 .. 0 |-> first])
        OBVIOUS
    <2>2. QED
        BY <2>1
<1>2. ASSUME NEW m \in Nat, m \in S PROVE m + 1 \in S
    <2>1. SUFFICES ASSUME m + 1 <= n PROVE \E f : Good(m + 1, f)
        OBVIOUS
    <2>2. PICK f : Good(m, f)
        BY <1>2, <2>1
    <2>3. Good(m + 1, [k \in 0 .. m + 1 |-> IF k = m + 1 THEN step[m + 1][f[m]] ELSE f[k]])
        <3> DEFINE g == [k \in 0 .. m + 1 |-> IF k = m + 1 THEN step[m + 1][f[m]] ELSE f[k]]
        <3>1. m + 1 \in 1 .. n /\ f[m] \in D
            BY <2>1, <2>2
        <3>2. step[m + 1] \in [D -> D]
            BY <3>1
        <3>3. step[m + 1][f[m]] \in D
            BY <3>1, <3>2
        <3>4. g \in [0 .. m + 1 -> D]
            BY <2>2, <3>3
        <3>5. g[0] = first
            BY <2>2
        <3>6. ASSUME NEW k \in 1 .. m + 1 PROVE g[k] = step[k][g[k - 1]]
            <4>1. CASE k = m + 1
                BY <4>1
            <4>2. CASE k # m + 1
                <5>1. k \in 1 .. m /\ k - 1 \in 0 .. m + 1 /\ k - 1 # m + 1
                    BY <4>2
                <5>2. QED
                    BY <4>2, <5>1, <2>2
            <4>3. QED
                BY <4>1, <4>2
        <3>7. QED
            BY <3>4, <3>5, <3>6
    <2>4. QED
        BY <2>3
<1>3. \A m \in Nat : m \in S
    <2> HIDE DEF S
    <2>1. QED
        BY <1>1, <1>2, Everywhere
<1>4. QED
    BY <1>3 DEF Iterations

-----------------------------------------------------------------------------
(* The size of a new table *)

\* hash_size finds a size at least as large as asked for, and less than twice that.
LEMMA SizeFound ==
    ASSUME NEW s \in Nat \ {0}
    PROVE  hash_size(s) \in Nat \ {0} /\ hash_size(s) >= s /\ hash_size(s) < 2 * s
<1> DEFINE Doubled(f) == [k \in 0 .. s |->
               IF k = 0 THEN 1 ELSE IF f[k - 1] < s THEN 2 * f[k - 1] ELSE f[k - 1]]
           i == CHOOSE i : i = Doubled(i)
           step == [k \in 1 .. s |-> [p \in Nat \ {0} |-> IF p < s THEN 2 * p ELSE p]]
<1>1. \E f : f = Doubled(f)
    <2>1. PICK f \in [0 .. s -> Nat \ {0}] :
              f[0] = 1 /\ \A k \in 1 .. s : f[k] = step[k][f[k - 1]]
        <3> DEFINE Positive == Nat \ {0}
                   one == 1
        <3>1. step \in [1 .. s -> [Positive -> Positive]] /\ one \in Positive
            OBVIOUS
        <3> HIDE DEF step, Positive, one
        <3>2. Iterations(s, Positive, one, step) # {}
            BY <3>1, Recursion, Zenon
        <3>3. QED
            BY <3>2 DEF Positive, one, Iterations
    <2>2. ASSUME NEW k \in 0 .. s PROVE f[k] = Doubled(f)[k]
        <3>1. CASE k = 0
            BY <2>1, <3>1
        <3>2. CASE k # 0
            <4>1. k \in 1 .. s /\ k - 1 \in 0 .. s
                BY <3>2
            <4>2. f[k - 1] \in Nat \ {0}
                BY <2>1, <4>1
            <4>3. QED
                BY <2>1, <3>2, <4>1, <4>2
        <3>3. QED
            BY <3>1, <3>2
    <2>3. QED
        BY <2>1, <2>2
<1>2. i = Doubled(i)
    BY <1>1
<1> HIDE DEF i
<1>3. \A k \in 0 .. s : i[k] = IF k = 0 THEN 1
                               ELSE IF i[k - 1] < s THEN 2 * i[k - 1] ELSE i[k - 1]
    BY <1>2
<1> DEFINE S == {k \in Nat : k <= s => /\ i[k] \in Nat \ {0} /\ i[k] < 2 * s
                                       /\ i[k] >= s \/ i[k] >= k + 1}
<1>4. 0 \in S
    BY <1>3
<1>5. ASSUME NEW k \in Nat, k \in S PROVE k + 1 \in S
    <2>1. SUFFICES ASSUME k + 1 <= s
                   PROVE  /\ i[k + 1] \in Nat \ {0} /\ i[k + 1] < 2 * s
                          /\ i[k + 1] >= s \/ i[k + 1] >= k + 1 + 1
        OBVIOUS
    <2>2. i[k] \in Nat \ {0} /\ i[k] < 2 * s /\ (i[k] >= s \/ i[k] >= k + 1)
        BY <1>5, <2>1
    <2>3. i[k + 1] = IF i[k] < s THEN 2 * i[k] ELSE i[k]
        BY <1>3, <2>1
    <2>4. QED
        BY <2>1, <2>2, <2>3
<1>6. s \in S
    <2> HIDE DEF S
    <2>1. QED
        BY <1>4, <1>5, Everywhere
<1>7. hash_size(s) = i[s]
    BY DEF hash_size, i
<1>8. QED
    BY <1>6, <1>7

-----------------------------------------------------------------------------
(* Chains of nodes *)

\* From the pointer first, heap h leads through the nodes of path, to a null.
IsPath(h, first, path) ==
    /\ path \in Seq(DOMAIN h)
    /\ first = IF path = << >> THEN Null ELSE path[1]
    /\ \A k \in DOMAIN path : h[path[k]].next = IF k = Len(path) THEN Null ELSE path[k + 1]
    /\ IsInjective(path)

\* A path has no more nodes than there are.
LEMMA PathFits ==
    ASSUME NEW h, DOMAIN h \subseteq Nodes, NEW first, NEW path, IsPath(h, first, path)
    PROVE  Len(path) <= Cardinality(Nodes) /\ Cardinality(Nodes) \in Nat
<1>1. IsFiniteSet(Nodes) /\ Cardinality(Nodes) \in Nat
    BY DataStructsAssumption, FS_CardinalityType
<1>2. path \in Injection(1 .. Len(path), Nodes)
    BY DEF IsPath, Injection, IsInjective
<1>3. Len(path) \in Nat
    BY DEF IsPath
<1>4. Cardinality(1 .. Len(path)) <= Cardinality(Nodes)
    BY <1>1, <1>2, FS_Injection, Zenon
<1>5. Cardinality(1 .. Len(path)) = Len(path)
    BY <1>3, FS_Interval
<1>6. QED
    BY <1>1, <1>4, <1>5

\* A loop over ->next meets the nodes of the path.
LEMMA PathWalked ==
    ASSUME NEW h, DOMAIN h \subseteq Nodes, NEW first, NEW path, IsPath(h, first, path)
    PROVE  NodesFrom(h, first) = path
<1> DEFINE N == Cardinality(Nodes)
           Steps(f) == [k \in 0 .. N |->
               IF k = 0 THEN first
               ELSE LET ptr == f[k - 1] IN IF ptr \in DOMAIN h THEN h[ptr].next ELSE Null]
           at == CHOOSE at : at = Steps(at)
           met == {k \in DOMAIN at : at[k] # Null}
           node == [k \in 0 .. N |-> IF k < Len(path) THEN path[k + 1] ELSE Null]
<1>1. N \in Nat /\ Len(path) \in Nat /\ Len(path) <= N
    BY PathFits DEF IsPath
<1>2. Null \notin DOMAIN h
    BY DataStructsAssumption
<1> HIDE DEF N
<1>3. node = Steps(node)
    <2>1. ASSUME NEW k \in 0 .. N PROVE node[k] = Steps(node)[k]
        <3>1. CASE k = 0
            BY <3>1, <1>1 DEF IsPath
        <3>2. CASE k # 0 /\ k <= Len(path)
            <4>1. k \in DOMAIN path /\ k - 1 \in 0 .. N
                BY <3>2, <1>1 DEF IsPath
            <4>2. node[k - 1] = path[k] /\ path[k] \in DOMAIN h
                BY <4>1, <1>1, <3>2 DEF IsPath
            <4>3. h[path[k]].next = IF k = Len(path) THEN Null ELSE path[k + 1]
                BY <4>1 DEF IsPath
            <4>4. QED
                BY <3>2, <4>1, <4>2, <4>3, <1>1
        <3>3. CASE k > Len(path)
            <4>1. k # 0 /\ k - 1 \in 0 .. N /\ ~(k - 1 < Len(path)) /\ ~(k < Len(path))
                BY <3>3, <1>1
            <4>2. node[k - 1] = Null /\ node[k] = Null
                BY <4>1
            <4>3. QED
                BY <4>1, <4>2, <1>2
        <3>4. QED
            BY <3>1, <3>2, <3>3, <1>1
    <2>2. QED
        BY <2>1
<1>4. at = Steps(at)
    <2> HIDE DEF node
    <2>1. QED
        BY <1>3
<1> HIDE DEF at
<1>5. at = node
    <2> DEFINE S == {k \in Nat : k <= N => at[k] = node[k]}
    <2>1. \A k \in 0 .. N : at[k] = Steps(at)[k] /\ node[k] = Steps(node)[k]
        <3> HIDE DEF node, Steps
        <3>1. QED
            BY <1>3, <1>4
    <2> HIDE DEF node
    <2>2. 0 \in S
        BY <2>1, <1>1
    <2>3. ASSUME NEW k \in Nat, k \in S PROVE k + 1 \in S
        BY <2>1, <2>3, <1>1
    <2>4. \A k \in Nat : k \in S
        <3> HIDE DEF S
        <3>1. QED
            BY <2>2, <2>3, Everywhere
    <2>5. \A k \in 0 .. N : at[k] = node[k]
        BY <2>4, <1>1
    <2>6. DOMAIN at = 0 .. N /\ DOMAIN node = 0 .. N
        BY <1>3, <1>4
    <2>7. at = [k \in 0 .. N |-> at[k]] /\ node = [k \in 0 .. N |-> node[k]]
        BY <1>3, <1>4, <2>6
    <2>8. QED
        BY <2>5, <2>7
<1>6. met = 0 .. Len(path) - 1
    <2>1. met = {k \in 0 .. N : node[k] # Null}
        BY <1>5
    <2>2. \A k \in 0 .. N : node[k] # Null <=> k < Len(path)
        <3>1. \A k \in 1 .. Len(path) : path[k] # Null
            BY <1>2 DEF IsPath
        <3>2. QED
            BY <3>1, <1>1
    <2> HIDE DEF node
    <2>3. met \subseteq 0 .. Len(path) - 1
        BY <2>1, <2>2, <1>1
    <2>4. 0 .. Len(path) - 1 \subseteq met
        BY <2>1, <2>2, <1>1
    <2>5. QED
        BY <2>3, <2>4
<1> HIDE DEF met
<1>7. Cardinality(met) = Len(path)
    <2>1. Cardinality(0 .. Len(path) - 1) = IF 0 > Len(path) - 1 THEN 0
                                            ELSE Len(path) - 1 - 0 + 1
        <3>1. 0 \in Int /\ Len(path) - 1 \in Int
            BY <1>1
        <3>2. QED
            BY <3>1, FS_Interval, Zenon
    <2>2. QED
        BY <2>1, <1>1, <1>6
<1>8. NodesFrom(h, first) = [k \in 1 .. Cardinality(met) |-> at[k - 1]]
    BY DEF NodesFrom, at, N, met
<1>9. NodesFrom(h, first) = [k \in 1 .. Len(path) |-> path[k]]
    <2>1. ASSUME NEW k \in 1 .. Len(path) PROVE at[k - 1] = path[k]
        BY <1>1, <1>5
    <2>2. QED
        BY <1>7, <1>8, <2>1
<1>10. QED
    BY <1>9 DEF IsPath

\* The path only depends on the links of its own nodes.
LEMMA PathKept ==
    ASSUME NEW h, NEW g, NEW first, NEW path, IsPath(h, first, path),
           \A k \in DOMAIN path : path[k] \in DOMAIN g /\ g[path[k]].next = h[path[k]].next
    PROVE  IsPath(g, first, path)
<1>1. path \in Seq(DOMAIN g)
    BY DEF IsPath
<1>2. QED
    BY <1>1 DEF IsPath

\* A node in front.
LEMMA PathPushed ==
    ASSUME NEW h, NEW first, NEW path, IsPath(h, first, path),
           NEW n \in DOMAIN h, h[n].next = first, \A k \in DOMAIN path : path[k] # n
    PROVE  IsPath(h, n, << n >> \o path)
<1> DEFINE longer == << n >> \o path
<1>1. path \in Seq(DOMAIN h) /\ Len(path) \in Nat
    BY DEF IsPath
<1>2. /\ longer \in Seq(DOMAIN h) /\ Len(longer) = Len(path) + 1
      /\ longer[1] = n /\ \A k \in 2 .. Len(path) + 1 : longer[k] = path[k - 1]
    BY <1>1
<1> HIDE DEF longer
<1>3. longer # << >>
    BY <1>2
<1>4. ASSUME NEW k \in DOMAIN longer
      PROVE  h[longer[k]].next = IF k = Len(longer) THEN Null ELSE longer[k + 1]
    <2>1. CASE k = 1
        BY <1>1, <1>2, <2>1 DEF IsPath
    <2>2. CASE k # 1
        <3>1. k - 1 \in DOMAIN path /\ longer[k] = path[k - 1]
            BY <1>1, <1>2, <2>2
        <3>2. h[path[k - 1]].next = IF k - 1 = Len(path) THEN Null ELSE path[k - 1 + 1]
            BY <3>1 DEF IsPath
        <3>3. k # Len(longer) => longer[k + 1] = path[k]
            BY <1>1, <1>2, <2>2
        <3>4. QED
            BY <1>1, <1>2, <3>1, <3>2, <3>3
    <2>3. QED
        BY <2>1, <2>2
<1>5. ASSUME NEW i \in DOMAIN longer, NEW j \in DOMAIN longer, longer[i] = longer[j]
      PROVE  i = j
    <2>1. \A k \in DOMAIN longer : k # 1 => k - 1 \in DOMAIN path /\ longer[k] = path[k - 1]
        BY <1>1, <1>2
    <2>2. CASE i = 1 \/ j = 1
        BY <1>2, <1>5, <2>1, <2>2
    <2>3. CASE i # 1 /\ j # 1
        <3>1. i - 1 = j - 1
            BY <1>5, <2>1, <2>3 DEF IsPath, IsInjective
        <3>2. i \in Int /\ j \in Int
            BY <1>2
        <3>3. QED
            BY <3>1, <3>2
    <2>4. QED
        BY <2>2, <2>3
<1>6. QED
    BY <1>2, <1>3, <1>4, <1>5 DEF IsPath, IsInjective, longer

\* A node at the end, linked from the one that was last.
LEMMA PathAppended ==
    ASSUME NEW h, NEW g, NEW first, NEW path, IsPath(h, first, path), path # << >>,
           NEW n \in DOMAIN g, g[n].next = Null, \A k \in DOMAIN path : path[k] # n,
           \A k \in DOMAIN path :
              /\ path[k] \in DOMAIN g
              /\ g[path[k]].next = IF k = Len(path) THEN n ELSE h[path[k]].next
    PROVE  IsPath(g, first, Append(path, n))
<1> DEFINE longer == Append(path, n)
<1>1. path \in Seq(DOMAIN g) /\ Len(path) \in Nat
    BY DEF IsPath
<1>2. /\ longer \in Seq(DOMAIN g) /\ Len(longer) = Len(path) + 1
      /\ longer[Len(path) + 1] = n /\ \A k \in 1 .. Len(path) : longer[k] = path[k]
    BY <1>1
<1> HIDE DEF longer
<1>3. longer # << >> /\ longer[1] = path[1]
    BY <1>1, <1>2
<1>4. ASSUME NEW k \in DOMAIN longer
      PROVE  g[longer[k]].next = IF k = Len(longer) THEN Null ELSE longer[k + 1]
    <2>1. CASE k = Len(path) + 1
        BY <1>2, <2>1
    <2>2. CASE k # Len(path) + 1
        <3>1. k \in DOMAIN path /\ longer[k] = path[k]
            BY <1>1, <1>2, <2>2
        <3>2. h[path[k]].next = IF k = Len(path) THEN Null ELSE path[k + 1]
            BY <3>1 DEF IsPath
        <3>3. longer[k + 1] = IF k = Len(path) THEN n ELSE path[k + 1]
            BY <1>1, <1>2, <3>1
        <3>4. QED
            BY <1>1, <1>2, <2>2, <3>1, <3>2, <3>3
    <2>3. QED
        BY <2>1, <2>2
<1>5. ASSUME NEW i \in DOMAIN longer, NEW j \in DOMAIN longer, longer[i] = longer[j]
      PROVE  i = j
    <2>1. \A k \in DOMAIN longer :
              k # Len(path) + 1 => k \in DOMAIN path /\ longer[k] = path[k]
        BY <1>1, <1>2
    <2>2. CASE i = Len(path) + 1 \/ j = Len(path) + 1
        BY <1>2, <1>5, <2>1, <2>2
    <2>3. CASE i # Len(path) + 1 /\ j # Len(path) + 1
        BY <1>5, <2>1, <2>3 DEF IsPath, IsInjective
    <2>4. QED
        BY <2>2, <2>3
<1>6. QED
    BY <1>2, <1>3, <1>4, <1>5 DEF IsPath, IsInjective, longer

\* The k-th element of a sequence left out.
Removed(path, k) == SubSeq(path, 1, k - 1) \o SubSeq(path, k + 1, Len(path))

\* A sequence without its k-th element.
LEMMA RemovedAt ==
    ASSUME NEW S, NEW path \in Seq(S), NEW k \in DOMAIN path
    PROVE  /\ Removed(path, k) \in Seq(S)
           /\ Len(Removed(path, k)) = Len(path) - 1
           /\ \A i \in 1 .. Len(path) - 1 :
                 Removed(path, k)[i] = IF i < k THEN path[i] ELSE path[i + 1]
<1> DEFINE before == SubSeq(path, 1, k - 1)
           after == SubSeq(path, k + 1, Len(path))
<1>1. Len(path) \in Nat /\ k \in 1 .. Len(path)
    OBVIOUS
<1>2. /\ before \in Seq(S) /\ Len(before) = k - 1
      /\ \A i \in 1 .. k - 1 : before[i] = path[i]
    BY <1>1
<1>3. /\ after \in Seq(S) /\ Len(after) = Len(path) - k
      /\ \A i \in 1 .. Len(path) - k : after[i] = path[i + k]
    BY <1>1
<1> HIDE DEF before, after
<1> DEFINE both == before \o after
<1>4. /\ both \in Seq(S) /\ Len(both) = Len(before) + Len(after)
      /\ \A i \in 1 .. Len(before) + Len(after) :
            both[i] = IF i <= Len(before) THEN before[i] ELSE after[i - Len(before)]
    BY <1>2, <1>3, ConcatProperties
<1> HIDE DEF both
<1>5. ASSUME NEW i \in 1 .. Len(path) - 1
      PROVE  both[i] = IF i < k THEN path[i] ELSE path[i + 1]
    <2>1. both[i] = IF i <= k - 1 THEN before[i] ELSE after[i - (k - 1)]
        <3>1. Len(before) + Len(after) = Len(path) - 1 /\ Len(before) = k - 1
            BY <1>1, <1>2, <1>3
        <3>2. i \in 1 .. Len(before) + Len(after)
            BY <3>1
        <3>3. both[i] = IF i <= Len(before) THEN before[i] ELSE after[i - Len(before)]
            BY <1>4, <3>2
        <3>4. QED
            BY <3>1, <3>3, Zenon
    <2>2. CASE i < k
        BY <1>1, <1>2, <2>1, <2>2
    <2>3. CASE ~(i < k)
        <3>1. i - (k - 1) \in 1 .. Len(path) - k /\ ~(i <= k - 1)
            BY <1>1, <2>3
        <3>2. after[i - (k - 1)] = path[i - (k - 1) + k] /\ i - (k - 1) + k = i + 1
            BY <1>1, <1>3, <3>1
        <3>3. QED
            BY <2>1, <2>3, <3>1, <3>2
    <2>4. QED
        BY <2>2, <2>3
<1>6. QED
    <2>1. Removed(path, k) = both
        BY DEF Removed, before, after, both
    <2>2. Len(both) = Len(path) - 1
        BY <1>1, <1>2, <1>3, <1>4
    <2>3. QED
        BY <1>4, <1>5, <2>1, <2>2

\* A node taken out: the one before it is linked to the one after.
LEMMA PathRemoved ==
    ASSUME NEW h, NEW g, NEW first, NEW path, IsPath(h, first, path), NEW k \in DOMAIN path,
           \A i \in DOMAIN path : i # k =>
              /\ path[i] \in DOMAIN g
              /\ g[path[i]].next = IF i = k - 1 THEN h[path[k]].next ELSE h[path[i]].next
    PROVE  IsPath(g, IF k = 1 THEN h[path[k]].next ELSE first, Removed(path, k))
<1> DEFINE shorter == Removed(path, k)
           place(i) == IF i < k THEN i ELSE i + 1
<1>1. path \in Seq(DOMAIN h) /\ Len(path) \in Nat /\ k \in 1 .. Len(path)
    BY DEF IsPath
<1>2. /\ shorter \in Seq(DOMAIN h) /\ Len(shorter) = Len(path) - 1
      /\ \A i \in 1 .. Len(path) - 1 : shorter[i] = path[place(i)]
    BY <1>1, RemovedAt
<1> HIDE DEF shorter
<1>3. \A i \in 1 .. Len(path) - 1 : place(i) \in DOMAIN path /\ place(i) # k
    BY <1>1
<1>4. shorter \in Seq(DOMAIN g)
    <2>1. DOMAIN shorter = 1 .. Len(path) - 1
        BY <1>1, <1>2
    <2>2. \A i \in DOMAIN shorter : shorter[i] \in DOMAIN g
        BY <1>2, <1>3, <2>1
    <2>3. QED
        BY <1>2, <2>2
<1>5. (IF k = 1 THEN h[path[k]].next ELSE first)
         = IF shorter = << >> THEN Null ELSE shorter[1]
    <2>1. shorter = << >> <=> Len(path) = 1
        BY <1>1, <1>2
    <2>2. h[path[k]].next = IF k = Len(path) THEN Null ELSE path[k + 1]
        BY DEF IsPath
    <2>3. first = path[1]
        BY <1>1 DEF IsPath
    <2>4. Len(path) # 1 => shorter[1] = IF 1 < k THEN path[1] ELSE path[2]
        BY <1>1, <1>2
    <2>5. CASE k = 1
        BY <1>1, <2>1, <2>2, <2>4, <2>5
    <2>6. CASE k # 1
        BY <1>1, <2>1, <2>3, <2>4, <2>6
    <2>7. QED
        BY <2>5, <2>6
<1>6. ASSUME NEW i \in DOMAIN shorter
      PROVE  g[shorter[i]].next = IF i = Len(shorter) THEN Null ELSE shorter[i + 1]
    <2>1. i \in 1 .. Len(path) - 1 /\ shorter[i] = path[place(i)]
        BY <1>1, <1>2
    <2>2. \A j \in DOMAIN path : h[path[j]].next = IF j = Len(path) THEN Null ELSE path[j + 1]
        BY DEF IsPath
    <2>3. CASE i + 1 < k
        <3>1. shorter[i + 1] = path[i + 1] /\ i # Len(shorter)
            BY <1>1, <1>2, <2>1, <2>3
        <3>2. i \in DOMAIN path /\ i # k /\ i # k - 1 /\ i # Len(path) /\ place(i) = i
            BY <1>1, <2>1, <2>3
        <3>3. QED
            BY <2>1, <2>2, <3>1, <3>2
    <2>4. CASE i + 1 = k
        <3>1. i \in DOMAIN path /\ i = k - 1 /\ i # k /\ place(i) = i
            BY <1>1, <2>1, <2>4
        <3>2. g[shorter[i]].next = h[path[k]].next
            BY <2>1, <3>1
        <3>3. i # Len(shorter) => shorter[i + 1] = path[k + 1] /\ k # Len(path)
            BY <1>1, <1>2, <2>1, <2>4
        <3>4. i = Len(shorter) => k = Len(path)
            BY <1>1, <1>2, <2>1, <2>4
        <3>5. QED
            BY <2>2, <3>2, <3>3, <3>4
    <2>5. CASE i >= k
        <3>1. i + 1 \in DOMAIN path /\ i + 1 # k /\ i + 1 # k - 1 /\ place(i) = i + 1
            BY <1>1, <2>1, <2>5
        <3>2. g[shorter[i]].next = h[path[i + 1]].next
            BY <2>1, <3>1
        <3>3. i # Len(shorter) => shorter[i + 1] = path[i + 1 + 1] /\ i + 1 # Len(path)
            BY <1>1, <1>2, <2>1, <2>5
        <3>4. i = Len(shorter) => i + 1 = Len(path)
            BY <1>1, <1>2, <2>1
        <3>5. QED
            BY <2>2, <3>1, <3>2, <3>3, <3>4
    <2>6. QED
        BY <1>1, <2>1, <2>3, <2>4, <2>5
<1>7. ASSUME NEW i \in DOMAIN shorter, NEW j \in DOMAIN shorter, shorter[i] = shorter[j]
      PROVE  i = j
    <2>1. i \in 1 .. Len(path) - 1 /\ j \in 1 .. Len(path) - 1
        BY <1>1, <1>2
    <2>2. place(i) = place(j)
        BY <1>2, <1>3, <1>7, <2>1 DEF IsPath, IsInjective
    <2>3. QED
        BY <1>1, <2>1, <2>2
<1>8. QED
    BY <1>4, <1>5, <1>6, <1>7 DEF IsPath, IsInjective, shorter

-----------------------------------------------------------------------------
(* The chains of a heap *)

\* Every node of heap h is on one of the paths, once, that start at the roots.
Forest(h, root, c) ==
    /\ DOMAIN h \subseteq Nodes
    /\ c = [s \in DOMAIN root |-> c[s]]
    /\ \A s \in DOMAIN root : IsPath(h, root[s], c[s])
    /\ \A s, t \in DOMAIN root : s # t =>
          \A i \in DOMAIN c[s], j \in DOMAIN c[t] : c[s][i] # c[t][j]
    /\ \A n \in DOMAIN h : \E s \in DOMAIN root : \E i \in DOMAIN c[s] : c[s][i] = n

\* One path replaced, by nodes of its own and new ones.
LEMMA PathReplaced ==
    ASSUME NEW h, NEW root, NEW c, Forest(h, root, c), NEW s \in DOMAIN root,
           NEW g, NEW first, NEW path, DOMAIN g \subseteq Nodes, IsPath(g, first, path),
           \A m \in DOMAIN h : (\A i \in DOMAIN c[s] : c[s][i] # m) =>
              m \in DOMAIN g /\ g[m].next = h[m].next,
           \A m \in DOMAIN g : (\A i \in DOMAIN path : path[i] # m) =>
              m \in DOMAIN h /\ \A i \in DOMAIN c[s] : c[s][i] # m,
           \A i \in DOMAIN path :
              path[i] \in DOMAIN h => \E j \in DOMAIN c[s] : c[s][j] = path[i]
    PROVE  Forest(g, [root EXCEPT ![s] = first], [c EXCEPT ![s] = path])
<1> DEFINE root2 == [root EXCEPT ![s] = first]
           c2 == [c EXCEPT ![s] = path]
<1>1. /\ DOMAIN root2 = DOMAIN root /\ DOMAIN c = DOMAIN root
      /\ root2[s] = first /\ \A t \in DOMAIN root : t # s => root2[t] = root[t]
    BY DEF Forest
<1>2. /\ c2 = [t \in DOMAIN root2 |-> c2[t]]
      /\ c2[s] = path /\ \A t \in DOMAIN root : t # s => c2[t] = c[t]
    BY DEF Forest
<1> HIDE DEF root2, c2
<1>3. \A t \in DOMAIN root : \A i \in DOMAIN c[t] : c[t][i] \in DOMAIN h
    BY DEF Forest, IsPath
<1>4. \A t \in DOMAIN root : t # s =>
          \A i \in DOMAIN c[t] : \A j \in DOMAIN c[s] : c[s][j] # c[t][i]
    BY DEF Forest
<1>5. ASSUME NEW t \in DOMAIN root PROVE IsPath(g, root2[t], c2[t])
    <2>1. CASE t = s
        BY <1>1, <1>2, <2>1
    <2>2. CASE t # s
        <3>1. IsPath(h, root[t], c[t])
            BY DEF Forest
        <3>2. \A i \in DOMAIN c[t] : c[t][i] \in DOMAIN g /\ g[c[t][i]].next = h[c[t][i]].next
            BY <1>3, <1>4, <2>2
        <3>3. IsPath(g, root[t], c[t])
            BY <3>1, <3>2, PathKept
        <3>4. QED
            BY <1>1, <1>2, <2>2, <3>3
    <2>3. QED
        BY <2>1, <2>2
<1>6. ASSUME NEW t \in DOMAIN root, NEW u \in DOMAIN root, t # u,
             NEW i \in DOMAIN c2[t], NEW j \in DOMAIN c2[u]
      PROVE  c2[t][i] # c2[u][j]
    <2>1. \A v \in DOMAIN root : v # s =>
              \A k \in DOMAIN c[v] : \A l \in DOMAIN path : c[v][k] # path[l]
        BY <1>3, <1>4
    <2>2. CASE t = s \/ u = s
        BY <1>2, <1>6, <2>1, <2>2
    <2>3. CASE t # s /\ u # s
        BY <1>2, <1>6, <2>3 DEF Forest
    <2>4. QED
        BY <2>2, <2>3
<1>7. ASSUME NEW n \in DOMAIN g
      PROVE  \E t \in DOMAIN root : \E i \in DOMAIN c2[t] : c2[t][i] = n
    <2>1. CASE \E i \in DOMAIN path : path[i] = n
        BY <1>2, <2>1
    <2>2. CASE \A i \in DOMAIN path : path[i] # n
        <3>1. n \in DOMAIN h /\ \A i \in DOMAIN c[s] : c[s][i] # n
            BY <2>2
        <3>2. PICK t \in DOMAIN root : \E i \in DOMAIN c[t] : c[t][i] = n
            BY <3>1 DEF Forest
        <3>3. t # s
            BY <3>1, <3>2
        <3>4. QED
            BY <1>2, <3>2, <3>3
    <2>3. QED
        BY <2>1, <2>2
<1>8. Forest(g, root2, c2)
    BY <1>1, <1>2, <1>5, <1>6, <1>7 DEF Forest
<1>9. QED
    BY <1>8 DEF root2, c2

\* A new node in front of a path.
LEMMA ForestPushed ==
    ASSUME NEW h, NEW root, NEW c, Forest(h, root, c), NEW s \in DOMAIN root,
           NEW n \in Nodes \ DOMAIN h, NEW g, DOMAIN g = DOMAIN h \cup {n},
           g[n].next = root[s], \A m \in DOMAIN h : g[m].next = h[m].next
    PROVE  Forest(g, [root EXCEPT ![s] = n], [c EXCEPT ![s] = << n >> \o c[s]])
<1> DEFINE path == << n >> \o c[s]
<1>1. IsPath(h, root[s], c[s]) /\ DOMAIN h \subseteq Nodes
    BY DEF Forest
<1>2. c[s] \in Seq(DOMAIN h) /\ \A i \in DOMAIN c[s] : c[s][i] \in DOMAIN h
    BY <1>1 DEF IsPath
<1>3. IsPath(g, root[s], c[s])
    BY <1>1, <1>2, PathKept
<1>4. IsPath(g, n, path)
    BY <1>2, <1>3, PathPushed
<1>5. /\ DOMAIN path = 1 .. Len(c[s]) + 1 /\ Len(c[s]) \in Nat /\ DOMAIN c[s] = 1 .. Len(c[s])
      /\ path[1] = n /\ \A i \in DOMAIN c[s] : path[i + 1] = c[s][i]
    BY <1>2
<1>6. \A i \in DOMAIN path : i = 1 \/ (i - 1 \in DOMAIN c[s] /\ path[i] = c[s][i - 1])
    BY <1>5, <1>2
<1> HIDE DEF path
<1>7. \A i \in DOMAIN c[s] : i + 1 \in DOMAIN path
    BY <1>5
<1>8. \A m \in DOMAIN g : (\A i \in DOMAIN path : path[i] # m) =>
          m \in DOMAIN h /\ \A i \in DOMAIN c[s] : c[s][i] # m
    BY <1>5, <1>7
<1>9. \A i \in DOMAIN path :
          path[i] \in DOMAIN h => \E j \in DOMAIN c[s] : c[s][j] = path[i]
    BY <1>5, <1>6
<1>10. Forest(g, [root EXCEPT ![s] = n], [c EXCEPT ![s] = path])
    BY <1>1, <1>4, <1>8, <1>9, PathReplaced
<1>11. QED
    BY <1>10 DEF path

\* A new node at the end of a path.
LEMMA ForestAppended ==
    ASSUME NEW h, NEW root, NEW c, Forest(h, root, c), NEW s \in DOMAIN root, c[s] # << >>,
           NEW n \in Nodes \ DOMAIN h, NEW g, DOMAIN g = DOMAIN h \cup {n},
           g[n].next = Null,
           \A m \in DOMAIN h : g[m].next = IF m = c[s][Len(c[s])] THEN n ELSE h[m].next
    PROVE  Forest(g, root, [c EXCEPT ![s] = Append(c[s], n)])
<1> DEFINE path == Append(c[s], n)
<1>1. IsPath(h, root[s], c[s]) /\ DOMAIN h \subseteq Nodes
    BY DEF Forest
<1>2. c[s] \in Seq(DOMAIN h) /\ \A i \in DOMAIN c[s] : c[s][i] \in DOMAIN h
    BY <1>1 DEF IsPath
<1>3. \A i \in DOMAIN c[s] :
          /\ c[s][i] \in DOMAIN g /\ c[s][i] # n
          /\ g[c[s][i]].next = IF i = Len(c[s]) THEN n ELSE h[c[s][i]].next
    <2>1. \A i \in DOMAIN c[s] : c[s][i] = c[s][Len(c[s])] <=> i = Len(c[s])
        BY <1>1, <1>2 DEF IsPath, IsInjective
    <2>2. QED
        BY <1>2, <2>1
<1>4. IsPath(g, root[s], path)
    BY <1>1, <1>3, PathAppended
<1>5. /\ DOMAIN path = 1 .. Len(c[s]) + 1 /\ Len(c[s]) \in Nat /\ DOMAIN c[s] = 1 .. Len(c[s])
      /\ path[Len(c[s]) + 1] = n /\ \A i \in DOMAIN c[s] : path[i] = c[s][i]
    BY <1>2
<1> HIDE DEF path
<1>6. \A i \in DOMAIN path : path[i] = n \/ (i \in DOMAIN c[s] /\ path[i] = c[s][i])
    BY <1>5, <1>2
<1>7. \A i \in DOMAIN c[s] : i \in DOMAIN path
    BY <1>5
<1>8. \A m \in DOMAIN g : (\A i \in DOMAIN path : path[i] # m) =>
          m \in DOMAIN h /\ \A i \in DOMAIN c[s] : c[s][i] # m
    BY <1>5, <1>7
<1>9. \A i \in DOMAIN path :
          path[i] \in DOMAIN h => \E j \in DOMAIN c[s] : c[s][j] = path[i]
    BY <1>6
<1>10. \A m \in DOMAIN h : (\A i \in DOMAIN c[s] : c[s][i] # m) =>
          m \in DOMAIN g /\ g[m].next = h[m].next
    <2>1. Len(c[s]) \in DOMAIN c[s]
        BY <1>2
    <2>2. QED
        BY <2>1
<1>11. Forest(g, [root EXCEPT ![s] = root[s]], [c EXCEPT ![s] = path])
    <2>1. DOMAIN g \subseteq Nodes
        BY <1>1
    <2>2. QED
        BY <2>1, <1>4, <1>8, <1>9, <1>10, PathReplaced, Zenon
<1>12. Forest(g, root, [c EXCEPT ![s] = path])
    <2>1. \A t \in DOMAIN root : [root EXCEPT ![s] = root[s]][t] = root[t]
        OBVIOUS
    <2>2. DOMAIN [root EXCEPT ![s] = root[s]] = DOMAIN root
        OBVIOUS
    <2> DEFINE r == [root EXCEPT ![s] = root[s]]
    <2> HIDE DEF r
    <2>3. QED
        BY <1>11, <2>1, <2>2 DEF Forest
<1>13. QED
    BY <1>12 DEF path

\* The k-th node of a path taken out and freed.
LEMMA ForestRemoved ==
    ASSUME NEW h, NEW root, NEW c, Forest(h, root, c), NEW s \in DOMAIN root,
           NEW k \in DOMAIN c[s], NEW g, DOMAIN g = DOMAIN h \ {c[s][k]},
           \A m \in DOMAIN g :
              g[m].next = IF k # 1 /\ m = c[s][k - 1] THEN h[c[s][k]].next ELSE h[m].next
    PROVE  Forest(g, [root EXCEPT ![s] = IF k = 1 THEN h[c[s][k]].next ELSE root[s]],
                  [c EXCEPT ![s] = Removed(c[s], k)])
<1> DEFINE path == Removed(c[s], k)
           first == IF k = 1 THEN h[c[s][k]].next ELSE root[s]
<1>1. IsPath(h, root[s], c[s]) /\ DOMAIN h \subseteq Nodes
    BY DEF Forest
<1>2. /\ c[s] \in Seq(DOMAIN h) /\ \A i \in DOMAIN c[s] : c[s][i] \in DOMAIN h
      /\ Len(c[s]) \in Nat /\ DOMAIN c[s] = 1 .. Len(c[s]) /\ k \in 1 .. Len(c[s])
    BY <1>1 DEF IsPath
<1>3. \A i, j \in DOMAIN c[s] : c[s][i] = c[s][j] => i = j
    BY <1>1 DEF IsPath, IsInjective
<1>4. ASSUME NEW i \in DOMAIN c[s], i # k
      PROVE  /\ c[s][i] \in DOMAIN g
             /\ g[c[s][i]].next = IF i = k - 1 THEN h[c[s][k]].next ELSE h[c[s][i]].next
    <2>1. c[s][i] \in DOMAIN g
        BY <1>2, <1>3, <1>4
    <2>2. CASE k = 1
        <3>1. i # k - 1
            BY <1>2, <2>2
        <3>2. QED
            BY <2>1, <2>2, <3>1
    <2>3. CASE k # 1
        <3>1. k - 1 \in DOMAIN c[s]
            BY <1>2, <2>3
        <3>2. c[s][i] = c[s][k - 1] <=> i = k - 1
            BY <1>3, <3>1
        <3>3. QED
            BY <2>1, <2>3, <3>2
    <2>4. QED
        BY <2>2, <2>3
<1>5. IsPath(g, first, path)
    BY <1>1, <1>4, PathRemoved
<1>6. /\ path \in Seq(DOMAIN h) /\ Len(path) = Len(c[s]) - 1
      /\ \A i \in 1 .. Len(c[s]) - 1 : path[i] = IF i < k THEN c[s][i] ELSE c[s][i + 1]
    BY <1>2, RemovedAt
<1> HIDE DEF path, first
<1>7. DOMAIN path = 1 .. Len(c[s]) - 1
    BY <1>2, <1>6
<1>8. ASSUME NEW i \in DOMAIN path PROVE \E j \in DOMAIN c[s] : c[s][j] = path[i]
    <2>1. i \in DOMAIN c[s] /\ i + 1 \in DOMAIN c[s]
        BY <1>2, <1>7
    <2>2. QED
        BY <1>6, <1>7, <2>1
<1>9. ASSUME NEW j \in DOMAIN c[s], j # k PROVE \E i \in DOMAIN path : path[i] = c[s][j]
    <2>1. CASE j < k
        <3>1. j \in DOMAIN path
            BY <1>2, <1>7, <2>1
        <3>2. QED
            BY <1>6, <1>7, <2>1, <3>1
    <2>2. CASE j > k
        <3>1. j - 1 \in DOMAIN path /\ ~(j - 1 < k) /\ j - 1 + 1 = j
            BY <1>2, <1>7, <2>2
        <3>2. QED
            BY <1>6, <1>7, <3>1
    <2>3. QED
        BY <1>2, <1>9, <2>1, <2>2
<1>10. \A m \in DOMAIN h : (\A i \in DOMAIN c[s] : c[s][i] # m) =>
          m \in DOMAIN g /\ g[m].next = h[m].next
    <2>1. k # 1 => k - 1 \in DOMAIN c[s]
        BY <1>2
    <2>2. QED
        BY <2>1
<1>11. \A m \in DOMAIN g : (\A i \in DOMAIN path : path[i] # m) =>
          m \in DOMAIN h /\ \A i \in DOMAIN c[s] : c[s][i] # m
    BY <1>9
<1>12. DOMAIN g \subseteq Nodes
    BY <1>1
<1>13. Forest(g, [root EXCEPT ![s] = first], [c EXCEPT ![s] = path])
    BY <1>5, <1>8, <1>10, <1>11, <1>12, PathReplaced
<1>14. QED
    BY <1>13 DEF path, first

\* Paths freed, new roots added: what is left of the nodes is on the paths kept.
LEMMA ForestKept ==
    ASSUME NEW h, NEW root, NEW c, Forest(h, root, c),
           NEW g, NEW root2, NEW c2, DOMAIN g \subseteq DOMAIN h,
           \A n \in DOMAIN g : g[n].next = h[n].next,
           c2 = [s \in DOMAIN root2 |-> c2[s]],
           \A s \in DOMAIN root2 :
              \/ c2[s] = << >> /\ root2[s] = Null
              \/ s \in DOMAIN root /\ c2[s] = c[s] /\ root2[s] = root[s],
           \A s \in DOMAIN root2 : \A i \in DOMAIN c2[s] : c2[s][i] \in DOMAIN g,
           \A n \in DOMAIN g : \E s \in DOMAIN root2 : \E i \in DOMAIN c2[s] : c2[s][i] = n
    PROVE  Forest(g, root2, c2)
<1>1. ASSUME NEW s \in DOMAIN root2 PROVE IsPath(g, root2[s], c2[s])
    <2>1. CASE c2[s] = << >> /\ root2[s] = Null
        <3>1. << >> \in Seq(DOMAIN g) /\ DOMAIN << >> = {}
            OBVIOUS
        <3>2. QED
            BY <2>1, <3>1 DEF IsPath, IsInjective
    <2>2. CASE s \in DOMAIN root /\ c2[s] = c[s] /\ root2[s] = root[s]
        <3>1. IsPath(h, root2[s], c2[s])
            BY <2>2 DEF Forest
        <3>2. QED
            BY <3>1, PathKept
    <2>3. QED
        BY <2>1, <2>2
<1>2. ASSUME NEW s \in DOMAIN root2, NEW t \in DOMAIN root2, s # t,
             NEW i \in DOMAIN c2[s], NEW j \in DOMAIN c2[t]
      PROVE  c2[s][i] # c2[t][j]
    <2>1. s \in DOMAIN root /\ c2[s] = c[s] /\ t \in DOMAIN root /\ c2[t] = c[t]
        <3>1. DOMAIN << >> = {}
            OBVIOUS
        <3>2. QED
            BY <3>1
    <2>2. QED
        BY <1>2, <2>1 DEF Forest
<1>3. DOMAIN g \subseteq Nodes
    BY DEF Forest
<1>4. QED
    BY <1>1, <1>2, <1>3 DEF Forest

\* The nodes of two paths of a forest.
LEMMA ForestNodes ==
    ASSUME NEW h, NEW root, NEW c, Forest(h, root, c), NEW s \in DOMAIN root
    PROVE  /\ c[s] \in Seq(DOMAIN h) /\ NodesFrom(h, root[s]) = c[s]
           /\ DOMAIN c[s] = 1 .. Len(c[s]) /\ Len(c[s]) \in Nat
           /\ \A i \in DOMAIN c[s] : c[s][i] \in DOMAIN h
           /\ Range(c[s]) = {c[s][i] : i \in DOMAIN c[s]}
           /\ root[s] = IF c[s] = << >> THEN Null ELSE c[s][1]
           /\ Null \notin DOMAIN h
           /\ root[s] = Null <=> c[s] = << >>
<1>1. IsPath(h, root[s], c[s]) /\ DOMAIN h \subseteq Nodes
    BY DEF Forest
<1>2. NodesFrom(h, root[s]) = c[s]
    BY <1>1, PathWalked
<1>3. c[s] \in Seq(DOMAIN h) /\ \A i \in DOMAIN c[s] : c[s][i] \in DOMAIN h
    BY <1>1 DEF IsPath
<1>4. Range(c[s]) = {c[s][i] : i \in DOMAIN c[s]}
    BY DEF Range
<1>5. root[s] = IF c[s] = << >> THEN Null ELSE c[s][1]
    BY <1>1 DEF IsPath
<1>6. Null \notin DOMAIN h
    BY <1>1, DataStructsAssumption
<1>7. root[s] = Null <=> c[s] = << >>
    <2>1. c[s] # << >> => 1 \in DOMAIN c[s]
        BY <1>3
    <2>2. QED
        BY <1>3, <1>5, <1>6, <2>1
<1>8. QED
    BY <1>2, <1>3, <1>4, <1>5, <1>6, <1>7

-----------------------------------------------------------------------------
(* The lists and the map as a forest *)

L(l) == << "list", l >>
B(b) == << "bucket", b >>

Buckets(m) == IF m = Null THEN {} ELSE DOMAIN m.buckets

\* Where the lists and the chains of the map begin.
Starts(ls, m) ==
    [s \in ({"list"} \X Lists) \cup ({"bucket"} \X Buckets(m)) |->
        IF s[1] = "bucket" THEN m.buckets[s[2]]
        ELSE IF ls[s[2]] = Null THEN Null ELSE ls[s[2]].head]

\* The start of each list and of each chain, and no two of them have one name.
LEMMA StartsOf ==
    ASSUME NEW ls, NEW m
    PROVE  /\ \A l \in Lists : /\ L(l) \in DOMAIN Starts(ls, m)
                               /\ Starts(ls, m)[L(l)] = IF ls[l] = Null THEN Null ELSE ls[l].head
           /\ \A b \in Buckets(m) : /\ B(b) \in DOMAIN Starts(ls, m)
                                    /\ Starts(ls, m)[B(b)] = m.buckets[b]
           /\ \A s \in DOMAIN Starts(ls, m) :
                 (\E l \in Lists : s = L(l)) \/ (\E b \in Buckets(m) : s = B(b))
           /\ \A l, k : (L(l) = L(k) <=> l = k) /\ (B(l) = B(k) <=> l = k) /\ L(l) # B(k)
<1>1. \A l, k : (L(l) = L(k) <=> l = k) /\ (B(l) = B(k) <=> l = k) /\ L(l) # B(k)
    BY DEF L, B
<1> DEFINE slots == ({"list"} \X Lists) \cup ({"bucket"} \X Buckets(m))
<1>2. DOMAIN Starts(ls, m) = slots
    BY DEF Starts
<1>3. /\ \A l \in Lists : L(l) \in slots /\ L(l)[1] = "list" /\ L(l)[2] = l
      /\ \A b \in Buckets(m) : B(b) \in slots /\ B(b)[1] = "bucket" /\ B(b)[2] = b
      /\ \A s \in slots : (\E l \in Lists : s = L(l)) \/ (\E b \in Buckets(m) : s = B(b))
    BY DEF L, B
<1>4. \A s \in slots :
          Starts(ls, m)[s] = IF s[1] = "bucket" THEN m.buckets[s[2]]
                             ELSE IF ls[s[2]] = Null THEN Null ELSE ls[s[2]].head
    BY DEF Starts
<1> HIDE DEF slots
<1>5. \A l \in Lists : Starts(ls, m)[L(l)] = IF ls[l] = Null THEN Null ELSE ls[l].head
    BY <1>3, <1>4
<1>6. \A b \in Buckets(m) : Starts(ls, m)[B(b)] = m.buckets[b]
    BY <1>3, <1>4
<1>7. QED
    BY <1>1, <1>2, <1>3, <1>5, <1>6

\* The last node of a path.
LastOf(path) == IF path = << >> THEN Null ELSE path[Len(path)]

\* The nodes that hold a key and a value.
Hashed(h) == {n \in DOMAIN h : h[n].data \in Keys \X Things}

HeapTyped(h) == h \in [DOMAIN h -> [data : Things \cup (Keys \X Things), next : Pointers]]

TailsKept(ls, c) == \A l \in Lists : ls[l] # Null => ls[l].tail = LastOf(c[L(l)])

\* Lists hold things.  A chain of the map holds keys of its bucket.
DataKept(h, m, c) ==
    /\ \A l \in Lists : \A i \in DOMAIN c[L(l)] : h[c[L(l)][i]].data \in Things
    /\ \A b \in Buckets(m) : \A i \in DOMAIN c[B(b)] :
          /\ h[c[B(b)][i]].data \in Keys \X Things
          /\ hash(m.num_buckets, KeyOf(h, c[B(b)][i])) = b

KeysApart(h) == \A i, j \in Hashed(h) : KeyOf(h, i) = KeyOf(h, j) => i = j

MapKept(h, m) ==
    m # Null => /\ m.num_buckets \in Sizes /\ m \in MapsOf(m.num_buckets)
                /\ m.entries = Cardinality(Hashed(h))

\* The lists and the map are paths c through the heap.
Kept(h, ls, m, c) ==
    /\ Forest(h, Starts(ls, m), c)
    /\ HeapTyped(h)
    /\ ls \in [Lists -> ListRecords \cup {Null}]
    /\ TailsKept(ls, c)
    /\ DataKept(h, m, c)
    /\ KeysApart(h)
    /\ MapKept(h, m)

\* A new head moves the start of its list only.
LEMMA StartMoved ==
    ASSUME NEW ls \in [Lists -> ListRecords \cup {Null}], NEW m, NEW l \in Lists,
           NEW ls2 \in [Lists -> ListRecords \cup {Null}], ls2[l] # Null,
           \A k \in Lists : k # l => ls2[k] = ls[k]
    PROVE  Starts(ls2, m) = [Starts(ls, m) EXCEPT ![L(l)] = ls2[l].head]
<1> DEFINE S == Starts(ls, m)
           S2 == Starts(ls2, m)
           moved == [S EXCEPT ![L(l)] = ls2[l].head]
<1>1. DOMAIN S = DOMAIN S2 /\ S2 = [s \in DOMAIN S |-> S2[s]]
    BY DEF Starts
<1>2. moved = [s \in DOMAIN S |-> moved[s]] /\ L(l) \in DOMAIN S
    BY <1>1, StartsOf
<1>3. ASSUME NEW s \in DOMAIN S PROVE S2[s] = moved[s]
    <2>1. CASE s = L(l)
        <3>1. S2[s] = ls2[l].head
            BY <2>1, StartsOf
        <3>2. moved[s] = ls2[l].head
            BY <1>2, <2>1
        <3>3. QED
            BY <3>1, <3>2
    <2>2. CASE s # L(l)
        <3>1. moved[s] = S[s]
            BY <2>2
        <3>2. CASE \E k \in Lists : s = L(k)
            <4>1. PICK k \in Lists : s = L(k)
                BY <3>2
            <4>2. ls2[k] = ls[k]
                BY <2>2, <4>1
            <4>3. S2[s] = S[s]
                BY <4>1, <4>2, StartsOf
            <4>4. QED
                BY <3>1, <4>3
        <3>3. CASE \E b \in Buckets(m) : s = B(b)
            <4>1. S2[s] = S[s]
                BY <3>3, StartsOf
            <4>2. QED
                BY <3>1, <4>1
        <3>4. QED
            BY <3>2, <3>3, StartsOf
    <2>3. QED
        BY <2>1, <2>2
<1> HIDE DEF S, S2, moved
<1>4. S2 = moved
    BY <1>1, <1>2, <1>3
<1>5. QED
    BY <1>4 DEF S, S2, moved

\* Pairs are what the chains of the map hold.
LEMMA HashedNodes ==
    ASSUME NEW h, NEW ls, NEW m, NEW c, Forest(h, Starts(ls, m), c), DataKept(h, m, c)
    PROVE  /\ \A n \in Hashed(h) : \E b \in Buckets(m) : \E i \in DOMAIN c[B(b)] : c[B(b)][i] = n
           /\ \A b \in Buckets(m) : \A i \in DOMAIN c[B(b)] : c[B(b)][i] \in Hashed(h)
<1>1. ASSUME NEW n \in Hashed(h)
      PROVE  \E b \in Buckets(m) : \E i \in DOMAIN c[B(b)] : c[B(b)][i] = n
    <2>1. n \in DOMAIN h /\ h[n].data \in Keys \X Things
        BY DEF Hashed
    <2>2. PICK s \in DOMAIN Starts(ls, m) : \E i \in DOMAIN c[s] : c[s][i] = n
        BY <2>1 DEF Forest
    <2>3. ~\E l \in Lists : s = L(l)
        <3>1. h[n].data \notin Things
            BY <2>1, DataStructsAssumption
        <3>2. QED
            BY <2>2, <3>1 DEF DataKept
    <2>4. QED
        BY <2>2, <2>3, StartsOf
<1>2. ASSUME NEW b \in Buckets(m), NEW i \in DOMAIN c[B(b)] PROVE c[B(b)][i] \in Hashed(h)
    <2>1. c[B(b)][i] \in DOMAIN h
        <3>1. B(b) \in DOMAIN Starts(ls, m)
            BY StartsOf
        <3>2. QED
            BY <3>1, ForestNodes
    <2>2. QED
        BY <2>1 DEF DataKept, Hashed
<1>3. QED
    BY <1>1, <1>2

\* One list changed, by nodes that hold things.
LEMMA ListChanged ==
    ASSUME NEW h, NEW ls, NEW m, NEW c, Kept(h, ls, m, c), NEW l \in Lists,
           NEW g, NEW ls2 \in [Lists -> ListRecords \cup {Null}], NEW path,
           ls2[l] # Null, \A k \in Lists : k # l => ls2[k] = ls[k],
           ls2[l].tail = LastOf(path),
           Forest(g, [Starts(ls, m) EXCEPT ![L(l)] = ls2[l].head], [c EXCEPT ![L(l)] = path]),
           HeapTyped(g),
           \A i \in DOMAIN path : g[path[i]].data \in Things,
           \A n \in DOMAIN h : n \in DOMAIN g => g[n].data = h[n].data
    PROVE  Kept(g, ls2, m, [c EXCEPT ![L(l)] = path])
<1> DEFINE c2 == [c EXCEPT ![L(l)] = path]
<1>1. /\ Forest(h, Starts(ls, m), c) /\ HeapTyped(h) /\ TailsKept(ls, c) /\ DataKept(h, m, c)
      /\ ls \in [Lists -> ListRecords \cup {Null}] /\ KeysApart(h) /\ MapKept(h, m)
    BY DEF Kept
<1>2. Starts(ls2, m) = [Starts(ls, m) EXCEPT ![L(l)] = ls2[l].head]
    BY <1>1, StartMoved
<1>3. Forest(g, Starts(ls2, m), c2)
    BY <1>2
<1>4. L(l) \in DOMAIN c /\ c2[L(l)] = path
    BY <1>1, StartsOf DEF Forest
<1>5. \A k \in Lists : k # l => c2[L(k)] = c[L(k)]
    BY StartsOf
<1>6. \A b : c2[B(b)] = c[B(b)]
    BY StartsOf
<1> HIDE DEF c2
<1>7. \A s \in DOMAIN Starts(ls, m) : \A i \in DOMAIN c[s] : c[s][i] \in DOMAIN h
    BY <1>1, ForestNodes
<1>8. \A s \in DOMAIN Starts(ls2, m) : \A i \in DOMAIN c2[s] : c2[s][i] \in DOMAIN g
    BY <1>3, ForestNodes
<1>9. TailsKept(ls2, c2)
    BY <1>1, <1>4, <1>5 DEF TailsKept
<1>10. DataKept(g, m, c2)
    <2>1. ASSUME NEW k \in Lists, NEW i \in DOMAIN c2[L(k)]
          PROVE  g[c2[L(k)][i]].data \in Things
        <3>1. CASE k = l
            BY <1>4, <3>1
        <3>2. CASE k # l
            <4>1. c[L(k)][i] \in DOMAIN h /\ c[L(k)][i] \in DOMAIN g
                BY <1>5, <1>7, <1>8, <3>2, StartsOf
            <4>2. QED
                BY <1>1, <1>5, <3>2, <4>1 DEF DataKept
        <3>3. QED
            BY <3>1, <3>2
    <2>2. ASSUME NEW b \in Buckets(m), NEW i \in DOMAIN c2[B(b)]
          PROVE  /\ g[c2[B(b)][i]].data \in Keys \X Things
                 /\ hash(m.num_buckets, KeyOf(g, c2[B(b)][i])) = b
        <3>1. c[B(b)][i] \in DOMAIN h /\ c[B(b)][i] \in DOMAIN g
            BY <1>6, <1>7, <1>8, StartsOf
        <3>2. g[c2[B(b)][i]].data = h[c[B(b)][i]].data
            BY <1>6, <3>1
        <3>3. QED
            BY <1>1, <1>6, <3>2 DEF DataKept, KeyOf
    <2>3. QED
        BY <2>1, <2>2 DEF DataKept
<1>11. Hashed(g) = Hashed(h) /\ \A n \in Hashed(h) : n \in DOMAIN g /\ n \in DOMAIN h
    <2>1. ASSUME NEW n \in Hashed(h) PROVE n \in Hashed(g) /\ n \in DOMAIN h
        BY <1>1, <1>3, <1>6, <1>10, HashedNodes DEF Hashed
    <2>2. ASSUME NEW n \in Hashed(g) PROVE n \in Hashed(h)
        BY <1>1, <1>3, <1>6, <1>10, HashedNodes
    <2>3. QED
        BY <2>1, <2>2 DEF Hashed
<1>12. KeysApart(g) /\ MapKept(g, m)
    BY <1>1, <1>11 DEF KeysApart, KeyOf, MapKept
<1>13. Kept(g, ls2, m, c2)
    BY <1>3, <1>9, <1>10, <1>12 DEF Kept
<1>14. QED
    BY <1>13 DEF c2

\* A thing inserted in front.
LEMMA HeadGiven ==
    ASSUME NEW c, Kept(heap, list, hm, c), NEW l \in Lists, list[l] # Null,
           NEW thing \in Things, NEW n \in FreeNodes
    PROVE  Kept(NewNode(n, thing, list[l].head),
                [list EXCEPT ![l].head = n,
                             ![l].tail = IF list[l].head = Null THEN n ELSE @],
                hm, [c EXCEPT ![L(l)] = << n >> \o c[L(l)]])
<1> DEFINE g == NewNode(n, thing, list[l].head)
           ls2 == [list EXCEPT ![l].head = n,
                               ![l].tail = IF list[l].head = Null THEN n ELSE @]
           path == << n >> \o c[L(l)]
<1>1. /\ Forest(heap, Starts(list, hm), c) /\ HeapTyped(heap) /\ TailsKept(list, c)
      /\ DataKept(heap, hm, c) /\ list \in [Lists -> ListRecords \cup {Null}]
    BY DEF Kept
<1>2. n \in Nodes /\ n \notin DOMAIN heap /\ n \in Pointers /\ Null \in Pointers
    BY DEF FreeNodes, Pointers
<1>3. list[l] \in ListRecords /\ list[l].head \in Pointers /\ list[l].tail \in Pointers
    BY <1>1 DEF ListRecords
<1>4. /\ L(l) \in DOMAIN Starts(list, hm) /\ Starts(list, hm)[L(l)] = list[l].head
    BY StartsOf
<1>5. /\ DOMAIN g = DOMAIN heap \cup {n} /\ g[n] = [data |-> thing, next |-> list[l].head]
      /\ \A m \in DOMAIN heap : g[m] = heap[m]
    BY <1>2 DEF NewNode
<1>6. HeapTyped(g)
    <2>1. g = [m \in DOMAIN g |-> g[m]]
        BY DEF NewNode
    <2>2. g[n] \in [data : Things \cup (Keys \X Things), next : Pointers]
        BY <1>3, <1>5
    <2> HIDE DEF g
    <2>3. QED
        BY <1>1, <1>5, <2>1, <2>2 DEF HeapTyped
<1> HIDE DEF g
<1>7. Forest(g, [Starts(list, hm) EXCEPT ![L(l)] = n], [c EXCEPT ![L(l)] = path])
    <2>1. g[n].next = Starts(list, hm)[L(l)] /\ \A m \in DOMAIN heap : g[m].next = heap[m].next
        BY <1>4, <1>5
    <2>2. n \in Nodes \ DOMAIN heap
        BY <1>2
    <2>3. QED
        BY <1>1, <1>4, <1>5, <2>1, <2>2, ForestPushed, Zenon
<1>8. /\ c[L(l)] \in Seq(DOMAIN heap) /\ \A i \in DOMAIN c[L(l)] : c[L(l)][i] \in DOMAIN heap
      /\ list[l].head = Null <=> c[L(l)] = << >>
    BY <1>1, <1>4, ForestNodes
<1>9. /\ path # << >> /\ Len(path) = Len(c[L(l)]) + 1 /\ DOMAIN path = 1 .. Len(path)
      /\ Len(c[L(l)]) \in Nat
      /\ path[1] = n /\ \A i \in DOMAIN path : i # 1 => path[i] = c[L(l)][i - 1]
      /\ \A i \in DOMAIN path : i # 1 => i - 1 \in DOMAIN c[L(l)]
    BY <1>8
<1> HIDE DEF path
<1>10. /\ ls2 \in [Lists -> ListRecords \cup {Null}]
       /\ ls2[l] \in ListRecords /\ ls2[l].head = n
       /\ ls2[l].tail = IF list[l].head = Null THEN n ELSE list[l].tail
       /\ \A k \in Lists : k # l => ls2[k] = list[k]
    BY <1>1, <1>2, <1>3 DEF ListRecords
<1> HIDE DEF ls2
<1>11. ls2[l] # Null
    BY <1>10, DataStructsAssumption
<1>12. ls2[l].tail = LastOf(path)
    <2>1. CASE list[l].head = Null
        <3>1. Len(path) = 1
            BY <1>8, <1>9, <2>1
        <3>2. QED
            BY <1>9, <1>10, <2>1, <3>1 DEF LastOf
    <2>2. CASE list[l].head # Null
        <3>1. Len(path) \in DOMAIN path /\ Len(path) # 1
            BY <1>8, <1>9, <2>2
        <3>2. path[Len(path)] = c[L(l)][Len(c[L(l)])]
            BY <1>9, <3>1
        <3>3. QED
            BY <1>1, <1>8, <1>9, <1>10, <2>2, <3>2 DEF LastOf, TailsKept
    <2>3. QED
        BY <2>1, <2>2
<1>13. ASSUME NEW i \in DOMAIN path PROVE g[path[i]].data \in Things
    <2>1. CASE i = 1
        BY <1>5, <1>9, <2>1
    <2>2. CASE i # 1
        <3>1. i - 1 \in DOMAIN c[L(l)] /\ path[i] = c[L(l)][i - 1]
            BY <1>9, <2>2
        <3>2. c[L(l)][i - 1] \in DOMAIN heap
            BY <1>8, <3>1
        <3>3. QED
            BY <1>1, <1>5, <3>1, <3>2 DEF DataKept
    <2>3. QED
        BY <2>1, <2>2
<1>14. \A m \in DOMAIN heap : m \in DOMAIN g => g[m].data = heap[m].data
    BY <1>5
<1>15. Kept(g, ls2, hm, [c EXCEPT ![L(l)] = path])
    BY <1>6, <1>7, <1>10, <1>11, <1>12, <1>13, <1>14, ListChanged
<1>16. QED
    BY <1>15 DEF g, ls2, path

\* What a list keeps of its nodes.
LEMMA ListNodes ==
    ASSUME NEW h, NEW ls, NEW m, NEW c, Kept(h, ls, m, c), NEW l \in Lists, ls[l] # Null
    PROVE  /\ L(l) \in DOMAIN Starts(ls, m) /\ Starts(ls, m)[L(l)] = ls[l].head
           /\ ls[l] \in ListRecords /\ ls[l].head \in Pointers /\ ls[l].tail \in Pointers
           /\ c[L(l)] \in Seq(DOMAIN h) /\ NodesFrom(h, ls[l].head) = c[L(l)]
           /\ DOMAIN c[L(l)] = 1 .. Len(c[L(l)]) /\ Len(c[L(l)]) \in Nat
           /\ \A i \in DOMAIN c[L(l)] :
                 c[L(l)][i] \in DOMAIN h /\ h[c[L(l)][i]].data \in Things
           /\ \A i, j \in DOMAIN c[L(l)] : c[L(l)][i] = c[L(l)][j] => i = j
           /\ ls[l].head = IF c[L(l)] = << >> THEN Null ELSE c[L(l)][1]
           /\ ls[l].tail = IF c[L(l)] = << >> THEN Null ELSE c[L(l)][Len(c[L(l)])]
           /\ ls[l].head = Null <=> c[L(l)] = << >>
           /\ ls[l].tail = Null <=> c[L(l)] = << >>
           /\ Null \notin DOMAIN h /\ DOMAIN h \subseteq Nodes
<1>1. Forest(h, Starts(ls, m), c) /\ DataKept(h, m, c) /\ TailsKept(ls, c)
    BY DEF Kept
<1>2. L(l) \in DOMAIN Starts(ls, m) /\ Starts(ls, m)[L(l)] = ls[l].head
    BY StartsOf
<1>3. ls[l] \in ListRecords /\ ls[l].head \in Pointers /\ ls[l].tail \in Pointers
    BY DEF Kept, ListRecords
<1>4. /\ c[L(l)] \in Seq(DOMAIN h) /\ NodesFrom(h, ls[l].head) = c[L(l)]
      /\ DOMAIN c[L(l)] = 1 .. Len(c[L(l)]) /\ Len(c[L(l)]) \in Nat
      /\ \A i \in DOMAIN c[L(l)] : c[L(l)][i] \in DOMAIN h
      /\ ls[l].head = IF c[L(l)] = << >> THEN Null ELSE c[L(l)][1]
      /\ ls[l].head = Null <=> c[L(l)] = << >>
      /\ Null \notin DOMAIN h
    BY <1>1, <1>2, ForestNodes
<1>5. \A i \in DOMAIN c[L(l)] : h[c[L(l)][i]].data \in Things
    BY <1>1 DEF DataKept
<1>6. \A i, j \in DOMAIN c[L(l)] : c[L(l)][i] = c[L(l)][j] => i = j
    BY <1>1, <1>2 DEF Forest, IsPath, IsInjective
<1>7. ls[l].tail = IF c[L(l)] = << >> THEN Null ELSE c[L(l)][Len(c[L(l)])]
    BY <1>1 DEF TailsKept, LastOf
<1>8. ls[l].tail = Null <=> c[L(l)] = << >>
    <2>1. c[L(l)] # << >> => Len(c[L(l)]) \in DOMAIN c[L(l)]
        BY <1>4
    <2>2. QED
        BY <1>4, <1>7, <2>1
<1>9. DOMAIN h \subseteq Nodes
    BY <1>1 DEF Forest
<1>10. QED
    BY <1>2, <1>3, <1>4, <1>5, <1>6, <1>7, <1>8, <1>9

\* What a new node leaves of the heap.
LEMMA NodeGiven ==
    ASSUME HeapTyped(heap), NEW n \in FreeNodes,
           NEW data \in Things \cup (Keys \X Things), NEW next \in Pointers,
           NEW g, g = NewNode(n, data, next)
    PROVE  /\ DOMAIN g = DOMAIN heap \cup {n}
           /\ g[n].data = data /\ g[n].next = next
           /\ \A m \in DOMAIN heap : g[m] = heap[m]
           /\ HeapTyped(g)
           /\ n \in Nodes \ DOMAIN heap
<1>1. n \in Nodes \ DOMAIN heap
    BY DEF FreeNodes
<1>2. /\ DOMAIN g = DOMAIN heap \cup {n} /\ g[n] = [data |-> data, next |-> next]
      /\ \A m \in DOMAIN heap : g[m] = heap[m]
      /\ g = [m \in DOMAIN g |-> g[m]]
    BY <1>1 DEF NewNode
<1>3. g[n] \in [data : Things \cup (Keys \X Things), next : Pointers]
    BY <1>2
<1>4. HeapTyped(g)
    BY <1>2, <1>3 DEF HeapTyped
<1>5. QED
    BY <1>1, <1>2, <1>4

\* after is the heap and the lists with node n of thing at the end of list l.
Appended(after, c, l, thing, n) ==
    /\ Kept(after[1], after[2], hm, [c EXCEPT ![L(l)] = Append(c[L(l)], n)])
    /\ n \notin DOMAIN heap /\ DOMAIN after[1] = DOMAIN heap \cup {n}
    /\ after[1][n].data = thing
    /\ \A m \in DOMAIN heap : after[1][m].data = heap[m].data
    /\ \A k \in Lists : k # l => after[2][k] = list[k]
    /\ after[2][l] # Null

\* A thing appended.
LEMMA TailGiven ==
    ASSUME NEW c, Kept(heap, list, hm, c), NEW l \in Lists, list[l] # Null,
           NEW thing \in Things, NEW n \in FreeNodes
    PROVE  Appended(WithTail(l, thing, n), c, l, thing, n)
<1> DEFINE more == NewNode(n, thing, Null)
           tail == list[l].tail
           path == Append(c[L(l)], n)
           g == IF tail = Null THEN more ELSE [more EXCEPT ![tail].next = n]
           ls2 == IF tail = Null THEN [list EXCEPT ![l] = [head |-> n, tail |-> n]]
                  ELSE [list EXCEPT ![l].tail = n]
<1>1. WithTail(l, thing, n)[1] = g /\ WithTail(l, thing, n)[2] = ls2
    BY DEF WithTail
<1>2. /\ Forest(heap, Starts(list, hm), c) /\ HeapTyped(heap)
      /\ list \in [Lists -> ListRecords \cup {Null}]
    BY DEF Kept
<1>3. /\ L(l) \in DOMAIN Starts(list, hm) /\ Starts(list, hm)[L(l)] = list[l].head
      /\ list[l] \in ListRecords /\ list[l].head \in Pointers /\ list[l].tail \in Pointers
      /\ c[L(l)] \in Seq(DOMAIN heap)
      /\ DOMAIN c[L(l)] = 1 .. Len(c[L(l)]) /\ Len(c[L(l)]) \in Nat
      /\ \A i \in DOMAIN c[L(l)] :
            c[L(l)][i] \in DOMAIN heap /\ heap[c[L(l)][i]].data \in Things
      /\ list[l].head = Null <=> c[L(l)] = << >>
      /\ list[l].tail = IF c[L(l)] = << >> THEN Null ELSE c[L(l)][Len(c[L(l)])]
      /\ list[l].tail = Null <=> c[L(l)] = << >>
      /\ Null \notin DOMAIN heap
    BY ListNodes
<1>4. /\ DOMAIN more = DOMAIN heap \cup {n} /\ more[n].data = thing /\ more[n].next = Null
      /\ \A m \in DOMAIN heap : more[m] = heap[m]
      /\ HeapTyped(more) /\ n \in Nodes \ DOMAIN heap
    <2>1. thing \in Things \cup (Keys \X Things) /\ Null \in Pointers
        BY DEF Pointers
    <2>2. more = NewNode(n, thing, Null)
        OBVIOUS
    <2> HIDE DEF more
    <2>3. QED
        BY <1>2, <2>1, <2>2, NodeGiven
<1> HIDE DEF more
<1>5. n \in Pointers /\ n # Null
    BY <1>4, DataStructsAssumption DEF Pointers
<1>6. tail # Null => tail \in DOMAIN heap /\ tail # n
    <2>1. c[L(l)] # << >> => Len(c[L(l)]) \in DOMAIN c[L(l)]
        BY <1>3
    <2>2. QED
        BY <1>3, <1>4, <2>1
<1>7. /\ HeapTyped(g) /\ DOMAIN g = DOMAIN heap \cup {n}
      /\ g[n].data = thing /\ g[n].next = Null
      /\ \A m \in DOMAIN heap : g[m].data = heap[m].data
      /\ \A m \in DOMAIN heap :
            g[m].next = IF tail # Null /\ m = tail THEN n ELSE heap[m].next
    <2>1. CASE tail = Null
        BY <1>4, <2>1
    <2>2. CASE tail # Null
        <3>1. g = [more EXCEPT ![tail].next = n]
            BY <2>2
        <3>2. tail \in DOMAIN more
            BY <1>4, <1>6, <2>2
        <3> HIDE DEF g, tail
        <3>3. /\ HeapTyped(g) /\ DOMAIN g = DOMAIN more
              /\ \A m \in DOMAIN more : /\ g[m].next = IF m = tail THEN n ELSE more[m].next
                                        /\ g[m].data = more[m].data
            BY <1>4, <1>5, <3>1, <3>2 DEF HeapTyped
        <3>4. QED
            BY <1>4, <1>6, <2>2, <3>3
    <2>3. QED
        BY <2>1, <2>2
<1> HIDE DEF g
<1>8. /\ ls2 \in [Lists -> ListRecords \cup {Null}] /\ ls2[l] \in ListRecords
      /\ ls2[l].tail = n
      /\ ls2[l].head = IF tail = Null THEN n ELSE list[l].head
      /\ \A k \in Lists : k # l => ls2[k] = list[k]
    BY <1>2, <1>3, <1>5 DEF ListRecords
<1> HIDE DEF ls2
<1>9. ls2[l] # Null
    BY <1>8, DataStructsAssumption
<1>10. /\ path # << >> /\ path[Len(path)] = n /\ DOMAIN path = 1 .. Len(c[L(l)]) + 1
       /\ \A i \in DOMAIN path :
             path[i] = n \/ (i \in DOMAIN c[L(l)] /\ path[i] = c[L(l)][i])
    <2>1. /\ path \in Seq(Nodes \cup {n} \cup DOMAIN heap) /\ Len(path) = Len(c[L(l)]) + 1
          /\ path[Len(c[L(l)]) + 1] = n /\ \A i \in 1 .. Len(c[L(l)]) : path[i] = c[L(l)][i]
        <3>1. c[L(l)] \in Seq(Nodes \cup {n} \cup DOMAIN heap)
            BY <1>3
        <3>2. QED
            BY <1>3, <3>1
    <2> HIDE DEF path
    <2>2. DOMAIN path = 1 .. Len(c[L(l)]) + 1 /\ path # << >>
        BY <1>3, <2>1
    <2>3. QED
        BY <1>3, <2>1, <2>2
<1>11. Forest(g, [Starts(list, hm) EXCEPT ![L(l)] = ls2[l].head], [c EXCEPT ![L(l)] = path])
    <2>1. CASE tail = Null
        <3>1. Starts(list, hm)[L(l)] = Null /\ c[L(l)] = << >>
            BY <1>3, <2>1
        <3>2. << n >> \o c[L(l)] = path
            BY <3>1
        <3>3. /\ g[n].next = Starts(list, hm)[L(l)]
              /\ \A m \in DOMAIN heap : g[m].next = heap[m].next
            BY <1>7, <2>1, <3>1
        <3> HIDE DEF path
        <3>4. Forest(g, [Starts(list, hm) EXCEPT ![L(l)] = n],
                     [c EXCEPT ![L(l)] = << n >> \o c[L(l)]])
            BY <1>2, <1>3, <1>4, <1>7, <3>3, ForestPushed, Zenon
        <3>5. QED
            BY <1>8, <2>1, <3>2, <3>4
    <2>2. CASE tail # Null
        <3>1. c[L(l)] # << >> /\ tail = c[L(l)][Len(c[L(l)])]
            BY <1>3, <2>2
        <3>2. \A m \in DOMAIN heap :
                  g[m].next = IF m = c[L(l)][Len(c[L(l)])] THEN n ELSE heap[m].next
            BY <1>7, <2>2, <3>1
        <3>3. Forest(g, Starts(list, hm), [c EXCEPT ![L(l)] = Append(c[L(l)], n)])
            BY <1>2, <1>3, <1>4, <1>7, <3>1, <3>2, ForestAppended, Zenon
        <3>4. [Starts(list, hm) EXCEPT ![L(l)] = ls2[l].head] = Starts(list, hm)
            <4>1. Starts(list, hm) = [s \in DOMAIN Starts(list, hm) |-> Starts(list, hm)[s]]
                BY DEF Starts
            <4>2. QED
                BY <1>3, <1>8, <2>2, <4>1
        <3>5. QED
            BY <3>3, <3>4
    <2>3. QED
        BY <2>1, <2>2
<1>12. ls2[l].tail = LastOf(path)
    BY <1>8, <1>10 DEF LastOf
<1>13. \A i \in DOMAIN path : g[path[i]].data \in Things
    BY <1>3, <1>7, <1>10
<1> HIDE DEF path
<1>14. Kept(g, ls2, hm, [c EXCEPT ![L(l)] = path])
    BY <1>7, <1>8, <1>9, <1>11, <1>12, <1>13, ListChanged
<1>15. /\ Kept(WithTail(l, thing, n)[1], WithTail(l, thing, n)[2], hm,
               [c EXCEPT ![L(l)] = Append(c[L(l)], n)])
       /\ n \notin DOMAIN heap /\ DOMAIN WithTail(l, thing, n)[1] = DOMAIN heap \cup {n}
       /\ WithTail(l, thing, n)[1][n].data = thing
       /\ \A m \in DOMAIN heap : WithTail(l, thing, n)[1][m].data = heap[m].data
       /\ \A k \in Lists :
             k # l => WithTail(l, thing, n)[2][k] = list[k]
       /\ WithTail(l, thing, n)[2][l] # Null
    BY <1>1, <1>4, <1>7, <1>8, <1>9, <1>14 DEF path
<1>16. QED
    BY <1>15 DEF Appended

\* after is the heap and the lists without the k-th node of list l.
TakenOut(after, h, ls, m, c, l, k) ==
    /\ Kept(after[1], after[2], m, [c EXCEPT ![L(l)] = Removed(c[L(l)], k)])
    /\ DOMAIN after[1] = DOMAIN h \ {c[L(l)][k]}
    /\ \A n \in DOMAIN h \ {c[L(l)][k]} : after[1][n].data = h[n].data
    /\ \A j \in Lists : j # l => after[2][j] = ls[j]
    /\ after[2][l] # Null

\* A node taken out of the middle, or from an end.
LEMMA NodeUnlinked ==
    ASSUME NEW h, NEW ls, NEW m, NEW c, Kept(h, ls, m, c), NEW l \in Lists, ls[l] # Null,
           NEW k \in DOMAIN c[L(l)], NEW prev_ptr,
           prev_ptr = IF k = 1 THEN Null ELSE c[L(l)][k - 1]
    PROVE  TakenOut(Unlinked(h, ls, l, prev_ptr, c[L(l)][k]), h, ls, m, c, l, k)
<1> DEFINE ptr == c[L(l)][k]
           next == h[ptr].next
           tail == IF ptr = ls[l].tail THEN prev_ptr ELSE ls[l].tail
           linked == IF k = 1 THEN h ELSE [h EXCEPT ![prev_ptr].next = next]
           g == Without(linked, {ptr})
           ls2 == IF k = 1 THEN [ls EXCEPT ![l] = [head |-> next, tail |-> tail]]
                  ELSE [ls EXCEPT ![l].tail = tail]
           path == Removed(c[L(l)], k)
<1>1. /\ Forest(h, Starts(ls, m), c) /\ HeapTyped(h) /\ ls \in [Lists -> ListRecords \cup {Null}]
    BY DEF Kept
<1>2. /\ L(l) \in DOMAIN Starts(ls, m) /\ Starts(ls, m)[L(l)] = ls[l].head
      /\ ls[l] \in ListRecords /\ ls[l].head \in Pointers /\ ls[l].tail \in Pointers
      /\ c[L(l)] \in Seq(DOMAIN h)
      /\ DOMAIN c[L(l)] = 1 .. Len(c[L(l)]) /\ Len(c[L(l)]) \in Nat
      /\ \A i \in DOMAIN c[L(l)] : c[L(l)][i] \in DOMAIN h /\ h[c[L(l)][i]].data \in Things
      /\ \A i, j \in DOMAIN c[L(l)] : c[L(l)][i] = c[L(l)][j] => i = j
      /\ ls[l].head = IF c[L(l)] = << >> THEN Null ELSE c[L(l)][1]
      /\ ls[l].tail = IF c[L(l)] = << >> THEN Null ELSE c[L(l)][Len(c[L(l)])]
      /\ DOMAIN h \subseteq Nodes
    BY ListNodes
<1>3. /\ k \in 1 .. Len(c[L(l)]) /\ c[L(l)] # << >> /\ 1 \in DOMAIN c[L(l)]
      /\ Len(c[L(l)]) \in DOMAIN c[L(l)] /\ Len(c[L(l)]) \in Nat /\ Len(c[L(l)]) >= 1
    BY <1>2
<1>4. ptr \in DOMAIN h /\ (ptr = ls[l].head <=> k = 1) /\ (ptr = ls[l].tail <=> k = Len(c[L(l)]))
    BY <1>2, <1>3
<1>5. next \in Pointers /\ (k # 1 => k - 1 \in DOMAIN c[L(l)])
    BY <1>1, <1>2, <1>3, <1>4 DEF HeapTyped
<1>6. (k # 1 => prev_ptr \in DOMAIN h) /\ prev_ptr \in Pointers /\ tail \in Pointers
    BY <1>2, <1>5 DEF Pointers
<1>7. Unlinked(h, ls, l, prev_ptr, ptr)[1] = g /\ Unlinked(h, ls, l, prev_ptr, ptr)[2] = ls2
    BY <1>4 DEF Unlinked
<1>8. /\ HeapTyped(linked) /\ DOMAIN linked = DOMAIN h
      /\ \A n \in DOMAIN h :
            /\ linked[n].next = IF k # 1 /\ n = prev_ptr THEN next ELSE h[n].next
            /\ linked[n].data = h[n].data
    <2>1. CASE k = 1
        BY <1>1, <2>1
    <2>2. CASE k # 1
        <3>1. linked = [h EXCEPT ![prev_ptr].next = next] /\ prev_ptr \in DOMAIN h
            BY <1>6, <2>2
        <3> HIDE DEF linked, next
        <3>2. /\ HeapTyped(linked) /\ DOMAIN linked = DOMAIN h
              /\ \A n \in DOMAIN h : /\ linked[n].next = IF n = prev_ptr THEN next ELSE h[n].next
                                     /\ linked[n].data = h[n].data
            BY <1>1, <1>5, <3>1 DEF HeapTyped
        <3>3. QED
            BY <2>2, <3>2
    <2>3. QED
        BY <2>1, <2>2
<1> HIDE DEF linked
<1>9. /\ HeapTyped(g) /\ DOMAIN g = DOMAIN h \ {ptr}
      /\ \A n \in DOMAIN h \ {ptr} :
            /\ g[n].next = IF k # 1 /\ n = prev_ptr THEN next ELSE h[n].next
            /\ g[n].data = h[n].data
    <2>1. g = Without(linked, {ptr})
        OBVIOUS
    <2> HIDE DEF g
    <2>2. /\ HeapTyped(g) /\ DOMAIN g = DOMAIN linked \ {ptr}
          /\ \A n \in DOMAIN linked \ {ptr} : g[n] = linked[n]
        BY <1>8, <2>1 DEF HeapTyped, Without
    <2>3. QED
        BY <1>8, <2>2
<1> HIDE DEF g
<1>10. /\ ls2 \in [Lists -> ListRecords \cup {Null}] /\ ls2[l] \in ListRecords
       /\ ls2[l].head = (IF k = 1 THEN next ELSE ls[l].head) /\ ls2[l].tail = tail
       /\ \A j \in Lists : j # l => ls2[j] = ls[j]
    BY <1>1, <1>2, <1>5, <1>6 DEF ListRecords
<1> HIDE DEF ls2
<1>11. ls2[l] # Null
    BY <1>10, DataStructsAssumption
<1>12. Forest(g, [Starts(ls, m) EXCEPT ![L(l)] = ls2[l].head], [c EXCEPT ![L(l)] = path])
    <2>1. \A n \in DOMAIN g : g[n].next = IF k # 1 /\ n = c[L(l)][k - 1] THEN h[c[L(l)][k]].next
                                          ELSE h[n].next
        BY <1>9
    <2>2. DOMAIN g = DOMAIN h \ {c[L(l)][k]}
        BY <1>9
    <2>3. Forest(g, [Starts(ls, m) EXCEPT
                        ![L(l)] = IF k = 1 THEN h[c[L(l)][k]].next ELSE Starts(ls, m)[L(l)]],
                 [c EXCEPT ![L(l)] = Removed(c[L(l)], k)])
        BY <1>1, <1>2, <2>1, <2>2, ForestRemoved, Zenon
    <2>4. ls2[l].head = IF k = 1 THEN h[c[L(l)][k]].next ELSE Starts(ls, m)[L(l)]
        BY <1>2, <1>10
    <2>5. QED
        BY <2>3, <2>4
<1>13. /\ path \in Seq(DOMAIN h) /\ Len(path) = Len(c[L(l)]) - 1
       /\ \A i \in 1 .. Len(c[L(l)]) - 1 :
             path[i] = IF i < k THEN c[L(l)][i] ELSE c[L(l)][i + 1]
    <2>1. c[L(l)] \in Seq(DOMAIN h)
        BY <1>2
    <2>2. QED
        BY <2>1, RemovedAt
<1> HIDE DEF path
<1>14. ls2[l].tail = LastOf(path)
    <2>1. CASE Len(c[L(l)]) = 1
        <3>1. k = 1 /\ path = << >>
            BY <1>3, <1>13, <2>1
        <3>2. QED
            BY <1>3, <1>4, <1>10, <2>1, <3>1 DEF LastOf
    <2>2. CASE Len(c[L(l)]) # 1
        <3>1. Len(c[L(l)]) - 1 \in 1 .. Len(c[L(l)]) - 1 /\ path # << >>
            <4> DEFINE length == Len(c[L(l)])
            <4>5. length \in Nat /\ length >= 1 /\ length # 1
                BY <1>3, <2>2
            <4> HIDE DEF length
            <4>6. length > 1
                BY <4>5
            <4>1. Len(c[L(l)]) > 1
                BY <4>6 DEF length
            <4>2. Len(path) > 0
                BY <1>2, <1>13, <4>1
            <4>3. QED
                BY <1>2, <4>1, <4>2
        <3>2. LastOf(path) = IF Len(c[L(l)]) - 1 < k THEN c[L(l)][Len(c[L(l)]) - 1]
                             ELSE c[L(l)][Len(c[L(l)]) - 1 + 1]
            BY <1>13, <3>1 DEF LastOf
        <3>3. CASE k = Len(c[L(l)])
            BY <1>2, <1>3, <1>4, <1>10, <2>2, <3>2, <3>3
        <3>4. CASE k # Len(c[L(l)])
            <4>1. ~(Len(c[L(l)]) - 1 < k) /\ Len(c[L(l)]) - 1 + 1 = Len(c[L(l)])
                BY <1>2, <1>3, <3>4
            <4>2. QED
                BY <1>2, <1>3, <1>4, <1>10, <3>2, <3>4, <4>1
        <3>5. QED
            BY <3>3, <3>4
    <2>3. QED
        BY <2>1, <2>2
<1>15. ASSUME NEW i \in DOMAIN path PROVE g[path[i]].data \in Things
    <2>1. i \in 1 .. Len(c[L(l)]) - 1 /\ i \in DOMAIN c[L(l)] /\ i + 1 \in DOMAIN c[L(l)]
        BY <1>2, <1>13
    <2>2. \E j \in DOMAIN c[L(l)] : path[i] = c[L(l)][j] /\ j # k
        <3>1. CASE i < k
            BY <1>13, <2>1, <3>1
        <3>2. CASE ~(i < k)
            <4>1. i + 1 # k
                BY <1>3, <2>1, <3>2
            <4>2. QED
                BY <1>13, <2>1, <3>2, <4>1
        <3>3. QED
            BY <3>1, <3>2
    <2>3. QED
        BY <1>2, <1>9, <2>2
<1>16. \A n \in DOMAIN h : n \in DOMAIN g => g[n].data = h[n].data
    BY <1>9
<1>17. Kept(g, ls2, m, [c EXCEPT ![L(l)] = path])
    BY <1>9, <1>10, <1>11, <1>12, <1>14, <1>15, <1>16, ListChanged
<1>18. /\ Kept(Unlinked(h, ls, l, prev_ptr, c[L(l)][k])[1],
               Unlinked(h, ls, l, prev_ptr, c[L(l)][k])[2], m,
               [c EXCEPT ![L(l)] = Removed(c[L(l)], k)])
       /\ DOMAIN Unlinked(h, ls, l, prev_ptr, c[L(l)][k])[1] = DOMAIN h \ {c[L(l)][k]}
       /\ \A n \in DOMAIN h \ {c[L(l)][k]} :
             Unlinked(h, ls, l, prev_ptr, c[L(l)][k])[1][n].data = h[n].data
       /\ \A j \in Lists : j # l => Unlinked(h, ls, l, prev_ptr, c[L(l)][k])[2][j] = ls[j]
       /\ Unlinked(h, ls, l, prev_ptr, c[L(l)][k])[2][l] # Null
    BY <1>7, <1>9, <1>10, <1>11, <1>17 DEF path
<1>19. QED
    BY <1>18 DEF TakenOut

\* Paths freed: the lists and chains that are left are as they were.
LEMMA PathsFreed ==
    ASSUME NEW h, NEW ls, NEW m, NEW c, Kept(h, ls, m, c),
           NEW g, NEW gone, g = Without(h, gone),
           NEW ls2 \in [Lists -> ListRecords \cup {Null}], NEW m2, NEW c2,
           c2 = [s \in DOMAIN Starts(ls2, m2) |-> c2[s]],
           \A s \in DOMAIN Starts(ls2, m2) :
              \/ c2[s] = << >> /\ Starts(ls2, m2)[s] = Null
              \/ s \in DOMAIN Starts(ls, m) /\ c2[s] = c[s] /\ Starts(ls2, m2)[s] = Starts(ls, m)[s],
           \A s \in DOMAIN Starts(ls2, m2) : \A i \in DOMAIN c2[s] : c2[s][i] \notin gone,
           \A n \in DOMAIN h \ gone :
              \E s \in DOMAIN Starts(ls2, m2) : \E i \in DOMAIN c2[s] : c2[s][i] = n,
           TailsKept(ls2, c2),
           m2 = Null \/ (m2 = m /\ \A b \in Buckets(m) : c2[B(b)] = c[B(b)])
    PROVE  Kept(g, ls2, m2, c2)
<1>1. Forest(h, Starts(ls, m), c) /\ HeapTyped(h) /\ DataKept(h, m, c) /\ KeysApart(h) /\ MapKept(h, m)
    BY DEF Kept
<1>2. HeapTyped(g) /\ DOMAIN g = DOMAIN h \ gone /\ \A n \in DOMAIN g : g[n] = h[n]
    BY <1>1 DEF HeapTyped, Without
<1>3. \A s \in DOMAIN Starts(ls, m) : \A i \in DOMAIN c[s] : c[s][i] \in DOMAIN h
    BY <1>1, ForestNodes
<1>4. \A s \in DOMAIN Starts(ls2, m2) : \A i \in DOMAIN c2[s] : c2[s][i] \in DOMAIN g
    <2>1. DOMAIN << >> = {}
        OBVIOUS
    <2>2. ASSUME NEW s \in DOMAIN Starts(ls2, m2), NEW i \in DOMAIN c2[s]
          PROVE  c2[s][i] \in DOMAIN h
        BY <1>3, <2>1
    <2>3. QED
        BY <1>2, <2>2
<1>5. Forest(g, Starts(ls2, m2), c2)
    <2>1. DOMAIN g \subseteq DOMAIN h /\ \A n \in DOMAIN g : g[n].next = h[n].next
        BY <1>2
    <2>2. \A n \in DOMAIN g :
              \E s \in DOMAIN Starts(ls2, m2) : \E i \in DOMAIN c2[s] : c2[s][i] = n
        BY <1>2
    <2>3. QED
        BY <1>1, <1>4, <2>1, <2>2, ForestKept
<1>6. DataKept(g, m2, c2)
    <2>1. DOMAIN << >> = {}
        OBVIOUS
    <2>2. ASSUME NEW l \in Lists, NEW i \in DOMAIN c2[L(l)] PROVE g[c2[L(l)][i]].data \in Things
        <3>1. L(l) \in DOMAIN Starts(ls2, m2) /\ c2[L(l)] = c[L(l)]
            BY <2>1, StartsOf
        <3>2. QED
            BY <1>1, <1>2, <1>4, <3>1 DEF DataKept
    <2>3. ASSUME NEW b \in Buckets(m2), NEW i \in DOMAIN c2[B(b)]
          PROVE  /\ g[c2[B(b)][i]].data \in Keys \X Things
                 /\ hash(m2.num_buckets, KeyOf(g, c2[B(b)][i])) = b
        <3>1. m2 = m /\ c2[B(b)] = c[B(b)] /\ B(b) \in DOMAIN Starts(ls2, m2)
            BY StartsOf DEF Buckets
        <3>2. g[c2[B(b)][i]] = h[c[B(b)][i]]
            BY <1>2, <1>4, <3>1
        <3>3. QED
            BY <1>1, <3>1, <3>2 DEF DataKept, KeyOf
    <2>4. QED
        BY <2>2, <2>3 DEF DataKept
<1>7. Hashed(g) \subseteq Hashed(h)
    BY <1>2 DEF Hashed
<1>8. KeysApart(g)
    BY <1>1, <1>2, <1>7 DEF KeysApart, KeyOf, Hashed
<1>9. MapKept(g, m2)
    <2>1. SUFFICES ASSUME m2 # Null PROVE MapKept(g, m2)
        BY DEF MapKept
    <2>2. ASSUME NEW n \in Hashed(h) PROVE n \in Hashed(g)
        <3>1. PICK b \in Buckets(m) : \E i \in DOMAIN c[B(b)] : c[B(b)][i] = n
            BY <1>1, HashedNodes
        <3>2. B(b) \in DOMAIN Starts(ls2, m2) /\ c2[B(b)] = c[B(b)]
            BY <2>1, StartsOf
        <3>3. n \in DOMAIN g
            BY <1>4, <3>1, <3>2
        <3>4. QED
            BY <1>2, <3>3 DEF Hashed
    <2>3. Hashed(g) = Hashed(h) /\ m2 = m
        BY <1>7, <2>1, <2>2
    <2>4. QED
        BY <1>1, <2>3 DEF MapKept
<1>10. QED
    BY <1>2, <1>5, <1>6, <1>8, <1>9 DEF Kept

\* create_list and free_list.
LEMMA ListCreated ==
    ASSUME NEW c, Kept(heap, list, hm, c), NEW l \in Lists, list[l] = Null
    PROVE  Kept(heap, [list EXCEPT ![l] = [head |-> Null, tail |-> Null]], hm, c)
<1> DEFINE ls2 == [list EXCEPT ![l] = [head |-> Null, tail |-> Null]]
<1>1. Forest(heap, Starts(list, hm), c) /\ list \in [Lists -> ListRecords \cup {Null}]
    BY DEF Kept
<1>2. /\ ls2 \in [Lists -> ListRecords \cup {Null}]
      /\ ls2[l] = [head |-> Null, tail |-> Null] /\ ls2[l] \in ListRecords
      /\ \A k \in Lists : k # l => ls2[k] = list[k]
    BY <1>1 DEF ListRecords, Pointers
<1> HIDE DEF ls2
<1>3. ls2[l] # Null
    BY <1>2, DataStructsAssumption
<1>4. L(l) \in DOMAIN Starts(list, hm) /\ Starts(list, hm)[L(l)] = Null
    BY StartsOf
<1>5. Starts(ls2, hm) = Starts(list, hm)
    <2>1. Starts(ls2, hm) = [Starts(list, hm) EXCEPT ![L(l)] = Null]
        BY <1>1, <1>2, <1>3, StartMoved
    <2>2. Starts(list, hm) = [s \in DOMAIN Starts(list, hm) |-> Starts(list, hm)[s]]
        BY DEF Starts
    <2>3. QED
        BY <1>4, <2>1, <2>2
<1>6. c[L(l)] = << >>
    BY <1>1, <1>4, ForestNodes
<1>7. TailsKept(ls2, c)
    BY <1>2, <1>6 DEF Kept, TailsKept, LastOf
<1>8. Kept(heap, ls2, hm, c)
    BY <1>2, <1>5, <1>7 DEF Kept
<1>9. QED
    BY <1>8 DEF ls2

\* A list freed with its nodes.
LEMMA ListFreed ==
    ASSUME NEW c, Kept(heap, list, hm, c), NEW l \in Lists, list[l] # Null
    PROVE  Kept(Without(heap, Range(Chain(list[l].head))), [list EXCEPT ![l] = Null], hm,
                [c EXCEPT ![L(l)] = << >>])
<1> DEFINE ls2 == [list EXCEPT ![l] = Null]
           c2 == [c EXCEPT ![L(l)] = << >>]
           gone == Range(Chain(list[l].head))
           g == Without(heap, gone)
<1>1. Forest(heap, Starts(list, hm), c) /\ list \in [Lists -> ListRecords \cup {Null}]
    BY DEF Kept
<1>2. gone = {c[L(l)][i] : i \in DOMAIN c[L(l)]}
    BY <1>1, ListNodes DEF Chain, Range
<1>3. /\ ls2 \in [Lists -> ListRecords \cup {Null}] /\ ls2[l] = Null
      /\ \A k \in Lists : k # l => ls2[k] = list[k]
    BY <1>1
<1>4. DOMAIN Starts(ls2, hm) = DOMAIN Starts(list, hm) /\ L(l) \in DOMAIN Starts(list, hm)
    BY StartsOf DEF Starts
<1>5. /\ c2 = [s \in DOMAIN Starts(ls2, hm) |-> c2[s]] /\ c2[L(l)] = << >>
      /\ \A s \in DOMAIN Starts(list, hm) : s # L(l) => c2[s] = c[s]
    BY <1>1, <1>4 DEF Forest
<1> HIDE DEF ls2, c2, gone
<1>6. ASSUME NEW s \in DOMAIN Starts(ls2, hm), s # L(l)
      PROVE  Starts(ls2, hm)[s] = Starts(list, hm)[s]
    <2>1. CASE \E k \in Lists : s = L(k)
        BY <1>3, <1>6, <2>1, StartsOf
    <2>2. CASE \E b \in Buckets(hm) : s = B(b)
        BY <2>2, StartsOf
    <2>3. QED
        BY <2>1, <2>2, StartsOf
<1>7. Starts(ls2, hm)[L(l)] = Null
    BY <1>3, StartsOf
<1>8. DOMAIN << >> = {}
    OBVIOUS
<1>9. ASSUME NEW s \in DOMAIN Starts(ls2, hm), NEW i \in DOMAIN c2[s] PROVE c2[s][i] \notin gone
    <2>1. s # L(l) /\ c2[s] = c[s]
        BY <1>4, <1>5, <1>8
    <2>2. QED
        BY <1>1, <1>2, <1>4, <2>1 DEF Forest
<1>10. ASSUME NEW n \in DOMAIN heap \ gone
       PROVE  \E s \in DOMAIN Starts(ls2, hm) : \E i \in DOMAIN c2[s] : c2[s][i] = n
    <2>1. PICK s \in DOMAIN Starts(list, hm) : \E i \in DOMAIN c[s] : c[s][i] = n
        BY <1>1 DEF Forest
    <2>2. s # L(l)
        BY <1>2, <2>1
    <2>3. QED
        BY <1>4, <1>5, <2>1, <2>2
<1>11. TailsKept(ls2, c2)
    <2>1. \A k \in Lists : k # l => L(k) # L(l) /\ L(k) \in DOMAIN Starts(list, hm)
        BY StartsOf
    <2>2. QED
        BY <1>3, <1>5, <2>1 DEF Kept, TailsKept
<1>12. \A b \in Buckets(hm) : c2[B(b)] = c[B(b)]
    BY <1>5, StartsOf
<1>13. \A s \in DOMAIN Starts(ls2, hm) :
          \/ c2[s] = << >> /\ Starts(ls2, hm)[s] = Null
          \/ s \in DOMAIN Starts(list, hm) /\ c2[s] = c[s]
             /\ Starts(ls2, hm)[s] = Starts(list, hm)[s]
    BY <1>4, <1>5, <1>6, <1>7
<1>14. g = Without(heap, gone)
    OBVIOUS
<1> HIDE DEF g
<1>15. Kept(g, ls2, hm, c2)
    BY <1>3, <1>5, <1>9, <1>10, <1>11, <1>12, <1>13, <1>14, PathsFreed
<1>16. QED
    BY <1>15 DEF g, ls2, c2, gone

\* create_map and free_map.
NewMap == [num_buckets |-> HASHSIZE, entries |-> 0,
           buckets |-> [b \in 0 .. HASHSIZE - 1 |-> Null]]

\* A new map has empty chains.
LEMMA MapCreated ==
    ASSUME NEW c, Kept(heap, list, hm, c), hm = Null, NEW m, m = NewMap
    PROVE  \E c2 : Kept(heap, list, m, c2) /\ \A l \in Lists : c2[L(l)] = c[L(l)]
<1>1. /\ Forest(heap, Starts(list, hm), c) /\ HeapTyped(heap) /\ TailsKept(list, c)
      /\ DataKept(heap, hm, c) /\ KeysApart(heap) /\ list \in [Lists -> ListRecords \cup {Null}]
    BY DEF Kept
<1>2. Cardinality(Nodes) \in Nat
    BY DataStructsAssumption, FS_CardinalityType
<1>3. HASHSIZE \in Nat /\ HASHSIZE >= 1
    BY DataStructsAssumption
<1>4. m.num_buckets \in Sizes /\ m \in MapsOf(m.num_buckets)
    BY <1>2, <1>3 DEF Sizes, MapsOf, Pointers, NewMap
<1>5. m # Null
    BY <1>4, DataStructsAssumption
<1>6. \A b \in Buckets(m) : m.buckets[b] = Null
    BY <1>5 DEF Buckets, NewMap
<1>7. Buckets(hm) = {}
    BY DEF Buckets
<1> DEFINE old == DOMAIN Starts(list, hm)
           c2 == [s \in DOMAIN Starts(list, m) |-> IF s \in old THEN c[s] ELSE << >>]
<1>8. old \subseteq DOMAIN Starts(list, m)
    BY <1>7 DEF Starts
<1>9. ASSUME NEW s \in DOMAIN Starts(list, m)
      PROVE  \/ c2[s] = << >> /\ Starts(list, m)[s] = Null
             \/ s \in old /\ c2[s] = c[s] /\ Starts(list, m)[s] = Starts(list, hm)[s]
    <2>1. CASE \E l \in Lists : s = L(l)
        <3>1. s \in old /\ Starts(list, m)[s] = Starts(list, hm)[s]
            BY <2>1, StartsOf
        <3>2. QED
            BY <3>1
    <2>2. CASE \E b \in Buckets(m) : s = B(b)
        <3>3. PICK b \in Buckets(m) : s = B(b)
            BY <2>2
        <3>4. Starts(list, m)[s] = Null
            <4>1. Starts(list, m)[B(b)] = m.buckets[b]
                BY StartsOf
            <4>2. QED
                BY <1>6, <3>3, <4>1
        <3>5. \A t \in old : \E l \in Lists : t = L(l)
            BY <1>7, StartsOf
        <3>6. \A l \in Lists : s # L(l)
            BY <3>3, StartsOf
        <3>1. s \notin old /\ Starts(list, m)[s] = Null
            BY <3>4, <3>5, <3>6
        <3>2. QED
            BY <3>1
    <2>3. (\E l \in Lists : s = L(l)) \/ (\E b \in Buckets(m) : s = B(b))
        BY StartsOf
    <2>4. QED
        BY <2>1, <2>2, <2>3
<1>10. DOMAIN << >> = {}
    OBVIOUS
<1>11. \A s \in DOMAIN Starts(list, m) : \A i \in DOMAIN c2[s] : c2[s][i] \in DOMAIN heap
    <2>1. \A s \in old : \A i \in DOMAIN c[s] : c[s][i] \in DOMAIN heap
        BY <1>1, ForestNodes
    <2>2. QED
        BY <1>9, <1>10, <2>1
<1>12. \A n \in DOMAIN heap :
           \E s \in DOMAIN Starts(list, m) : \E i \in DOMAIN c2[s] : c2[s][i] = n
    <2>1. ASSUME NEW n \in DOMAIN heap
          PROVE  \E s \in DOMAIN Starts(list, m) : \E i \in DOMAIN c2[s] : c2[s][i] = n
        <3>1. PICK s \in old : \E i \in DOMAIN c[s] : c[s][i] = n
            BY <1>1 DEF Forest
        <3>2. s \in DOMAIN Starts(list, m) /\ c2[s] = c[s]
            BY <1>8
        <3>3. QED
            BY <3>1, <3>2
    <2>2. QED
        BY <2>1
<1>13. \A l \in Lists : c2[L(l)] = c[L(l)]
    BY StartsOf
<1>14. \A b \in Buckets(m) : c2[B(b)] = << >>
    BY <1>7, StartsOf
<1>15. c2 = [s \in DOMAIN Starts(list, m) |-> c2[s]]
    OBVIOUS
<1> HIDE DEF c2
<1>16. Forest(heap, Starts(list, m), c2)
    <2>1. DOMAIN heap \subseteq DOMAIN heap /\ \A n \in DOMAIN heap : heap[n].next = heap[n].next
        OBVIOUS
    <2>2. QED
        BY <1>1, <1>9, <1>11, <1>12, <1>15, <2>1, ForestKept
<1>17. TailsKept(list, c2) /\ DataKept(heap, m, c2)
    BY <1>1, <1>10, <1>13, <1>14 DEF TailsKept, DataKept
<1>18. MapKept(heap, m)
    <2>1. Hashed(heap) = {}
        BY <1>1, <1>7, HashedNodes
    <2>2. Cardinality(Hashed(heap)) = 0
        BY <2>1, FS_EmptySet
    <2>3. QED
        BY <1>4, <2>2 DEF MapKept, NewMap
<1>19. Kept(heap, list, m, c2)
    BY <1>1, <1>16, <1>17, <1>18 DEF Kept
<1>20. QED
    BY <1>13, <1>19

\* The nodes that free_map frees.
Chained == UNION {Range(Chain(hm.buckets[b])) : b \in DOMAIN hm.buckets}

\* A map freed with the nodes of its chains.
LEMMA MapFreed ==
    ASSUME NEW c, Kept(heap, list, hm, c), hm # Null
    PROVE  \E c2 : /\ Kept(Without(heap, Chained), list, Null, c2)
                   /\ \A l \in Lists : c2[L(l)] = c[L(l)]
<1>1. /\ Forest(heap, Starts(list, hm), c) /\ TailsKept(list, c)
      /\ list \in [Lists -> ListRecords \cup {Null}]
    BY DEF Kept
<1>2. Buckets(Null) = {} /\ Buckets(hm) = DOMAIN hm.buckets
    BY DEF Buckets
<1>3. \A b \in Buckets(hm) : Range(Chain(hm.buckets[b])) = {c[B(b)][i] : i \in DOMAIN c[B(b)]}
    BY <1>1, StartsOf, ForestNodes DEF Chain, Range
<1>4. \A n : n \in Chained <=> \E b \in Buckets(hm) : \E i \in DOMAIN c[B(b)] : c[B(b)][i] = n
    BY <1>2, <1>3 DEF Chained
<1> DEFINE c2 == [s \in DOMAIN Starts(list, Null) |-> c[s]]
           g == Without(heap, Chained)
<1>5. ASSUME NEW s \in DOMAIN Starts(list, Null)
      PROVE  /\ s \in DOMAIN Starts(list, hm) /\ c2[s] = c[s]
             /\ Starts(list, Null)[s] = Starts(list, hm)[s]
             /\ \E l \in Lists : s = L(l)
    <2>1. PICK l \in Lists : s = L(l)
        BY <1>2, StartsOf
    <2>2. QED
        BY <2>1, StartsOf
<1>6. ASSUME NEW s \in DOMAIN Starts(list, Null), NEW i \in DOMAIN c2[s]
      PROVE  c2[s][i] \notin Chained
    <2>1. \A b \in Buckets(hm) : B(b) \in DOMAIN Starts(list, hm) /\ B(b) # s
        BY <1>5, StartsOf
    <2>2. QED
        BY <1>1, <1>4, <1>5, <2>1 DEF Forest
<1>7. ASSUME NEW n \in DOMAIN heap \ Chained
      PROVE  \E s \in DOMAIN Starts(list, Null) : \E i \in DOMAIN c2[s] : c2[s][i] = n
    <2>1. PICK s \in DOMAIN Starts(list, hm) : \E i \in DOMAIN c[s] : c[s][i] = n
        BY <1>1 DEF Forest
    <2>2. \E l \in Lists : s = L(l)
        BY <1>4, <2>1, StartsOf
    <2>3. s \in DOMAIN Starts(list, Null)
        BY <2>2, StartsOf
    <2>4. QED
        BY <1>5, <2>1, <2>3
<1>8. \A l \in Lists : c2[L(l)] = c[L(l)]
    BY StartsOf
<1>9. c2 = [s \in DOMAIN Starts(list, Null) |-> c2[s]] /\ g = Without(heap, Chained)
    OBVIOUS
<1> HIDE DEF c2, g
<1>10. TailsKept(list, c2)
    BY <1>1, <1>8 DEF TailsKept
<1>11. Kept(g, list, Null, c2)
    BY <1>1, <1>5, <1>6, <1>7, <1>9, <1>10, PathsFreed
<1>12. QED
    BY <1>8, <1>11 DEF g

\* What a map is.
LEMMA MapTyped ==
    ASSUME NEW h, NEW m, MapKept(h, m), m # Null
    PROVE  /\ m.num_buckets \in Nat \ {0} /\ m.entries \in Nat
           /\ m.buckets \in [0 .. m.num_buckets - 1 -> Pointers]
           /\ Buckets(m) = 0 .. m.num_buckets - 1
           /\ m = [num_buckets |-> m.num_buckets, entries |-> m.entries, buckets |-> m.buckets]
           /\ \A key \in Keys : hash(m.num_buckets, key) \in Buckets(m)
<1>1. Cardinality(Nodes) \in Nat
    BY DataStructsAssumption, FS_CardinalityType
<1>2. m.num_buckets \in Sizes /\ m \in MapsOf(m.num_buckets)
    BY DEF MapKept
<1>3. m.num_buckets \in Nat \ {0}
    BY <1>1, <1>2, DataStructsAssumption DEF Sizes
<1>4. /\ m.entries \in Nat /\ m.buckets \in [0 .. m.num_buckets - 1 -> Pointers]
      /\ m = [num_buckets |-> m.num_buckets, entries |-> m.entries, buckets |-> m.buckets]
    BY <1>1, <1>2 DEF MapsOf
<1>5. Buckets(m) = 0 .. m.num_buckets - 1
    BY <1>4 DEF Buckets
<1>6. ASSUME NEW key \in Keys PROVE hash(m.num_buckets, key) \in Buckets(m)
    <2>1. Hash[key] \in Nat
        BY DataStructsAssumption
    <2>2. QED
        BY <1>3, <1>5, <2>1 DEF hash
<1>7. QED
    BY <1>3, <1>4, <1>5, <1>6

\* The nodes found for the key, in any heap and map.
FoundIn(h, m, key) ==
    LET nodes == NodesFrom(h, m.buckets[hash(m.num_buckets, key)])
        hits == {k \in DOMAIN nodes : KeyOf(h, nodes[k]) = key}
    IN  {nodes[k] : k \in {j \in hits : \A i \in hits : j <= i}}

\* A call finds the node of the key, if there is one.
LEMMA FoundInNode ==
    ASSUME NEW c, NEW h, NEW ls, NEW m, Kept(h, ls, m, c), m # Null, NEW key \in Keys
    PROVE  /\ FoundIn(h, m, key) = {n \in Hashed(h) : KeyOf(h, n) = key}
           /\ \A n, o \in FoundIn(h, m, key) : n = o
<1> DEFINE index == hash(m.num_buckets, key)
           nodes == NodesFrom(h, m.buckets[index])
           hits == {k \in DOMAIN nodes : KeyOf(h, nodes[k]) = key}
<1>1. /\ Forest(h, Starts(ls, m), c) /\ DataKept(h, m, c) /\ KeysApart(h)
      /\ MapKept(h, m)
    BY DEF Kept
<1>2. index \in Buckets(m)
    BY <1>1, MapTyped
<1>3. B(index) \in DOMAIN Starts(ls, m) /\ Starts(ls, m)[B(index)] = m.buckets[index]
    BY <1>2, StartsOf
<1>4. nodes = c[B(index)] /\ DOMAIN nodes = 1 .. Len(nodes) /\ Len(nodes) \in Nat
    BY <1>1, <1>3, ForestNodes
<1>5. \A i, j \in DOMAIN nodes : nodes[i] = nodes[j] => i = j
    BY <1>1, <1>3, <1>4 DEF Forest, IsPath, IsInjective
<1>6. \A k \in DOMAIN nodes : nodes[k] \in Hashed(h)
    BY <1>1, <1>2, <1>4, HashedNodes
<1>7. FoundIn(h, m, key) = {nodes[k] : k \in {j \in hits : \A i \in hits : j <= i}}
    BY DEF FoundIn
<1> HIDE DEF index, nodes
<1>8. \A i, j \in hits : i = j
    BY <1>1, <1>5, <1>6 DEF KeysApart
<1>9. ASSUME NEW n \in Hashed(h), KeyOf(h, n) = key PROVE n \in FoundIn(h, m, key)
    <2>1. PICK b \in Buckets(m) : \E i \in DOMAIN c[B(b)] : c[B(b)][i] = n
        BY <1>1, HashedNodes
    <2>2. PICK i \in DOMAIN c[B(b)] : c[B(b)][i] = n
        BY <2>1
    <2>3. hash(m.num_buckets, key) = b
        BY <1>1, <1>9, <2>2 DEF DataKept
    <2>4. i \in hits /\ nodes[i] = n
        BY <1>4, <1>9, <2>2, <2>3 DEF index
    <2>5. \A j \in hits : i <= j
        BY <1>4, <1>8, <2>4
    <2>6. QED
        BY <1>7, <2>4, <2>5
<1>10. ASSUME NEW n \in FoundIn(h, m, key) PROVE n \in Hashed(h) /\ KeyOf(h, n) = key
    BY <1>6, <1>7
<1>11. QED
    BY <1>1, <1>9, <1>10 DEF KeysApart

LEMMA FoundNode ==
    ASSUME NEW c, Kept(heap, list, hm, c), hm # Null, NEW key \in Keys
    PROVE  /\ Found(key) = {n \in Hashed(heap) : KeyOf(heap, n) = key}
           /\ \A n, o \in Found(key) : n = o
<1>1. Found(key) = FoundIn(heap, hm, key)
    BY DEF Found, FoundIn, Chain
<1>2. QED
    BY <1>1, FoundInNode

\* A key that is there gets the new value.
LEMMA ValueReplaced ==
    ASSUME NEW c, Kept(heap, list, hm, c), hm # Null, NEW key \in Keys, NEW value \in Things,
           NEW n \in Found(key), NEW g, g = [heap EXCEPT ![n].data = << key, value >>]
    PROVE  Kept(g, list, hm, c) /\ Hashed(g) = Hashed(heap) /\ n \in Hashed(heap)
<1>1. /\ Forest(heap, Starts(list, hm), c) /\ HeapTyped(heap) /\ DataKept(heap, hm, c)
      /\ KeysApart(heap) /\ MapKept(heap, hm)
    BY DEF Kept
<1>2. n \in Hashed(heap) /\ n \in DOMAIN heap /\ KeyOf(heap, n) = key
    BY FoundNode DEF Hashed
<1>3. << key, value >> \in Keys \X Things /\ << key, value >>[1] = key
    OBVIOUS
<1>4. /\ HeapTyped(g) /\ DOMAIN g = DOMAIN heap
      /\ \A m \in DOMAIN heap : g[m].next = heap[m].next
      /\ g[n].data = << key, value >>
      /\ \A m \in DOMAIN heap : m # n => g[m].data = heap[m].data
    BY <1>1, <1>2, <1>3 DEF HeapTyped
<1>5. Hashed(g) = Hashed(heap) /\ \A m \in DOMAIN heap : m \in Hashed(heap) => KeyOf(g, m) = KeyOf(heap, m)
    BY <1>2, <1>3, <1>4 DEF Hashed, KeyOf
<1>6. Forest(g, Starts(list, hm), c)
    <2>1. \A s \in DOMAIN Starts(list, hm) : IsPath(g, Starts(list, hm)[s], c[s])
        <3>1. ASSUME NEW s \in DOMAIN Starts(list, hm)
              PROVE  IsPath(g, Starts(list, hm)[s], c[s])
            <4>1. /\ IsPath(heap, Starts(list, hm)[s], c[s])
                  /\ \A i \in DOMAIN c[s] : c[s][i] \in DOMAIN heap
                BY <1>1, ForestNodes DEF Forest
            <4>2. QED
                BY <1>4, <4>1, PathKept
        <3>2. QED
            BY <3>1
    <2>2. QED
        BY <1>1, <1>4, <2>1 DEF Forest
<1>7. DataKept(g, hm, c)
    <2>1. ASSUME NEW l \in Lists, NEW i \in DOMAIN c[L(l)] PROVE g[c[L(l)][i]].data \in Things
        <3>1. c[L(l)][i] \in DOMAIN heap /\ heap[c[L(l)][i]].data \in Things
            BY <1>1, StartsOf, ForestNodes DEF DataKept
        <3>2. c[L(l)][i] # n
            BY <1>2, <3>1, DataStructsAssumption DEF Hashed
        <3>3. QED
            BY <1>4, <3>1, <3>2
    <2>2. ASSUME NEW b \in Buckets(hm), NEW i \in DOMAIN c[B(b)]
          PROVE  /\ g[c[B(b)][i]].data \in Keys \X Things
                 /\ hash(hm.num_buckets, KeyOf(g, c[B(b)][i])) = b
        <3>1. c[B(b)][i] \in Hashed(heap)
            BY <1>1, HashedNodes
        <3>2. c[B(b)][i] \in Hashed(g) /\ KeyOf(g, c[B(b)][i]) = KeyOf(heap, c[B(b)][i])
            BY <1>5, <3>1 DEF Hashed
        <3>3. QED
            BY <1>1, <3>2 DEF DataKept, Hashed
    <2>3. QED
        BY <2>1, <2>2 DEF DataKept
<1>8. KeysApart(g) /\ MapKept(g, hm)
    <2>1. \A m \in Hashed(heap) : m \in DOMAIN heap
        BY DEF Hashed
    <2>2. QED
        BY <1>1, <1>5, <2>1 DEF KeysApart, MapKept
<1>9. QED
    BY <1>2, <1>4, <1>5, <1>6, <1>7, <1>8 DEF Kept

\* The map with node n in front of the chain of the key.
WithPair(n, key) ==
    [num_buckets |-> hm.num_buckets, entries |-> hm.entries + 1,
     buckets |-> [hm.buckets EXCEPT ![hash(hm.num_buckets, key)] = n]]

\* The heap with node n for the pair, in front of the chain of the key.
PairNode(n, key, value) ==
    NewNode(n, << key, value >>, hm.buckets[hash(hm.num_buckets, key)])

PairAdded(more, n, key, value) ==
    /\ DOMAIN more = DOMAIN heap \cup {n}
    /\ more[n].data = << key, value >>
    /\ more[n].next = hm.buckets[hash(hm.num_buckets, key)]
    /\ \A o \in DOMAIN heap : more[o] = heap[o]
    /\ HeapTyped(more)
    /\ n \in Nodes \ DOMAIN heap

\* A node with a new pair.
LEMMA PairNodeGiven ==
    ASSUME HeapTyped(heap), NEW n \in FreeNodes, NEW key \in Keys, NEW value \in Things,
           hm.buckets[hash(hm.num_buckets, key)] \in Pointers
    PROVE  PairAdded(PairNode(n, key, value), n, key, value)
<1> DEFINE data == << key, value >>
           next == hm.buckets[hash(hm.num_buckets, key)]
           g == NewNode(n, data, next)
<1>1. data \in Things \cup (Keys \X Things)
    OBVIOUS
<1>2. next \in Pointers
    OBVIOUS
<1>3. g = PairNode(n, key, value)
    BY DEF PairNode
<1> HIDE DEF data, next
<1>4. g = NewNode(n, data, next)
    OBVIOUS
<1> HIDE DEF g
<1>5. /\ DOMAIN g = DOMAIN heap \cup {n}
      /\ g[n].data = data /\ g[n].next = next
      /\ \A m \in DOMAIN heap : g[m] = heap[m]
      /\ HeapTyped(g)
      /\ n \in Nodes \ DOMAIN heap
    <2>1. n \in Nodes \ DOMAIN heap
        BY DEF FreeNodes
    <2>2. /\ DOMAIN g = DOMAIN heap \cup {n} /\ g[n] = [data |-> data, next |-> next]
          /\ \A m \in DOMAIN heap : g[m] = heap[m]
          /\ g = [m \in DOMAIN g |-> g[m]]
        BY <1>4, <2>1 DEF NewNode
    <2>3. g[n] \in [data : Things \cup (Keys \X Things), next : Pointers]
        BY <1>1, <1>2, <2>2
    <2>4. HeapTyped(g)
        BY <2>2, <2>3 DEF HeapTyped
    <2>5. QED
        BY <2>1, <2>2, <2>4
<1>6. PairAdded(g, n, key, value)
    BY <1>5 DEF data, next, PairAdded
<1>7. QED
    BY <1>3, <1>6

\* The lists and the map m are kept in heap more, which has the pair in node n.
PairKept(more, m, c, n, key, value) ==
    /\ \E c2 : Kept(more, list, m, c2) /\ \A l \in Lists : c2[L(l)] = c[L(l)]
    /\ m # Null
    /\ Hashed(more) = Hashed(heap) \cup {n} /\ more[n].data = << key, value >>
    /\ DOMAIN more = DOMAIN heap \cup {n} /\ n \notin DOMAIN heap
    /\ \A o \in DOMAIN heap : more[o] = heap[o]

\* A key that is not there gets a node.
LEMMA PairGiven ==
    ASSUME NEW c, Kept(heap, list, hm, c), hm # Null, NEW key \in Keys, NEW value \in Things,
           Found(key) = {}, NEW n \in FreeNodes,
           NEW more, PairAdded(more, n, key, value),
           NEW m, m = WithPair(n, key)
    PROVE  PairKept(more, m, c, n, key, value)
<1> DEFINE index == hash(hm.num_buckets, key)
           c2 == [c EXCEPT ![B(index)] = << n >> \o c[B(index)]]
<1>1. /\ Forest(heap, Starts(list, hm), c) /\ HeapTyped(heap) /\ TailsKept(list, c)
      /\ DataKept(heap, hm, c) /\ KeysApart(heap) /\ MapKept(heap, hm)
      /\ list \in [Lists -> ListRecords \cup {Null}]
    BY DEF Kept
<1>2. /\ hm.num_buckets \in Nat \ {0} /\ hm.entries \in Nat
      /\ hm.buckets \in [0 .. hm.num_buckets - 1 -> Pointers]
      /\ Buckets(hm) = 0 .. hm.num_buckets - 1 /\ index \in Buckets(hm)
    BY <1>1, MapTyped
<1> HIDE DEF index
<1>3. << key, value >> \in Keys \X Things /\ << key, value >>[1] = key
      /\ hm.buckets[index] \in Pointers
    BY <1>2
<1>4. /\ DOMAIN more = DOMAIN heap \cup {n} /\ more[n].data = << key, value >>
      /\ more[n].next = hm.buckets[index]
      /\ \A o \in DOMAIN heap : more[o] = heap[o]
      /\ HeapTyped(more) /\ n \in Nodes \ DOMAIN heap
    BY DEF PairAdded, index
<1>5. Hashed(more) = Hashed(heap) \cup {n}
    BY <1>3, <1>4 DEF Hashed
<1>6. n \in Pointers
    BY <1>4 DEF Pointers
<1>7. /\ m.num_buckets = hm.num_buckets /\ m.entries = hm.entries + 1
      /\ m.buckets \in [0 .. hm.num_buckets - 1 -> Pointers] /\ m.buckets[index] = n
      /\ \A b \in Buckets(hm) : b # index => m.buckets[b] = hm.buckets[b]
      /\ m = [num_buckets |-> hm.num_buckets, entries |-> hm.entries + 1, buckets |-> m.buckets]
    BY <1>2, <1>6 DEF WithPair, index
<1>8. MapKept(more, m) /\ m # Null
    <2>1. IsFiniteSet(Nodes) /\ Cardinality(Nodes) \in Nat
        BY DataStructsAssumption, FS_CardinalityType
    <2>2. Hashed(heap) \subseteq Nodes /\ Hashed(more) \subseteq Nodes /\ n \notin Hashed(heap)
        BY <1>1, <1>4 DEF Hashed, Forest
    <2>3. IsFiniteSet(Hashed(heap))
        BY <2>1, <2>2, FS_Subset
    <2>4. Cardinality(Hashed(more)) = hm.entries + 1
        <3>1. Cardinality(Hashed(heap) \cup {n}) = Cardinality(Hashed(heap)) + 1
            BY <2>2, <2>3, FS_AddElement
        <3>2. QED
            BY <1>1, <1>5, <3>1 DEF MapKept
    <2>5. Cardinality(Hashed(more)) <= Cardinality(Nodes)
        BY <2>1, <2>2, FS_Subset
    <2>6. m.entries \in 0 .. Cardinality(Nodes)
        BY <1>2, <1>7, <2>1, <2>4, <2>5
    <2>7. m.num_buckets \in Sizes
        BY <1>1, <1>7 DEF MapKept
    <2>8. m \in MapsOf(m.num_buckets)
        <3>1. \A e, bs : e \in 0 .. Cardinality(Nodes) /\ bs \in [0 .. hm.num_buckets - 1 -> Pointers]
                  => [num_buckets |-> hm.num_buckets, entries |-> e, buckets |-> bs]
                       \in MapsOf(hm.num_buckets)
            BY DEF MapsOf
        <3>2. QED
            BY <1>7, <2>6, <3>1
    <2>9. m # Null
        BY <2>7, <2>8, DataStructsAssumption
    <2>10. QED
        BY <1>7, <2>4, <2>7, <2>8, <2>9 DEF MapKept
<1>9. Buckets(m) = Buckets(hm)
    BY <1>2, <1>7, <1>8 DEF Buckets
<1>10. B(index) \in DOMAIN Starts(list, hm) /\ Starts(list, hm)[B(index)] = hm.buckets[index]
    BY <1>2, StartsOf
<1>11. Starts(list, m) = [Starts(list, hm) EXCEPT ![B(index)] = n]
    <2> DEFINE S == Starts(list, hm)
               S2 == Starts(list, m)
               moved == [S EXCEPT ![B(index)] = n]
    <2>1. DOMAIN S = DOMAIN S2 /\ S2 = [s \in DOMAIN S |-> S2[s]]
        BY <1>9 DEF Starts
    <2>2. moved = [s \in DOMAIN S |-> moved[s]] /\ moved[B(index)] = n
          /\ \A s \in DOMAIN S : s # B(index) => moved[s] = S[s]
        BY <1>10
    <2>3. ASSUME NEW s \in DOMAIN S PROVE S2[s] = moved[s]
        <3>1. (\E l \in Lists : s = L(l)) \/ (\E b \in Buckets(hm) : s = B(b))
            BY StartsOf
        <3>2. CASE \E l \in Lists : s = L(l)
            <4>1. S2[s] = S[s] /\ s # B(index)
                BY <3>2, StartsOf
            <4>2. QED
                BY <2>2, <4>1
        <3>3. CASE \E b \in Buckets(hm) : s = B(b)
            <4>1. PICK b \in Buckets(hm) : s = B(b)
                BY <3>3
            <4>2. S2[s] = m.buckets[b] /\ S[s] = hm.buckets[b] /\ (s = B(index) <=> b = index)
                BY <1>9, <4>1, StartsOf
            <4>3. QED
                BY <1>7, <2>2, <4>2
        <3>4. QED
            BY <3>1, <3>2, <3>3
    <2> HIDE DEF S, S2, moved
    <2>4. S2 = moved
        BY <2>1, <2>2, <2>3
    <2>5. QED
        BY <2>4 DEF S, S2, moved
<1>12. Forest(more, Starts(list, m), c2)
    <2>1. /\ more[n].next = Starts(list, hm)[B(index)]
          /\ \A o \in DOMAIN heap : more[o].next = heap[o].next
        BY <1>4, <1>10
    <2>2. Forest(more, [Starts(list, hm) EXCEPT ![B(index)] = n], c2)
        BY <1>1, <1>4, <1>10, <2>1, ForestPushed, Zenon
    <2>3. QED
        BY <1>11, <2>2
<1>13. /\ \A l \in Lists : c2[L(l)] = c[L(l)]
       /\ \A b : b # index => c2[B(b)] = c[B(b)]
    BY StartsOf
<1>14. /\ \A s \in DOMAIN Starts(list, hm) : \A i \in DOMAIN c[s] : c[s][i] \in DOMAIN heap
       /\ c[B(index)] \in Seq(DOMAIN heap)
    BY <1>1, <1>10, ForestNodes
<1>15. \A i \in DOMAIN c2[B(index)] :
          \/ c2[B(index)][i] = n
          \/ i - 1 \in DOMAIN c[B(index)] /\ c2[B(index)][i] = c[B(index)][i - 1]
    <2>1. c2[B(index)] = << n >> \o c[B(index)]
        BY <1>1, <1>10 DEF Forest
    <2>2. QED
        BY <1>14, <2>1
<1> HIDE DEF c2
<1>16. TailsKept(list, c2)
    BY <1>1, <1>13 DEF TailsKept
<1>17. DataKept(more, m, c2)
    <2>1. ASSUME NEW l \in Lists, NEW i \in DOMAIN c2[L(l)] PROVE more[c2[L(l)][i]].data \in Things
        <3>1. c2[L(l)] = c[L(l)] /\ c[L(l)][i] \in DOMAIN heap
            BY <1>13, <1>14, StartsOf
        <3>2. QED
            BY <1>1, <1>4, <3>1 DEF DataKept
    <2>2. ASSUME NEW b \in Buckets(m), NEW i \in DOMAIN c2[B(b)]
          PROVE  /\ more[c2[B(b)][i]].data \in Keys \X Things
                 /\ hash(m.num_buckets, KeyOf(more, c2[B(b)][i])) = b
        <3>1. ASSUME NEW j \in DOMAIN c[B(b)], c2[B(b)][i] = c[B(b)][j]
              PROVE  /\ more[c2[B(b)][i]].data \in Keys \X Things
                     /\ hash(m.num_buckets, KeyOf(more, c2[B(b)][i])) = b
            <4>1. c[B(b)][j] \in DOMAIN heap
                BY <1>9, <1>14, StartsOf
            <4>2. more[c2[B(b)][i]] = heap[c[B(b)][j]]
                BY <1>4, <3>1, <4>1
            <4>3. QED
                BY <1>1, <1>7, <1>9, <4>2 DEF DataKept, KeyOf
        <3>2. CASE c2[B(b)][i] = n /\ b = index
            BY <1>3, <1>4, <1>7, <3>2 DEF KeyOf, index
        <3>3. QED
            BY <1>13, <1>15, <3>1, <3>2
    <2>3. QED
        BY <2>1, <2>2 DEF DataKept
<1>18. KeysApart(more)
    <2>1. \A o \in Hashed(heap) : KeyOf(more, o) = KeyOf(heap, o) /\ KeyOf(heap, o) # key
        BY <1>4, FoundNode DEF Hashed, KeyOf
    <2>2. KeyOf(more, n) = key
        BY <1>3, <1>4 DEF KeyOf
    <2>3. QED
        BY <1>1, <1>5, <2>1, <2>2 DEF KeysApart
<1>19. Kept(more, list, m, c2)
    BY <1>1, <1>4, <1>8, <1>12, <1>16, <1>17, <1>18 DEF Kept
<1>20. QED
    BY <1>4, <1>5, <1>8, <1>13, <1>19 DEF PairKept
-----------------------------------------------------------------------------
(* Sequences one after another *)

\* Sequence whole is front and then back.
Joins(whole, front, back, S) ==
    /\ whole \in Seq(S) /\ IsInjective(whole)
    /\ \A k \in DOMAIN front : k \in DOMAIN whole /\ whole[k] = front[k]
    /\ \A k \in DOMAIN back : Len(front) + k \in DOMAIN whole /\ whole[Len(front) + k] = back[k]
    /\ \A k \in DOMAIN whole : \/ k \in DOMAIN front /\ whole[k] = front[k]
                               \/ k - Len(front) \in DOMAIN back /\ whole[k] = back[k - Len(front)]

\* Two sequences without a common element.
LEMMA Joined ==
    ASSUME NEW S, NEW front \in Seq(S), NEW back \in Seq(S), IsInjective(front), IsInjective(back),
           \A i \in DOMAIN front, j \in DOMAIN back : front[i] # back[j]
    PROVE  Joins(front \o back, front, back, S)
<1> DEFINE whole == front \o back
<1>1. /\ whole \in Seq(S) /\ Len(whole) = Len(front) + Len(back)
      /\ \A k \in 1 .. Len(front) + Len(back) :
            whole[k] = IF k <= Len(front) THEN front[k] ELSE back[k - Len(front)]
    BY ConcatProperties
<1>2. /\ Len(front) \in Nat /\ DOMAIN front = 1 .. Len(front) /\ Len(back) \in Nat /\ DOMAIN back = 1 .. Len(back)
      /\ DOMAIN whole = 1 .. Len(front) + Len(back)
    BY <1>1
<1> HIDE DEF IsInjective, whole
<1>3. \A k \in DOMAIN front : k \in DOMAIN whole /\ whole[k] = front[k]
    BY <1>1, <1>2
<1>4. \A k \in DOMAIN back : Len(front) + k \in DOMAIN whole /\ whole[Len(front) + k] = back[k]
    BY <1>1, <1>2
<1>5. \A k \in DOMAIN whole :
          \/ k \in DOMAIN front /\ whole[k] = front[k]
          \/ k - Len(front) \in DOMAIN back /\ whole[k] = back[k - Len(front)]
    BY <1>1, <1>2
<1>6. ASSUME NEW i \in DOMAIN whole, NEW j \in DOMAIN whole, whole[i] = whole[j] PROVE i = j
    <2>1. i \in Int /\ j \in Int
        BY <1>2
    <2>2. CASE i \in DOMAIN front /\ whole[i] = front[i] /\ j \in DOMAIN front /\ whole[j] = front[j]
        BY <1>6, <2>2 DEF IsInjective
    <2>3. CASE /\ i - Len(front) \in DOMAIN back /\ whole[i] = back[i - Len(front)]
               /\ j - Len(front) \in DOMAIN back /\ whole[j] = back[j - Len(front)]
        <3>1. i - Len(front) = j - Len(front)
            BY <1>6, <2>3 DEF IsInjective
        <3>2. QED
            BY <1>2, <2>1, <3>1
    <2>4. QED
        BY <1>5, <1>6, <2>2, <2>3
<1>7. IsInjective(whole)
    BY <1>6 DEF IsInjective
<1>8. Joins(whole, front, back, S)
    BY <1>1, <1>3, <1>4, <1>5, <1>7 DEF Joins
<1>9. QED
    BY <1>8 DEF whole

\* Sequence t has the elements of the first m sequences, each once.
Gathers(t, m, seqs, S) ==
    /\ t \in Seq(S) /\ IsInjective(t)
    /\ \A k \in DOMAIN t : \E i \in 1 .. m : \E p \in DOMAIN seqs[i] : t[k] = seqs[i][p]
    /\ \A i \in 1 .. m : \A p \in DOMAIN seqs[i] : \E k \in DOMAIN t : t[k] = seqs[i][p]

\* The chains, one after another: every node of each of them, once.
LEMMA Flattened ==
    ASSUME NEW S, NEW N \in Nat \ {0}, NEW seqs \in [1 .. N -> Seq(S)],
           \A i \in 1 .. N : IsInjective(seqs[i]),
           \A i, j \in 1 .. N : i # j =>
              \A p \in DOMAIN seqs[i], q \in DOMAIN seqs[j] : seqs[i][p] # seqs[j][q]
    PROVE  Gathers(FlattenSeq(seqs), N, seqs, S)
<1> DEFINE Steps(f) == [i \in 1 .. Len(seqs) |-> IF i = 1 THEN seqs[i] ELSE f[i - 1] \o seqs[i]]
           flatten == CHOOSE flatten : flatten = Steps(flatten)
           D == Seq(S)
           first == seqs[1]
           step == [k \in 1 .. N - 1 |-> [q \in D |-> q \o seqs[k + 1]]]
<1>1. N - 1 \in Nat /\ 1 \in 1 .. N /\ Len(seqs) = N
    <2>1. seqs \in Seq(Seq(S)) /\ DOMAIN seqs = 1 .. N
        OBVIOUS
    <2>2. QED
        BY <2>1, LenProperties
<1>2. first \in D /\ step \in [1 .. N - 1 -> [D -> D]]
    <2>1. ASSUME NEW k \in 1 .. N - 1, NEW q \in D PROVE q \o seqs[k + 1] \in D
        <3>1. k + 1 \in 1 .. N
            BY <1>1
        <3>2. seqs[k + 1] \in Seq(S)
            BY <3>1
        <3>3. QED
            BY <3>2, ConcatProperties
    <2>2. QED
        BY <1>1, <2>1
<1> HIDE DEF D
<1>3. PICK f \in [0 .. N - 1 -> D] :
          f[0] = first /\ \A k \in 1 .. N - 1 : f[k] = step[k][f[k - 1]]
    <2> HIDE DEF first, step
    <2>1. Iterations(N - 1, D, first, step) # {}
        BY <1>1, <1>2, Recursion, Zenon
    <2>2. QED
        BY <2>1 DEF Iterations
<1>4. \E g : g = Steps(g)
    <2> DEFINE g == [i \in 1 .. N |-> f[i - 1]]
    <2>1. ASSUME NEW i \in 1 .. N PROVE g[i] = IF i = 1 THEN seqs[i] ELSE g[i - 1] \o seqs[i]
        <3>1. CASE i = 1
            BY <1>3, <3>1
        <3>2. CASE i # 1
            <4>1. i - 1 \in 1 .. N - 1 /\ i - 1 \in 1 .. N /\ i - 1 \in 0 .. N - 1
                  /\ (i - 1) - 1 \in 0 .. N - 1 /\ (i - 1) + 1 = i
                BY <1>1, <3>2
            <4>2. f[i - 1] = step[i - 1][f[(i - 1) - 1]] /\ f[(i - 1) - 1] \in D
                BY <1>3, <4>1
            <4>3. step[i - 1][f[(i - 1) - 1]] = f[(i - 1) - 1] \o seqs[i]
                BY <4>1, <4>2
            <4>4. g[i] = f[i - 1] /\ g[i - 1] = f[(i - 1) - 1]
                BY <4>1
            <4> HIDE DEF g, step
            <4>5. QED
                BY <3>2, <4>2, <4>3, <4>4
        <3>3. QED
            BY <3>1, <3>2
    <2>2. g = Steps(g)
        <3>1. g = [i \in 1 .. N |-> g[i]]
            OBVIOUS
        <3> HIDE DEF g
        <3>2. QED
            BY <1>1, <2>1, <3>1
    <2>3. QED
        BY <2>2
<1>5. flatten = Steps(flatten)
    BY <1>4
<1>6. FlattenSeq(seqs) = flatten[N]
    <2>1. Len(seqs) # 0
        BY <1>1
    <2>2. FlattenSeq(seqs) = flatten[Len(seqs)]
        BY <2>1 DEF FlattenSeq
    <2>3. QED
        BY <1>1, <2>2
<1> HIDE DEF flatten
<1>7. \A i \in 1 .. N : flatten[i] = IF i = 1 THEN seqs[i] ELSE flatten[i - 1] \o seqs[i]
    BY <1>1, <1>5
<1> DEFINE T == {m \in Nat : m + 1 <= N => Gathers(flatten[m + 1], m + 1, seqs, S)}
<1>8. 0 \in T
    <2>1. flatten[1] = seqs[1] /\ seqs[1] \in Seq(S) /\ IsInjective(seqs[1])
        BY <1>1, <1>7
    <2>2. \A i \in 1 .. 1 : i = 1
        OBVIOUS
    <2>3. Gathers(flatten[1], 1, seqs, S)
        BY <2>1, <2>2 DEF Gathers
    <2>4. QED
        BY <2>3
<1>9. ASSUME NEW m \in Nat, m \in T PROVE m + 1 \in T
    <2>1. SUFFICES ASSUME m + 2 <= N PROVE Gathers(flatten[m + 2], m + 2, seqs, S)
        OBVIOUS
    <2> DEFINE q == flatten[m + 1]
               r == seqs[m + 2]
               t == flatten[m + 2]
    <2>2. /\ m + 1 \in 1 .. N /\ m + 2 \in 1 .. N /\ m + 2 # 1 /\ (m + 2) - 1 = m + 1
          /\ 1 .. m + 2 = (1 .. m + 1) \cup {m + 2} /\ \A i \in 1 .. m + 1 : i \in 1 .. N /\ i # m + 2
        BY <2>1
    <2>3. Gathers(q, m + 1, seqs, S)
        BY <1>9, <2>1
    <2>4. t = q \o r
        BY <1>7, <2>2
    <2>5. r \in Seq(S) /\ IsInjective(r)
        BY <2>2
    <2> HIDE DEF q, t, T
    <2>6. ASSUME NEW i \in DOMAIN q, NEW j \in DOMAIN r PROVE q[i] # r[j]
        <3>1. PICK k \in 1 .. m + 1 : \E p \in DOMAIN seqs[k] : q[i] = seqs[k][p]
            BY <2>3 DEF Gathers
        <3>2. PICK p \in DOMAIN seqs[k] : q[i] = seqs[k][p]
            BY <3>1
        <3>3. k \in 1 .. N /\ k # m + 2
            BY <2>2
        <3>4. QED
            BY <2>2, <3>2, <3>3
    <2>7. /\ t \in Seq(S) /\ IsInjective(t)
          /\ \A k \in DOMAIN q : k \in DOMAIN t /\ t[k] = q[k]
          /\ \A k \in DOMAIN r : Len(q) + k \in DOMAIN t /\ t[Len(q) + k] = r[k]
          /\ \A k \in DOMAIN t : \/ k \in DOMAIN q /\ t[k] = q[k]
                                 \/ k - Len(q) \in DOMAIN r /\ t[k] = r[k - Len(q)]
        <3> HIDE DEF r
        <3>1. q \in Seq(S) /\ IsInjective(q)
            BY <2>3 DEF Gathers
        <3>2. QED
            <4>1. Joins(q \o r, q, r, S)
                BY <2>5, <2>6, <3>1, Joined
            <4>2. Joins(t, q, r, S)
                BY <2>4, <4>1
            <4>3. QED
                BY <4>2 DEF Joins
    <2>8. \A k \in DOMAIN t : \E i \in 1 .. m + 2 : \E p \in DOMAIN seqs[i] : t[k] = seqs[i][p]
        <3>1. ASSUME NEW k \in DOMAIN t, k \in DOMAIN q, t[k] = q[k]
              PROVE  \E i \in 1 .. m + 2 : \E p \in DOMAIN seqs[i] : t[k] = seqs[i][p]
            <4>1. PICK i \in 1 .. m + 1 : \E p \in DOMAIN seqs[i] : q[k] = seqs[i][p]
                BY <2>3, <3>1 DEF Gathers
            <4>2. i \in 1 .. m + 2
                BY <2>2
            <4>3. QED
                BY <3>1, <4>1, <4>2
        <3>2. m + 2 \in 1 .. m + 2
            BY <2>2
        <3>3. QED
            BY <2>7, <3>1, <3>2
    <2>9. \A i \in 1 .. m + 2 : \A p \in DOMAIN seqs[i] : \E k \in DOMAIN t : t[k] = seqs[i][p]
        <3>1. \A i \in 1 .. m + 1 : \A p \in DOMAIN seqs[i] : \E k \in DOMAIN t : t[k] = seqs[i][p]
            BY <2>3, <2>7 DEF Gathers
        <3>2. \A p \in DOMAIN seqs[m + 2] : \E k \in DOMAIN t : t[k] = seqs[m + 2][p]
            BY <2>7
        <3>3. QED
            BY <2>2, <3>1, <3>2
    <2>10. QED
        BY <2>7, <2>8, <2>9 DEF Gathers, t
<1>10. N - 1 \in T
    <2> HIDE DEF T
    <2>1. QED
        BY <1>1, <1>8, <1>9, Everywhere
<1>11. (N - 1) + 1 = N /\ N <= N
    OBVIOUS
<1>12. Gathers(flatten[N], N, seqs, S)
    BY <1>10, <1>11
<1>13. QED
    BY <1>6, <1>12

-----------------------------------------------------------------------------
(* A larger table *)

\* The nodes in the order rehash meets them.
Met(h, buckets) ==
    FlattenSeq([b \in 1 .. Cardinality(DOMAIN buckets) |-> NodesFrom(h, buckets[b - 1])])

\* The new bucket of the k-th node met.
Index(h, met, size, k) == hash(size, KeyOf(h, met[k]))

MetBefore(h, met, size, b, before) ==
    {k \in DOMAIN met : k < before /\ Index(h, met, size, k) = b}

LatestOf(met, same) ==
    IF same = {} THEN Null ELSE met[CHOOSE k \in same : \A j \in same : j <= k]

\* The head of new chain b before node number before is met.
HeadBefore(h, met, size, b, before) == LatestOf(met, MetBefore(h, met, size, b, before))

\* A chain's head changes when a node of the chain is met, to that node.
LEMMA HeadSteps ==
    ASSUME NEW h, NEW S, NEW met \in Seq(S), NEW size, NEW b
    PROVE  /\ HeadBefore(h, met, size, b, 1) = Null
           /\ \A j \in DOMAIN met :
                 HeadBefore(h, met, size, b, j + 1) =
                    IF Index(h, met, size, j) = b THEN met[j]
                    ELSE HeadBefore(h, met, size, b, j)
<1>1. DOMAIN met = 1 .. Len(met) /\ Len(met) \in Nat
    OBVIOUS
<1>2. MetBefore(h, met, size, b, 1) = {}
    BY <1>1 DEF MetBefore
<1>3. ASSUME NEW j \in DOMAIN met
      PROVE  HeadBefore(h, met, size, b, j + 1) =
                IF Index(h, met, size, j) = b THEN met[j]
                ELSE HeadBefore(h, met, size, b, j)
    <2> DEFINE same == MetBefore(h, met, size, b, j + 1)
               highest == CHOOSE k \in same : \A i \in same : i <= k
    <2>1. \A k \in same : k \in Int /\ k <= j
        BY <1>1 DEF MetBefore
    <2>2. CASE Index(h, met, size, j) = b
        <3>1. j \in same
            BY <1>1, <2>2 DEF MetBefore
        <3> HIDE DEF same
        <3>2. \A i \in same : i <= j
            BY <2>1
        <3>3. highest \in same /\ \A i \in same : i <= highest
            BY <3>1, <3>2
        <3>4. highest = j
            BY <2>1, <3>1, <3>3
        <3>5. HeadBefore(h, met, size, b, j + 1) = met[highest]
            BY <3>1 DEF HeadBefore, LatestOf, same
        <3> HIDE DEF highest
        <3>6. QED
            BY <2>2, <3>4, <3>5
    <2>3. CASE Index(h, met, size, j) # b
        <3>1. same = MetBefore(h, met, size, b, j)
            BY <1>1, <2>3 DEF MetBefore
        <3>2. QED
            BY <2>3, <3>1 DEF HeadBefore
    <2>4. QED
        BY <2>2, <2>3
<1>4. QED
    BY <1>2, <1>3 DEF HeadBefore, LatestOf

\* Heap g is h with the nodes met, in this order, in the chains bs.
Rehashing(g, bs, h, met, size) ==
    /\ DOMAIN g = DOMAIN h
    /\ \A k \in DOMAIN met :
          g[met[k]] = [h[met[k]] EXCEPT !.next =
                          HeadBefore(h, met, size, Index(h, met, size, k), k)]
    /\ \A n \in DOMAIN h : (\A k \in DOMAIN met : met[k] # n) => g[n] = h[n]
    /\ g = [n \in DOMAIN g |-> g[n]]
    /\ bs = [b \in 0 .. size - 1 |-> HeadBefore(h, met, size, b, Len(met) + 1)]

\* Rehashed sets next and the new heads to the nodes met before.
LEMMA RehashedAs ==
    ASSUME NEW h, NEW buckets, NEW size, NEW met, met = Met(h, buckets),
           met \in Seq(DOMAIN h), IsInjective(met)
    PROVE  Rehashing(Rehashed(h, buckets, size)[1], Rehashed(h, buckets, size)[2], h, met, size)
<1> DEFINE g == [n \in DOMAIN h |->
                    IF \E k \in DOMAIN met : met[k] = n
                    THEN LET k == CHOOSE k \in DOMAIN met : met[k] = n
                         IN  [h[n] EXCEPT !.next =
                                HeadBefore(h, met, size, Index(h, met, size, k), k)]
                    ELSE h[n]]
           bs == [b \in 0 .. size - 1 |-> HeadBefore(h, met, size, b, Len(met) + 1)]
<1>1. Rehashed(h, buckets, size) = << g, bs >>
    BY DEF Rehashed, Met, HeadBefore, LatestOf, MetBefore, Index
<1>2. \A k \in DOMAIN met : met[k] \in DOMAIN h
    OBVIOUS
<1>3. ASSUME NEW k \in DOMAIN met
      PROVE  g[met[k]] = [h[met[k]] EXCEPT !.next =
                             HeadBefore(h, met, size, Index(h, met, size, k), k)]
    <2> DEFINE i == CHOOSE i \in DOMAIN met : met[i] = met[k]
    <2>1. i \in DOMAIN met /\ met[i] = met[k]
        OBVIOUS
    <2>2. i = k
        BY <2>1 DEF IsInjective
    <2>3. g[met[k]] = [h[met[k]] EXCEPT !.next =
                          HeadBefore(h, met, size, Index(h, met, size, i), i)]
        BY <1>2
    <2> HIDE DEF i, g
    <2>4. QED
        BY <2>2, <2>3
<1>4. /\ DOMAIN g = DOMAIN h /\ g = [n \in DOMAIN g |-> g[n]]
      /\ \A n \in DOMAIN h : (\A k \in DOMAIN met : met[k] # n) => g[n] = h[n]
    OBVIOUS
<1>5. bs = [b \in 0 .. size - 1 |-> HeadBefore(h, met, size, b, Len(met) + 1)]
    OBVIOUS
<1> HIDE DEF g, bs
<1>6. Rehashing(g, bs, h, met, size)
    BY <1>3, <1>4, <1>5 DEF Rehashing
<1>7. QED
    BY <1>1, <1>6

\* Every node of the map is met, once.
LEMMA MetNodes ==
    ASSUME NEW h, NEW ls, NEW m, NEW c, Forest(h, Starts(ls, m), c), DataKept(h, m, c),
           MapKept(h, m), m # Null,
           NEW met, met = Met(h, m.buckets)
    PROVE  /\ met \in Seq(Hashed(h)) /\ IsInjective(met)
           /\ \A n \in Hashed(h) : \E k \in DOMAIN met : met[k] = n
<1> DEFINE N == m.num_buckets
           seqs == [b \in 1 .. N |-> c[B(b - 1)]]
<1>1. /\ N \in Nat \ {0} /\ Buckets(m) = 0 .. N - 1 /\ DOMAIN m.buckets = 0 .. N - 1
    BY DEF MapKept, Sizes, MapsOf, Buckets
<1> HIDE DEF N
<1>2. Cardinality(DOMAIN m.buckets) = N
    <2>1. 0 \in Int /\ N - 1 \in Int /\ ~(0 > N - 1) /\ (N - 1) - 0 + 1 = N
        BY <1>1
    <2>2. Cardinality(0 .. N - 1) = (N - 1) - 0 + 1
        BY <2>1, FS_Interval
    <2>3. QED
        BY <1>1, <2>1, <2>2
<1>3. \A b \in 1 .. N : b - 1 \in Buckets(m)
    BY <1>1
<1>4. \A b \in 1 .. N : /\ NodesFrom(h, m.buckets[b - 1]) = c[B(b - 1)]
                        /\ c[B(b - 1)] \in Seq(DOMAIN h)
    BY <1>3, StartsOf, ForestNodes
<1>5. met = FlattenSeq(seqs)
    BY <1>2, <1>4 DEF Met
<1>6. seqs \in [1 .. N -> Seq(Hashed(h))]
    <2>1. ASSUME NEW b \in 1 .. N PROVE c[B(b - 1)] \in Seq(Hashed(h))
        <3>1. \A i \in DOMAIN c[B(b - 1)] : c[B(b - 1)][i] \in Hashed(h)
            BY <1>3, HashedNodes
        <3>2. QED
            BY <1>4, <3>1
    <2>2. QED
        BY <2>1
<1>7. \A b \in 1 .. N : IsInjective(seqs[b])
    BY <1>3, StartsOf DEF Forest, IsPath
<1>8. \A a, b \in 1 .. N : a # b =>
          \A i \in DOMAIN seqs[a], j \in DOMAIN seqs[b] : seqs[a][i] # seqs[b][j]
    <2>1. ASSUME NEW a \in 1 .. N, NEW b \in 1 .. N, a # b
          PROVE  \A i \in DOMAIN seqs[a], j \in DOMAIN seqs[b] : seqs[a][i] # seqs[b][j]
        <3>1. a - 1 # b - 1
            BY <2>1
        <3>2. B(a - 1) # B(b - 1) /\ B(a - 1) \in DOMAIN Starts(ls, m)
              /\ B(b - 1) \in DOMAIN Starts(ls, m)
            BY <1>3, <3>1, StartsOf
        <3>3. seqs[a] = c[B(a - 1)] /\ seqs[b] = c[B(b - 1)]
            OBVIOUS
        <3> HIDE DEF seqs
        <3>4. QED
            BY <3>2, <3>3 DEF Forest
    <2>2. QED
        BY <2>1
<1> HIDE DEF seqs
<1>9. Gathers(met, N, seqs, Hashed(h))
    BY <1>1, <1>5, <1>6, <1>7, <1>8, Flattened
<1>10. ASSUME NEW n \in Hashed(h) PROVE \E k \in DOMAIN met : met[k] = n
    <2>1. PICK b \in Buckets(m) : \E i \in DOMAIN c[B(b)] : c[B(b)][i] = n
        BY HashedNodes
    <2>2. b + 1 \in 1 .. N /\ (b + 1) - 1 = b
        BY <1>1
    <2>3. seqs[b + 1] = c[B(b)]
        BY <2>2 DEF seqs
    <2>4. QED
        BY <1>9, <2>1, <2>2, <2>3 DEF Gathers
<1>11. QED
    BY <1>9, <1>10 DEF Gathers

\* Path q is the chain of the nodes of new bucket b among the first j met.
Rechained(q, g, h, met, size, b, j) ==
    /\ IsPath(g, HeadBefore(h, met, size, b, j + 1), q)
    /\ \A p \in DOMAIN q : \E k \in DOMAIN met :
          k <= j /\ Index(h, met, size, k) = b /\ q[p] = met[k]
    /\ \A k \in DOMAIN met : k <= j /\ Index(h, met, size, k) = b =>
          \E p \in DOMAIN q : q[p] = met[k]

\* From its new head, a chain leads through the nodes of its bucket, last met first.
LEMMA ChainRebuilt ==
    ASSUME NEW g, NEW bs, NEW h, NEW met, NEW size, NEW b, Rehashing(g, bs, h, met, size),
           met \in Seq(DOMAIN h), IsInjective(met),
           \A k \in DOMAIN met : g[met[k]].next =
               HeadBefore(h, met, size, Index(h, met, size, k), k)
    PROVE  \E q : Rechained(q, g, h, met, size, b, Len(met))
<1>1. DOMAIN met = 1 .. Len(met) /\ Len(met) \in Nat
    OBVIOUS
<1> DEFINE T == {j \in Nat : j <= Len(met) => \E q : Rechained(q, g, h, met, size, b, j)}
<1>2. 0 \in T
    <2>1. << >> \in Seq(DOMAIN g) /\ DOMAIN << >> = {}
        OBVIOUS
    <2>2. HeadBefore(h, met, size, b, 1) = Null
        BY HeadSteps
    <2>3. IsPath(g, HeadBefore(h, met, size, b, 1), << >>)
        BY <2>1, <2>2 DEF IsPath, IsInjective
    <2>4. Rechained(<< >>, g, h, met, size, b, 0)
        BY <1>1, <2>1, <2>3 DEF Rechained
    <2>5. QED
        BY <2>4
<1>3. ASSUME NEW i \in Nat, i \in T PROVE i + 1 \in T
    <2>1. SUFFICES ASSUME i + 1 <= Len(met)
                   PROVE  \E q : Rechained(q, g, h, met, size, b, i + 1)
        OBVIOUS
    <2> DEFINE j == i + 1
    <2>2. PICK q : Rechained(q, g, h, met, size, b, i)
        BY <1>1, <1>3, <2>1
    <2>3. j \in DOMAIN met /\ \A k \in DOMAIN met : k <= j <=> k <= i \/ k = j
        BY <1>1, <2>1
    <2>4. HeadBefore(h, met, size, b, j + 1) =
              IF Index(h, met, size, j) = b THEN met[j] ELSE HeadBefore(h, met, size, b, j)
        <3>1. \A k \in DOMAIN met :
                 HeadBefore(h, met, size, b, k + 1) =
                    IF Index(h, met, size, k) = b THEN met[k]
                    ELSE HeadBefore(h, met, size, b, k)
            BY HeadSteps
        <3> HIDE DEF j
        <3>2. QED
            BY <2>3, <3>1
    <2>5. CASE Index(h, met, size, j) # b
        <3>1. HeadBefore(h, met, size, b, j + 1) = HeadBefore(h, met, size, b, i + 1)
            BY <2>4, <2>5
        <3>2. Rechained(q, g, h, met, size, b, j)
            <4> HIDE DEF j
            <4>1. QED
                BY <2>2, <2>3, <2>5, <3>1 DEF Rechained
        <3>3. QED
            BY <3>2
    <2>6. CASE Index(h, met, size, j) = b
        <3> DEFINE longer == << met[j] >> \o q
        <3>1. met[j] \in DOMAIN g /\ g[met[j]].next = HeadBefore(h, met, size, b, i + 1)
            BY <2>3, <2>6 DEF Rehashing
        <3>2. \A p \in DOMAIN q : q[p] # met[j]
            <4>1. \A k \in DOMAIN met : k <= i => k # j
                BY <1>1
            <4> HIDE DEF j
            <4>2. \A k \in DOMAIN met : k <= i => met[k] # met[j]
                BY <2>3, <4>1 DEF IsInjective
            <4>3. QED
                BY <2>2, <4>2 DEF Rechained
        <3>3. IsPath(g, HeadBefore(h, met, size, b, i + 1), q)
            BY <2>2 DEF Rechained
        <3>4. IsPath(g, met[j], longer)
            BY <3>1, <3>2, <3>3, PathPushed
        <3>5. /\ \A p \in DOMAIN longer :
                    \/ p = 1 /\ longer[p] = met[j]
                    \/ p - 1 \in DOMAIN q /\ longer[p] = q[p - 1]
              /\ 1 \in DOMAIN longer /\ longer[1] = met[j]
              /\ \A p \in DOMAIN q : p + 1 \in DOMAIN longer /\ longer[p + 1] = q[p]
            <4>1. q \in Seq(DOMAIN g)
                BY <3>3 DEF IsPath
            <4> DEFINE node == met[j]
            <4>2. node \in DOMAIN g
                BY <3>1
            <4> HIDE DEF node
            <4> DEFINE front == << node >>
            <4>3. front \in Seq(DOMAIN g) /\ Len(front) = 1 /\ front[1] = node
                BY <4>2
            <4>4. longer = front \o q
                BY DEF node
            <4> HIDE DEF front, longer
            <4>5. /\ longer \in Seq(DOMAIN g) /\ Len(longer) = Len(front) + Len(q)
                  /\ \A p \in 1 .. Len(front) + Len(q) :
                        longer[p] = IF p <= Len(front) THEN front[p] ELSE q[p - Len(front)]
                <5>1. front \in Seq(DOMAIN g)
                    BY <4>3
                <5>2. QED
                    BY <4>1, <4>4, <5>1, ConcatProperties
            <4>6. Len(q) \in Nat /\ DOMAIN q = 1 .. Len(q) /\ DOMAIN longer = 1 .. 1 + Len(q)
                BY <4>1, <4>3, <4>5
            <4>7. \A p \in DOMAIN longer :
                     \/ p = 1 /\ longer[p] = node
                     \/ p - 1 \in DOMAIN q /\ longer[p] = q[p - 1]
                BY <4>3, <4>5, <4>6
            <4>8. 1 \in DOMAIN longer /\ longer[1] = node
                BY <4>3, <4>5, <4>6
            <4>9. \A p \in DOMAIN q : p + 1 \in DOMAIN longer /\ longer[p + 1] = q[p]
                BY <4>3, <4>5, <4>6
            <4>10. QED
                BY <4>7, <4>8, <4>9 DEF node
        <3> HIDE DEF longer
        <3>6. HeadBefore(h, met, size, b, j + 1) = met[j]
            BY <2>4, <2>6
        <3> HIDE DEF j
        <3>7. ASSUME NEW p \in DOMAIN longer
              PROVE  \E k \in DOMAIN met :
                        k <= j /\ Index(h, met, size, k) = b /\ longer[p] = met[k]
            <4>1. CASE longer[p] = met[j]
                BY <2>3, <2>6, <4>1
            <4>2. CASE p - 1 \in DOMAIN q /\ longer[p] = q[p - 1]
                <5>1. PICK k \in DOMAIN met :
                          k <= i /\ Index(h, met, size, k) = b /\ q[p - 1] = met[k]
                    BY <2>2, <4>2 DEF Rechained
                <5>2. QED
                    BY <2>3, <4>2, <5>1
            <4>3. QED
                BY <3>5, <4>1, <4>2
        <3>8. ASSUME NEW k \in DOMAIN met, k <= j, Index(h, met, size, k) = b
              PROVE  \E p \in DOMAIN longer : longer[p] = met[k]
            <4>1. CASE k = j
                BY <3>5, <4>1
            <4>2. CASE k <= i
                BY <2>2, <3>5, <3>8, <4>2 DEF Rechained
            <4>3. QED
                BY <2>3, <3>8, <4>1, <4>2
        <3>9. Rechained(longer, g, h, met, size, b, j)
            BY <3>4, <3>6, <3>7, <3>8 DEF Rechained
        <3>10. QED
            BY <3>9 DEF j
    <2>7. QED
        BY <2>5, <2>6
<1>4. Len(met) \in T
    <2> HIDE DEF T
    <2>1. QED
        BY <1>1, <1>2, <1>3, Everywhere
<1>5. QED
    BY <1>1, <1>4

\* m2 is the map with another array of buckets.
Resized(m2, m, size, bs) ==
    m2 = [num_buckets |-> size, entries |-> m.entries, buckets |-> bs]

\* The lists and the map m2 are kept in heap g, which has the data of heap h.
TableKept(g, ls, m2, c, h) ==
    /\ \E c2 : Kept(g, ls, m2, c2) /\ \A l \in Lists : c2[L(l)] = c[L(l)]
    /\ m2 # Null
    /\ DOMAIN g = DOMAIN h /\ Hashed(g) = Hashed(h)
    /\ \A n \in DOMAIN h : g[n].data = h[n].data

\* The larger table has the nodes of the map, in other chains.
LEMMA TableReplaced ==
    ASSUME NEW h, NEW ls, NEW m, NEW c, Kept(h, ls, m, c), m # Null, NEW size \in Sizes,
           NEW met, met = Met(h, m.buckets),
           NEW g, NEW bs, Rehashing(g, bs, h, met, size),
           NEW m2, Resized(m2, m, size, bs)
    PROVE  TableKept(g, ls, m2, c, h)
<1>1. /\ Forest(h, Starts(ls, m), c) /\ HeapTyped(h) /\ TailsKept(ls, c)
      /\ DataKept(h, m, c) /\ KeysApart(h) /\ MapKept(h, m)
      /\ ls \in [Lists -> ListRecords \cup {Null}] /\ DOMAIN h \subseteq Nodes
    BY DEF Kept, Forest
<1>2. /\ met \in Seq(Hashed(h)) /\ IsInjective(met)
      /\ \A n \in Hashed(h) : \E k \in DOMAIN met : met[k] = n
    BY <1>1, MetNodes
<1>3. /\ \A k \in DOMAIN met : met[k] \in Hashed(h) /\ met[k] \in DOMAIN h /\ k <= Len(met)
      /\ met \in Seq(DOMAIN h)
    <2>1. \A n \in Hashed(h) : n \in DOMAIN h
        BY DEF Hashed
    <2>2. QED
        BY <1>2, <2>1
<1>4. /\ DOMAIN g = DOMAIN h /\ g = [n \in DOMAIN g |-> g[n]]
      /\ \A k \in DOMAIN met :
            g[met[k]] = [h[met[k]] EXCEPT !.next =
                            HeadBefore(h, met, size, Index(h, met, size, k), k)]
      /\ \A n \in DOMAIN h : n \notin Hashed(h) => g[n] = h[n]
      /\ \A b \in 0 .. size - 1 : bs[b] = HeadBefore(h, met, size, b, Len(met) + 1)
      /\ DOMAIN bs = 0 .. size - 1 /\ bs = [b \in 0 .. size - 1 |-> bs[b]]
    BY <1>3 DEF Rehashing
<1>5. /\ \A k \in DOMAIN met :
            g[met[k]].next = HeadBefore(h, met, size, Index(h, met, size, k), k)
      /\ \A n \in DOMAIN h : g[n].data = h[n].data
      /\ \A n \in DOMAIN h : g[n] = [data |-> g[n].data, next |-> g[n].next]
    <2>1. ASSUME NEW n \in DOMAIN h PROVE h[n] = [data |-> h[n].data, next |-> h[n].next]
        BY <1>1 DEF HeapTyped
    <2>2. ASSUME NEW k \in DOMAIN met
          PROVE  /\ g[met[k]].next = HeadBefore(h, met, size, Index(h, met, size, k), k)
                 /\ g[met[k]].data = h[met[k]].data
                 /\ g[met[k]] = [data |-> g[met[k]].data, next |-> g[met[k]].next]
        <3> DEFINE next == HeadBefore(h, met, size, Index(h, met, size, k), k)
        <3>1. g[met[k]] = [h[met[k]] EXCEPT !.next = next] /\ met[k] \in DOMAIN h
            BY <1>3, <1>4
        <3> HIDE DEF next
        <3>2. h[met[k]] = [data |-> h[met[k]].data, next |-> h[met[k]].next]
            BY <2>1, <3>1
        <3>3. g[met[k]] = [data |-> h[met[k]].data, next |-> next]
            BY <3>1, <3>2
        <3>4. QED
            BY <3>3 DEF next
    <2>3. ASSUME NEW n \in DOMAIN h
          PROVE  g[n].data = h[n].data /\ g[n] = [data |-> g[n].data, next |-> g[n].next]
        <3>1. CASE n \in Hashed(h)
            BY <1>2, <2>2, <3>1
        <3>2. CASE n \notin Hashed(h)
            BY <1>4, <2>1, <3>2
        <3>3. QED
            BY <3>1, <3>2
    <2>4. QED
        BY <2>2, <2>3
<1>6. Hashed(g) = Hashed(h) /\ \A n : KeyOf(g, n) = KeyOf(h, n) \/ n \notin DOMAIN h
    BY <1>4, <1>5 DEF Hashed, KeyOf
<1> DEFINE chain(b) == CHOOSE q : Rechained(q, g, h, met, size, b, Len(met))
<1>7. \A b : Rechained(chain(b), g, h, met, size, b, Len(met))
    <2>1. ASSUME NEW b PROVE \E q : Rechained(q, g, h, met, size, b, Len(met))
        BY <1>2, <1>3, <1>5, ChainRebuilt
    <2>2. QED
        BY <2>1
<1> HIDE DEF chain
<1>8. /\ m2.num_buckets = size /\ m2.entries = m.entries /\ m2.buckets = bs
      /\ m2 = [num_buckets |-> size, entries |-> m.entries, buckets |-> bs]
    BY DEF Resized
<1>9. size \in Nat \ {0} /\ DOMAIN bs = 0 .. size - 1
    BY <1>4 DEF Sizes
<1>10. \A b \in 0 .. size - 1 : IsPath(g, bs[b], chain(b)) /\ bs[b] \in Pointers
    <2>1. ASSUME NEW b \in 0 .. size - 1 PROVE IsPath(g, bs[b], chain(b))
        BY <1>4, <1>7 DEF Rechained
    <2>2. ASSUME NEW b \in 0 .. size - 1 PROVE bs[b] \in Pointers
        <3> DEFINE q == chain(b)
        <3>1. q \in Seq(DOMAIN g) /\ bs[b] = IF q = << >> THEN Null ELSE q[1]
            BY <2>1 DEF IsPath
        <3>2. q # << >> => q[1] \in Nodes
            BY <1>1, <1>4, <3>1
        <3>3. QED
            BY <3>1, <3>2 DEF Pointers
    <2>3. QED
        BY <2>1, <2>2
<1>11. m2 \in MapsOf(size) /\ m2 # Null
    <2>1. bs \in [0 .. size - 1 -> Pointers]
        BY <1>4, <1>10
    <2>2. m.entries \in 0 .. Cardinality(Nodes)
        BY <1>1 DEF MapKept, MapsOf
    <2>3. m2 \in MapsOf(size)
        BY <1>8, <2>1, <2>2 DEF MapsOf
    <2>4. QED
        BY <2>3, DataStructsAssumption
<1>12. Buckets(m2) = 0 .. size - 1
    BY <1>8, <1>9, <1>11 DEF Buckets
<1> DEFINE c2 == [s \in DOMAIN Starts(ls, m2) |-> IF s[1] = "list" THEN c[s] ELSE chain(s[2])]
<1>13. /\ \A l \in Lists : c2[L(l)] = c[L(l)]
       /\ \A b \in 0 .. size - 1 : c2[B(b)] = chain(b)
    <2>1. \A l \in Lists : L(l) \in DOMAIN Starts(ls, m2) /\ L(l)[1] = "list"
        BY StartsOf DEF L
    <2>2. \A b \in 0 .. size - 1 :
              B(b) \in DOMAIN Starts(ls, m2) /\ B(b)[1] # "list" /\ B(b)[2] = b
        BY <1>12, StartsOf DEF B
    <2>3. QED
        BY <2>1, <2>2
<1>14. c2 = [s \in DOMAIN Starts(ls, m2) |-> c2[s]]
    OBVIOUS
<1> HIDE DEF c2
<1>15. \A l \in Lists : \A i \in DOMAIN c[L(l)] :
           /\ c[L(l)][i] \in DOMAIN h /\ c[L(l)][i] \notin Hashed(h)
           /\ h[c[L(l)][i]].data \in Things
    <2>1. ASSUME NEW l \in Lists, NEW i \in DOMAIN c[L(l)]
          PROVE  /\ c[L(l)][i] \in DOMAIN h /\ c[L(l)][i] \notin Hashed(h)
                 /\ h[c[L(l)][i]].data \in Things
        <3>1. c[L(l)][i] \in DOMAIN h /\ h[c[L(l)][i]].data \in Things
            BY <1>1, StartsOf, ForestNodes DEF DataKept
        <3>2. QED
            BY <3>1, DataStructsAssumption DEF Hashed
    <2>2. QED
        BY <2>1
<1>16. \A b \in 0 .. size - 1 : \A p \in DOMAIN chain(b) : \E k \in DOMAIN met :
           Index(h, met, size, k) = b /\ chain(b)[p] = met[k]
    BY <1>7 DEF Rechained
<1>17. Forest(g, Starts(ls, m2), c2)
    <2>1. \A l \in Lists : IsPath(g, Starts(ls, m2)[L(l)], c2[L(l)])
        <3>1. ASSUME NEW l \in Lists PROVE IsPath(g, Starts(ls, m2)[L(l)], c2[L(l)])
            <4>1. Starts(ls, m2)[L(l)] = Starts(ls, m)[L(l)]
                BY StartsOf
            <4>2. IsPath(h, Starts(ls, m)[L(l)], c[L(l)])
                BY <1>1, StartsOf DEF Forest
            <4>3. IsPath(g, Starts(ls, m)[L(l)], c[L(l)])
                BY <1>4, <1>15, <4>2, PathKept
            <4>4. QED
                BY <1>13, <4>1, <4>3
        <3>2. QED
            BY <3>1
    <2>2. \A b \in 0 .. size - 1 : IsPath(g, Starts(ls, m2)[B(b)], c2[B(b)])
        <3>1. ASSUME NEW b \in 0 .. size - 1 PROVE IsPath(g, Starts(ls, m2)[B(b)], c2[B(b)])
            <4>1. \A k \in Buckets(m2) : Starts(ls, m2)[B(k)] = m2.buckets[k]
                BY StartsOf
            <4>2. Starts(ls, m2)[B(b)] = bs[b]
                BY <1>8, <1>12, <4>1
            <4>3. QED
                BY <1>10, <1>13, <4>2
        <3>2. QED
            BY <3>1
    <2>3. \A s \in DOMAIN Starts(ls, m2) :
              (\E l \in Lists : s = L(l)) \/ (\E b \in 0 .. size - 1 : s = B(b))
        <3>1. \A s \in DOMAIN Starts(ls, m2) :
                 (\E l \in Lists : s = L(l)) \/ (\E b \in Buckets(m2) : s = B(b))
            BY StartsOf
        <3>2. QED
            BY <1>12, <3>1
    <2>4. \A l, k \in Lists : l # k =>
              \A i \in DOMAIN c[L(l)], j \in DOMAIN c[L(k)] : c[L(l)][i] # c[L(k)][j]
        BY <1>1, StartsOf DEF Forest
    <2>5. \A l \in Lists, b \in 0 .. size - 1 :
              \A i \in DOMAIN c[L(l)], j \in DOMAIN chain(b) : c[L(l)][i] # chain(b)[j]
        <3>1. \A b \in 0 .. size - 1 : \A j \in DOMAIN chain(b) : chain(b)[j] \in Hashed(h)
            BY <1>3, <1>16
        <3>2. QED
            BY <1>15, <3>1
    <2>6. ASSUME NEW a \in 0 .. size - 1, NEW b \in 0 .. size - 1, a # b,
                 NEW i \in DOMAIN chain(a), NEW j \in DOMAIN chain(b)
          PROVE  chain(a)[i] # chain(b)[j]
        <3>1. PICK k \in DOMAIN met : Index(h, met, size, k) = a /\ chain(a)[i] = met[k]
            BY <1>16
        <3>2. PICK n \in DOMAIN met : Index(h, met, size, n) = b /\ chain(b)[j] = met[n]
            BY <1>16
        <3>3. k # n
            BY <2>6, <3>1, <3>2
        <3>4. QED
            BY <1>2, <3>1, <3>2, <3>3 DEF IsInjective
    <2>7. ASSUME NEW s \in DOMAIN Starts(ls, m2), NEW t \in DOMAIN Starts(ls, m2), s # t,
                 NEW i \in DOMAIN c2[s], NEW j \in DOMAIN c2[t]
          PROVE  c2[s][i] # c2[t][j]
        <3>1. CASE (\E l \in Lists : s = L(l)) /\ (\E l \in Lists : t = L(l))
            BY <1>13, <2>4, <2>7, <3>1
        <3>2. CASE (\E l \in Lists : s = L(l)) /\ (\E b \in 0 .. size - 1 : t = B(b))
            BY <1>13, <2>5, <2>7, <3>2
        <3>3. CASE (\E b \in 0 .. size - 1 : s = B(b)) /\ (\E l \in Lists : t = L(l))
            BY <1>13, <2>5, <2>7, <3>3
        <3>4. CASE (\E b \in 0 .. size - 1 : s = B(b)) /\ (\E b \in 0 .. size - 1 : t = B(b))
            BY <1>13, <2>6, <2>7, <3>4
        <3>5. QED
            BY <2>3, <3>1, <3>2, <3>3, <3>4
    <2>8. ASSUME NEW n \in DOMAIN g
          PROVE  \E s \in DOMAIN Starts(ls, m2) : \E i \in DOMAIN c2[s] : c2[s][i] = n
        <3>1. PICK s \in DOMAIN Starts(ls, m) : \E i \in DOMAIN c[s] : c[s][i] = n
            BY <1>1, <1>4 DEF Forest
        <3>2. CASE \E l \in Lists : s = L(l)
            BY <1>13, <3>1, <3>2, StartsOf
        <3>3. CASE \E b \in Buckets(m) : s = B(b)
            <4>1. n \in Hashed(h)
                BY <1>1, <3>1, <3>3, HashedNodes
            <4>2. PICK k \in DOMAIN met : met[k] = n
                BY <1>2, <4>1
            <4> DEFINE b == Index(h, met, size, k)
            <4>3. b \in 0 .. size - 1
                <5>1. KeyOf(h, n) \in Keys
                    BY <4>1 DEF Hashed, KeyOf
                <5>2. Hash[KeyOf(h, n)] \in Nat
                    BY <5>1, DataStructsAssumption
                <5>3. QED
                    BY <1>9, <4>2, <5>2 DEF Index, hash
            <4>4. \E p \in DOMAIN chain(b) : chain(b)[p] = n
                BY <1>3, <1>7, <4>2 DEF Rechained
            <4> HIDE DEF b
            <4>5. B(b) \in DOMAIN Starts(ls, m2) /\ c2[B(b)] = chain(b)
                BY <1>12, <1>13, <4>3, StartsOf
            <4>6. QED
                BY <4>4, <4>5
        <3>4. QED
            BY <3>2, <3>3, StartsOf
    <2>9. \A s \in DOMAIN Starts(ls, m2) : IsPath(g, Starts(ls, m2)[s], c2[s])
        BY <2>1, <2>2, <2>3
    <2>10. QED
        BY <1>1, <1>4, <1>14, <2>7, <2>8, <2>9 DEF Forest
<1>18. HeapTyped(g)
    <2>1. ASSUME NEW n \in DOMAIN h PROVE g[n].next \in Pointers /\ h[n].data \in Things \cup (Keys \X Things)
        <3>1. PICK s \in DOMAIN Starts(ls, m2) : \E i \in DOMAIN c2[s] : c2[s][i] = n
            BY <1>4, <1>17 DEF Forest
        <3>2. PICK i \in DOMAIN c2[s] : c2[s][i] = n
            BY <3>1
        <3>3. IsPath(g, Starts(ls, m2)[s], c2[s])
            BY <1>17 DEF Forest
        <3> DEFINE q == c2[s]
        <3>4. q \in Seq(DOMAIN g) /\ g[n].next = IF i = Len(q) THEN Null ELSE q[i + 1]
            BY <3>2, <3>3 DEF IsPath
        <3>5. i # Len(q) => i + 1 \in DOMAIN q
            BY <3>2, <3>4
        <3> HIDE DEF q
        <3>6. i # Len(q) => q[i + 1] \in Nodes
            BY <1>1, <1>4, <3>4, <3>5
        <3>7. g[n].next \in Pointers
            BY <3>4, <3>6 DEF Pointers
        <3>8. QED
            BY <1>1, <3>7 DEF HeapTyped
    <2>2. ASSUME NEW n \in DOMAIN h
          PROVE  g[n] \in [data : Things \cup (Keys \X Things), next : Pointers]
        <3>1. g[n] = [data |-> g[n].data, next |-> g[n].next]
            BY <1>5
        <3>2. g[n].data \in Things \cup (Keys \X Things) /\ g[n].next \in Pointers
            BY <1>5, <2>1
        <3>3. QED
            BY <3>1, <3>2
    <2>3. QED
        BY <1>4, <2>2 DEF HeapTyped
<1>19. TailsKept(ls, c2)
    BY <1>1, <1>13 DEF TailsKept
<1>20. DataKept(g, m2, c2)
    <2>1. \A l \in Lists : \A i \in DOMAIN c2[L(l)] : g[c2[L(l)][i]].data \in Things
        BY <1>5, <1>13, <1>15
    <2>2. ASSUME NEW b \in 0 .. size - 1, NEW i \in DOMAIN chain(b)
          PROVE  /\ g[chain(b)[i]].data \in Keys \X Things
                 /\ hash(size, KeyOf(g, chain(b)[i])) = b
        <3>1. PICK k \in DOMAIN met : Index(h, met, size, k) = b /\ chain(b)[i] = met[k]
            BY <1>16
        <3>2. met[k] \in Hashed(h) /\ met[k] \in Hashed(g) /\ met[k] \in DOMAIN h
            BY <1>3, <1>6
        <3>3. KeyOf(g, met[k]) = KeyOf(h, met[k])
            BY <1>6, <3>2
        <3>4. QED
            BY <3>1, <3>2, <3>3 DEF Hashed, Index
    <2>3. QED
        BY <1>8, <1>12, <1>13, <2>1, <2>2 DEF DataKept
<1>21. KeysApart(g)
    <2>1. \A n \in Hashed(h) : n \in DOMAIN h
        BY DEF Hashed
    <2>2. QED
        BY <1>1, <1>6, <2>1 DEF KeysApart
<1>22. MapKept(g, m2)
    BY <1>1, <1>6, <1>8, <1>11 DEF MapKept
<1>23. Kept(g, ls, m2, c2)
    BY <1>1, <1>17, <1>18, <1>19, <1>20, <1>21, <1>22 DEF Kept
<1>24. QED
    BY <1>4, <1>5, <1>6, <1>11, <1>13, <1>23 DEF TableKept

-----------------------------------------------------------------------------
(* The calls *)

\* Each call leaves paths through the heap, and changes them as it should.
LEMMA CreateListKeeps ==
    ASSUME NEW c, Kept(heap, list, hm, c), NEW l \in Lists, create_list(l)
    PROVE  Kept(heap', list', hm', c)
<1>1. Kept(heap, [list EXCEPT ![l] = [head |-> Null, tail |-> Null]], hm, c)
    BY ListCreated DEF create_list
<1>2. QED
    BY <1>1 DEF create_list

LEMMA FreeListKeeps ==
    ASSUME NEW c, Kept(heap, list, hm, c), NEW l \in Lists, free_list(l)
    PROVE  Kept(heap', list', hm', [c EXCEPT ![L(l)] = << >>])
<1>1. Kept(Without(heap, Range(Chain(list[l].head))), [list EXCEPT ![l] = Null], hm,
           [c EXCEPT ![L(l)] = << >>])
    BY ListFreed DEF free_list
<1>2. QED
    BY <1>1 DEF free_list

LEMMA InsertHeadKeeps ==
    ASSUME NEW c, Kept(heap, list, hm, c), NEW l \in Lists, NEW thing \in Things,
           insert_head(l, thing)
    PROVE  \E n \in FreeNodes :
              /\ Kept(heap', list', hm', [c EXCEPT ![L(l)] = << n >> \o c[L(l)]])
              /\ heap' = NewNode(n, thing, list[l].head)
<1>1. PICK n \in FreeNodes :
          /\ heap' = NewNode(n, thing, list[l].head)
          /\ list' = [list EXCEPT ![l].head = n,
                                  ![l].tail = IF list[l].head = Null THEN n ELSE @]
    BY DEF insert_head
<1>2. Kept(NewNode(n, thing, list[l].head),
           [list EXCEPT ![l].head = n,
                        ![l].tail = IF list[l].head = Null THEN n ELSE @],
           hm, [c EXCEPT ![L(l)] = << n >> \o c[L(l)]])
    BY HeadGiven DEF insert_head
<1>3. QED
    BY <1>1, <1>2 DEF insert_head

LEMMA InsertTailKeeps ==
    ASSUME NEW c, Kept(heap, list, hm, c), NEW l \in Lists, NEW thing \in Things,
           insert_tail(l, thing)
    PROVE  \E n \in FreeNodes :
              /\ Kept(heap', list', hm', [c EXCEPT ![L(l)] = Append(c[L(l)], n)])
              /\ Becomes(WithTail(l, thing, n))
<1>1. PICK n \in FreeNodes : Becomes(WithTail(l, thing, n))
    BY DEF insert_tail
<1>2. Kept(WithTail(l, thing, n)[1], WithTail(l, thing, n)[2], hm,
           [c EXCEPT ![L(l)] = Append(c[L(l)], n)])
    BY TailGiven DEF insert_tail, Appended
<1>3. heap' = WithTail(l, thing, n)[1] /\ list' = WithTail(l, thing, n)[2] /\ hm' = hm
    BY <1>1 DEF insert_tail, Becomes
<1>4. Kept(heap', list', hm', [c EXCEPT ![L(l)] = Append(c[L(l)], n)])
    BY <1>2, <1>3
<1>5. QED
    BY <1>1, <1>4

LEMMA DeleteHeadKeeps ==
    ASSUME NEW c, Kept(heap, list, hm, c), NEW l \in Lists, ~IsEmpty(l), delete_head(l)
    PROVE  /\ TakenOut(<< heap', list' >>, heap, list, hm, c, l, 1) /\ hm' = hm
           /\ c[L(l)] # << >> /\ result' = heap[c[L(l)][1]].data
<1> DEFINE temp == c[L(l)][1]
           pair == Unlinked(heap, list, l, Null, temp)
<1>1. list[l] # Null /\ list[l].head # Null
    BY DEF IsEmpty
<1>2. /\ list[l].head = temp /\ c[L(l)] # << >> /\ 1 \in DOMAIN c[L(l)] /\ list[l] \in ListRecords
      /\ list[l].tail = c[L(l)][Len(c[L(l)])] /\ Len(c[L(l)]) \in Nat \ {0}
      /\ DOMAIN c[L(l)] = 1 .. Len(c[L(l)])
      /\ \A i, j \in DOMAIN c[L(l)] : c[L(l)][i] = c[L(l)][j] => i = j
      /\ \A i \in DOMAIN c[L(l)] : c[L(l)][i] \in DOMAIN heap
      /\ Null \notin DOMAIN heap
    BY <1>1, ListNodes
<1>3. TakenOut(pair, heap, list, hm, c, l, 1)
    <2>1. Null = IF 1 = 1 THEN Null ELSE c[L(l)][1 - 1]
        OBVIOUS
    <2>2. TakenOut(Unlinked(heap, list, l, Null, c[L(l)][1]), heap, list, hm, c, l, 1)
        BY <1>1, <1>2, <2>1, NodeUnlinked
    <2>3. QED
        BY <2>2
<1>4. /\ heap' = Without(heap, {temp}) /\ result' = heap[temp].data /\ hm' = hm
      /\ list' = [list EXCEPT ![l].head = heap[temp].next,
                              ![l].tail = IF heap[temp].next = Null THEN Null ELSE @]
    BY <1>2 DEF delete_head
<1>5. heap[temp].next = IF 1 = Len(c[L(l)]) THEN Null ELSE c[L(l)][2]
    <2>1. IsPath(heap, Starts(list, hm)[L(l)], c[L(l)])
        BY StartsOf DEF Kept, Forest
    <2> DEFINE path == c[L(l)]
    <2>2. 1 \in DOMAIN path /\ IsPath(heap, Starts(list, hm)[L(l)], path)
        BY <1>2, <2>1
    <2>3. temp = path[1]
        OBVIOUS
    <2> HIDE DEF path, temp
    <2>4. heap[path[1]].next = IF 1 = Len(path) THEN Null ELSE path[1 + 1]
        BY <2>2 DEF IsPath
    <2>5. heap[temp].next = IF 1 = Len(path) THEN Null ELSE path[2]
        BY <2>3, <2>4
    <2>6. QED
        BY <2>5 DEF path
<1>6. heap[temp].next = Null <=> temp = list[l].tail
    <2>1. CASE Len(c[L(l)]) = 1
        BY <1>2, <1>5, <2>1
    <2>2. CASE Len(c[L(l)]) # 1
        <3> DEFINE length == Len(c[L(l)])
        <3>1. length \in Nat \ {0} /\ length # 1 /\ DOMAIN c[L(l)] = 1 .. length
            BY <1>2, <2>2
        <3> HIDE DEF length
        <3>2. 2 \in DOMAIN c[L(l)] /\ length \in DOMAIN c[L(l)]
            BY <3>1
        <3>3. 2 \in DOMAIN c[L(l)] /\ Len(c[L(l)]) \in DOMAIN c[L(l)]
            BY <3>2 DEF length
        <3>4. heap[temp].next # Null
            BY <1>2, <1>5, <2>2, <3>3
        <3>5. temp # list[l].tail
            BY <1>2, <2>2, <3>3
        <3>6. QED
            BY <3>4, <3>5
    <2>3. QED
        BY <2>1, <2>2
<1>7. heap' = pair[1] /\ list' = pair[2]
    <2>1. pair = << Without(heap, {temp}),
                    [list EXCEPT ![l] = [head |-> heap[temp].next,
                        tail |-> IF temp = list[l].tail THEN Null ELSE list[l].tail]] >>
        BY <1>2 DEF Unlinked
    <2>2. list \in [Lists -> ListRecords \cup {Null}]
        BY DEF Kept
    <2> DEFINE next == heap[temp].next
               tail == IF temp = list[l].tail THEN Null ELSE list[l].tail
    <2>3. list' = [list EXCEPT ![l].head = next, ![l].tail = tail]
        BY <1>4, <1>6
    <2>4. pair = << Without(heap, {temp}), [list EXCEPT ![l] = [head |-> next, tail |-> tail]] >>
        BY <2>1
    <2> HIDE DEF next, tail, pair
    <2>5. /\ list' = [k \in Lists |-> list'[k]] /\ \A k \in Lists : k # l => list'[k] = list[k]
          /\ list'[l] = [head |-> next, tail |-> tail]
        <3>1. list[l] = [head |-> list[l].head, tail |-> list[l].tail]
            BY <1>2 DEF ListRecords
        <3>2. QED
            BY <2>2, <2>3, <3>1
    <2> DEFINE after == [list EXCEPT ![l] = [head |-> next, tail |-> tail]]
    <2>6. /\ after = [k \in Lists |-> after[k]] /\ \A k \in Lists : k # l => after[k] = list[k]
          /\ after[l] = [head |-> next, tail |-> tail]
        BY <2>2
    <2> HIDE DEF after
    <2>7. list' = after
        BY <2>5, <2>6
    <2>8. list' = [list EXCEPT ![l] = [head |-> next, tail |-> tail]]
        BY <2>7 DEF after
    <2>9. QED
        BY <1>4, <2>8, <2>4
<1> HIDE DEF pair
<1>8. TakenOut(<< heap', list' >>, heap, list, hm, c, l, 1)
    BY <1>3, <1>7 DEF TakenOut
<1>9. QED
    BY <1>2, <1>4, <1>8

\* A function with one other value.
SetTo(after, before, l, value) == after = [before EXCEPT ![l] = value]

\* A node moved: appended to one list and then taken out of another, or of the same.
LEMMA MoveKeeps ==
    ASSUME NEW c, Kept(heap, list, hm, c), NEW from \in Lists, NEW to \in Lists,
           NEW k \in Nat, Move(from, to, k)
    PROVE  /\ k \in DOMAIN c[L(from)] /\ list[from] # Null /\ list[to] # Null
           /\ \E n \in FreeNodes : \E more, c1 :
                 /\ Appended(more, c, to, heap[c[L(from)][k]].data, n)
                 /\ SetTo(c1, c, L(to), Append(c[L(to)], n))
                 /\ TakenOut(<< heap', list' >>, more[1], more[2], hm, c1, from, k)
<1> DEFINE nodes == c[L(from)]
           ptr == nodes[k]
           thing == heap[ptr].data
           prev_ptr == IF k = 1 THEN Null ELSE nodes[k - 1]
<1>1. list[from] # Null /\ list[to] # Null
    BY DEF Move
<1>2. /\ Chain(list[from].head) = nodes /\ nodes \in Seq(DOMAIN heap)
      /\ \A i \in DOMAIN nodes : nodes[i] \in DOMAIN heap /\ heap[nodes[i]].data \in Things
    BY <1>1, ListNodes DEF Chain
<1> HIDE DEF nodes
<1>3. k \in DOMAIN nodes
    BY <1>2 DEF Move
<1>4. PICK n \in FreeNodes :
          Becomes(Unlinked(WithTail(to, thing, n)[1], WithTail(to, thing, n)[2], from,
                           prev_ptr, ptr))
    BY <1>2 DEF Move
<1>5. thing \in Things
    BY <1>2, <1>3
<1> HIDE DEF thing, ptr, prev_ptr
<1> DEFINE more == WithTail(to, thing, n)
           c1 == [c EXCEPT ![L(to)] = Append(c[L(to)], n)]
<1>6. Appended(more, c, to, thing, n)
    BY <1>1, <1>5, TailGiven
<1>7. Becomes(Unlinked(more[1], more[2], from, prev_ptr, ptr))
    BY <1>4
<1> HIDE DEF more
<1>8. Kept(more[1], more[2], hm, c1) /\ more[2][from] # Null
    BY <1>1, <1>6 DEF Appended
<1>9. \A i \in DOMAIN nodes : i \in DOMAIN c1[L(from)] /\ c1[L(from)][i] = nodes[i]
    <2>1. L(from) \in DOMAIN c
        BY StartsOf DEF Kept, Forest
    <2>2. CASE from # to
        <3>1. c1[L(from)] = nodes
            BY <2>2, StartsOf DEF nodes
        <3>2. QED
            BY <3>1
    <2>3. CASE from = to
        <3>1. c1[L(from)] = Append(nodes, n)
            BY <2>1, <2>3 DEF nodes
        <3>2. \A i \in DOMAIN nodes : i \in DOMAIN Append(nodes, n) /\ Append(nodes, n)[i] = nodes[i]
            BY <1>2, AppendProperties
        <3>3. QED
            BY <3>1, <3>2
    <2>4. QED
        BY <2>2, <2>3
<1> HIDE DEF c1
<1>10. k \in DOMAIN c1[L(from)] /\ c1[L(from)][k] = ptr
    BY <1>3, <1>9 DEF ptr
<1>11. prev_ptr = IF k = 1 THEN Null ELSE c1[L(from)][k - 1]
    <2>1. k # 1 => k - 1 \in DOMAIN nodes
        BY <1>2, <1>3
    <2>2. QED
        BY <1>9, <2>1 DEF prev_ptr
<1> DEFINE out == Unlinked(more[1], more[2], from, prev_ptr, ptr)
<1>12. TakenOut(out, more[1], more[2], hm, c1, from, k)
    <2>1. TakenOut(Unlinked(more[1], more[2], from, prev_ptr, c1[L(from)][k]),
                   more[1], more[2], hm, c1, from, k)
        BY <1>8, <1>10, <1>11, NodeUnlinked
    <2>2. QED
        BY <1>10, <2>1
<1>13. heap' = out[1] /\ list' = out[2]
    BY <1>7 DEF Becomes
<1> HIDE DEF out
<1>14. TakenOut(<< heap', list' >>, more[1], more[2], hm, c1, from, k)
    BY <1>12, <1>13 DEF TakenOut
<1>15. SetTo(c1, c, L(to), Append(c[L(to)], n))
    BY DEF SetTo, c1
<1>16. QED
    BY <1>1, <1>3, <1>6, <1>14, <1>15 DEF nodes, thing, ptr

LEMMA PutThereKeeps ==
    ASSUME NEW c, Kept(heap, list, hm, c), hm # Null, NEW key \in Keys, NEW value \in Things,
           PutThere(key, value)
    PROVE  /\ Kept(heap', list', hm', c)
           /\ \E n \in Found(key) : /\ heap' = [heap EXCEPT ![n].data = << key, value >>]
                                     /\ n \in Hashed(heap) /\ Hashed(heap') = Hashed(heap)
                                     /\ result' = heap[n].data[2]
<1>1. PICK n \in Found(key) : /\ heap' = [heap EXCEPT ![n].data = << key, value >>]
                              /\ list' = list /\ hm' = hm /\ result' = heap[n].data[2]
    BY DEF PutThere
<1> DEFINE g == [heap EXCEPT ![n].data = << key, value >>]
<1>2. g = [heap EXCEPT ![n].data = << key, value >>]
    OBVIOUS
<1> HIDE DEF g
<1>3. Kept(g, list, hm, c) /\ Hashed(g) = Hashed(heap) /\ n \in Hashed(heap)
    BY <1>2, ValueReplaced
<1>4. heap' = g
    BY <1>1, <1>2
<1>5. Kept(heap', list', hm', c) /\ Hashed(heap') = Hashed(heap) /\ n \in Hashed(heap)
    BY <1>1, <1>3, <1>4
<1>6. QED
    BY <1>1, <1>5

\* A new pair, and room for it: the table stays at most three quarters full.
LEMMA PutNewKeeps ==
    ASSUME NEW c, Kept(heap, list, hm, c), hm # Null, NEW key \in Keys, NEW value \in Things,
           PutNew(key, value)
    PROVE  /\ \E c2 : Kept(heap', list', hm', c2) /\ \A l \in Lists : c2[L(l)] = c[L(l)]
           /\ hm' # Null /\ 4 * hm'.entries <= 3 * hm'.num_buckets
           /\ \E n \in FreeNodes :
                 /\ Hashed(heap') = Hashed(heap) \cup {n} /\ n \notin DOMAIN heap
                 /\ heap'[n].data = << key, value >>
                 /\ \A o \in DOMAIN heap : heap'[o].data = heap[o].data
<1> DEFINE index == hash(hm.num_buckets, key)
           entries == hm.entries + 1
           size == hash_size(entries * 2)
<1>1. Found(key) = {} /\ list' = list
    BY DEF PutNew
<1>2. PICK n \in FreeNodes :
          IF 4 * entries > 3 * hm.num_buckets
          THEN LET rehashed == Rehashed(NewNode(n, << key, value >>, hm.buckets[index]),
                                        [hm.buckets EXCEPT ![index] = n], size)
               IN  /\ heap' = rehashed[1]
                   /\ hm' = [num_buckets |-> size, entries |-> entries, buckets |-> rehashed[2]]
          ELSE /\ heap' = NewNode(n, << key, value >>, hm.buckets[index])
               /\ hm' = [hm EXCEPT !.entries = entries,
                                   !.buckets = [hm.buckets EXCEPT ![index] = n]]
    BY DEF PutNew
<1> DEFINE more == PairNode(n, key, value)
           m == WithPair(n, key)
           rehashed == Rehashed(more, m.buckets, size)
<1>3. /\ m.entries = entries /\ m.num_buckets = hm.num_buckets
      /\ m.buckets = [hm.buckets EXCEPT ![index] = n]
    BY DEF WithPair
<1>4. IF 4 * entries > 3 * hm.num_buckets
      THEN /\ heap' = rehashed[1]
           /\ hm' = [num_buckets |-> size, entries |-> m.entries, buckets |-> rehashed[2]]
      ELSE heap' = more /\ hm' = m
    <2>1. \A e, bs : [hm EXCEPT !.entries = e, !.buckets = bs] =
                         [num_buckets |-> hm.num_buckets, entries |-> e, buckets |-> bs]
        <3> DEFINE size0 == hm.num_buckets
                   entries0 == hm.entries
                   buckets0 == hm.buckets
        <3>1. hm = [num_buckets |-> size0, entries |-> entries0, buckets |-> buckets0]
            BY MapTyped DEF Kept
        <3> HIDE DEF size0, entries0, buckets0
        <3>2. hm \in [num_buckets : {size0}, entries : {entries0}, buckets : {buckets0}]
            BY <3>1
        <3>3. ASSUME NEW e, NEW bs
              PROVE  [hm EXCEPT !.entries = e, !.buckets = bs] =
                         [num_buckets |-> size0, entries |-> e, buckets |-> bs]
            <4>1. [hm EXCEPT !.entries = e, !.buckets = bs]
                      \in [num_buckets : {size0}, entries : {e}, buckets : {bs}]
                BY <3>2
            <4>2. \A r \in [num_buckets : {size0}, entries : {e}, buckets : {bs}] :
                      r = [num_buckets |-> size0, entries |-> e, buckets |-> bs]
                OBVIOUS
            <4>3. QED
                BY <4>1, <4>2
        <3>4. QED
            BY <3>3 DEF size0
    <2>2. [hm EXCEPT !.entries = entries, !.buckets = [hm.buckets EXCEPT ![index] = n]] = m
        BY <2>1, Zenon DEF WithPair
    <2> HIDE DEF size, entries, index
    <2>3. more = NewNode(n, << key, value >>, hm.buckets[index])
        BY DEF PairNode, index
    <2> HIDE DEF more, m
    <2>4. QED
        BY <1>2, <1>3, <2>2, <2>3
<1>5. /\ hm.num_buckets \in Nat \ {0} /\ hm.entries \in Nat
      /\ hm.buckets[index] \in Pointers
    BY MapTyped DEF Kept
<1>6. PairAdded(more, n, key, value)
    BY <1>5, PairNodeGiven DEF Kept
<1>7. m = WithPair(n, key)
    OBVIOUS
<1> HIDE DEF more, m
<1>8. /\ \E c2 : Kept(more, list, m, c2) /\ \A l \in Lists : c2[L(l)] = c[L(l)]
      /\ m # Null
      /\ Hashed(more) = Hashed(heap) \cup {n} /\ more[n].data = << key, value >>
      /\ DOMAIN more = DOMAIN heap \cup {n} /\ n \notin DOMAIN heap
      /\ \A o \in DOMAIN heap : more[o] = heap[o]
    <2>1. PairKept(more, m, c, n, key, value)
        BY <1>1, <1>6, <1>7, PairGiven
    <2>2. QED
        BY <2>1 DEF PairKept
<1>9. PICK c2 : Kept(more, list, m, c2) /\ \A l \in Lists : c2[L(l)] = c[L(l)]
    BY <1>8
<1>10. m # Null /\ MapKept(more, m) /\ Forest(more, Starts(list, m), c2) /\ DataKept(more, m, c2)
    BY <1>8, <1>9 DEF Kept
<1>11. CASE ~(4 * entries > 3 * hm.num_buckets)
    <2>1. heap' = more /\ hm' = m
        BY <1>4, <1>11
    <2>2. 4 * m.entries <= 3 * m.num_buckets
        BY <1>3, <1>5, <1>11
    <2>3. QED
        BY <1>1, <1>8, <1>9, <1>10, <2>1, <2>2
<1>12. CASE 4 * entries > 3 * hm.num_buckets
    <2>1. heap' = rehashed[1] /\ hm' = [num_buckets |-> size, entries |-> m.entries, buckets |-> rehashed[2]]
        BY <1>4, <1>12
    <2>2. entries \in Nat \ {0} /\ entries <= Cardinality(Nodes) /\ Cardinality(Nodes) \in Nat
        <3>1. IsFiniteSet(Nodes) /\ Cardinality(Nodes) \in Nat
            BY DataStructsAssumption, FS_CardinalityType
        <3>2. m.entries \in 0 .. Cardinality(Nodes)
            BY <1>10 DEF MapKept, MapsOf
        <3>3. QED
            BY <1>3, <1>5, <3>1, <3>2
    <2> HIDE DEF entries
    <2>3. entries * 2 \in Nat \ {0}
        BY <2>2
    <2>4. size \in Nat \ {0} /\ size >= entries * 2 /\ size < 2 * (entries * 2)
        BY <2>3, SizeFound
    <2> HIDE DEF size
    <2>5. size \in Sizes
        BY <2>2, <2>4, DataStructsAssumption DEF Sizes
    <2> DEFINE met == Met(more, m.buckets)
    <2>6. met = Met(more, m.buckets)
        OBVIOUS
    <2> HIDE DEF met
    <2>7. met \in Seq(Hashed(more)) /\ IsInjective(met)
        BY <1>10, <2>6, MetNodes
    <2>8. met \in Seq(DOMAIN more)
        <3>1. \A o \in Hashed(more) : o \in DOMAIN more
            BY DEF Hashed
        <3>2. QED
            BY <2>7, <3>1
    <2>9. Rehashing(rehashed[1], rehashed[2], more, met, size)
        BY <2>6, <2>7, <2>8, RehashedAs
    <2> HIDE DEF rehashed
    <2>10. Resized(hm', m, size, rehashed[2])
        BY <2>1 DEF Resized
    <2>11. /\ \E c3 : Kept(heap', list, hm', c3) /\ \A l \in Lists : c3[L(l)] = c2[L(l)]
           /\ hm' # Null /\ DOMAIN heap' = DOMAIN more /\ Hashed(heap') = Hashed(more)
           /\ \A o \in DOMAIN more : heap'[o].data = more[o].data
        <3>1. Rehashing(heap', rehashed[2], more, met, size)
            BY <2>1, <2>9
        <3>2. TableKept(heap', list, hm', c2, more)
            BY <1>9, <1>10, <2>5, <2>6, <2>10, <3>1, TableReplaced
        <3>3. QED
            BY <3>2 DEF TableKept
    <2>12. hm'.entries = entries /\ hm'.num_buckets = size
        BY <1>3, <2>1
    <2>14. 4 * hm'.entries <= 3 * hm'.num_buckets
        BY <2>2, <2>4, <2>12
    <2>15. QED
        BY <1>1, <1>8, <1>9, <2>11, <2>14
<1>13. QED
    BY <1>11, <1>12

LEMMA CreateMapKeeps ==
    ASSUME NEW c, Kept(heap, list, hm, c), create_map
    PROVE  /\ \E c2 : Kept(heap', list', hm', c2) /\ \A l \in Lists : c2[L(l)] = c[L(l)]
           /\ hm' = NewMap
<1>1. hm = Null /\ heap' = heap /\ list' = list /\ hm' = NewMap
    BY DEF create_map, NewMap
<1> DEFINE m == NewMap
<1>2. m = NewMap
    OBVIOUS
<1> HIDE DEF m
<1>3. \E c2 : Kept(heap, list, m, c2) /\ \A l \in Lists : c2[L(l)] = c[L(l)]
    BY <1>1, <1>2, MapCreated
<1>4. QED
    BY <1>1, <1>2, <1>3

LEMMA FreeMapKeeps ==
    ASSUME NEW c, Kept(heap, list, hm, c), free_map
    PROVE  \E c2 : Kept(heap', list', hm', c2) /\ \A l \in Lists : c2[L(l)] = c[L(l)]
<1>1. hm # Null /\ heap' = Without(heap, Chained) /\ list' = list /\ hm' = Null
    BY DEF free_map, Chained
<1>2. \E c2 : Kept(Without(heap, Chained), list, Null, c2) /\ \A l \in Lists : c2[L(l)] = c[L(l)]
    BY <1>1, MapFreed
<1>3. QED
    BY <1>1, <1>2

LoadKept(m) == m # Null => 4 * m.entries <= 3 * m.num_buckets

\* The lists and the map are paths of a forest, and the table has room.
IInv ==
    /\ \E c : Kept(heap, list, hm, c)
    /\ LoadKept(hm)

\* At first there are no nodes.
LEMMA InitKept == Init => \E c : Kept(heap, list, hm, c)
<1> SUFFICES ASSUME Init PROVE \E c : Kept(heap, list, hm, c)
    OBVIOUS
<1>1. heap = << >> /\ hm = Null /\ list = [l \in Lists |-> Null]
    BY DEF Init
<1>2. DOMAIN heap = {} /\ heap = [n \in DOMAIN heap |-> heap[n]] /\ DOMAIN << >> = {}
    BY <1>1
<1> DEFINE c == [s \in DOMAIN Starts(list, hm) |-> << >>]
<1>3. \A s \in DOMAIN Starts(list, hm) : Starts(list, hm)[s] = Null /\ c[s] = << >>
    <2>1. Buckets(hm) = {}
        BY <1>1 DEF Buckets
    <2>2. QED
        BY <1>1, <2>1, StartsOf
<1>4. \A l \in Lists : c[L(l)] = << >>
    BY StartsOf
<1>5. c = [s \in DOMAIN Starts(list, hm) |-> c[s]]
    OBVIOUS
<1> HIDE DEF c
<1>6. Forest(heap, Starts(list, hm), c)
    <2>1. << >> \in Seq(DOMAIN heap)
        OBVIOUS
    <2>2. ASSUME NEW s \in DOMAIN Starts(list, hm) PROVE IsPath(heap, Starts(list, hm)[s], c[s])
        BY <1>2, <1>3, <2>1 DEF IsPath, IsInjective
    <2>3. QED
        BY <1>2, <1>3, <1>5, <2>2 DEF Forest
<1>7. HeapTyped(heap) /\ Hashed(heap) = {}
    BY <1>2 DEF HeapTyped, Hashed
<1>8. TailsKept(list, c) /\ list \in [Lists -> ListRecords \cup {Null}]
    BY <1>1 DEF TailsKept
<1>9. DataKept(heap, hm, c)
    BY <1>1, <1>2, <1>4 DEF DataKept, Buckets
<1>10. KeysApart(heap) /\ MapKept(heap, hm)
    BY <1>1, <1>7 DEF KeysApart, MapKept
<1>11. QED
    BY <1>6, <1>7, <1>8, <1>9, <1>10 DEF Kept

\* Every step keeps the paths.
LEMMA NextKept ==
    ASSUME IInv, Next
    PROVE  (\E c : Kept(heap', list', hm', c)) /\ LoadKept(hm')
<1>1. PICK c : Kept(heap, list, hm, c)
    BY DEF IInv
<1>2. LoadKept(hm)
    BY DEF IInv
<1>3. CASE Ignored
    BY <1>1, <1>2, <1>3 DEF Ignored
<1>4. ASSUME NEW l \in Lists, create_list(l)
      PROVE  (\E c2 : Kept(heap', list', hm', c2)) /\ LoadKept(hm')
    <2>1. Kept(heap', list', hm', c)
        BY <1>1, <1>4, CreateListKeeps
    <2>2. hm' = hm
        BY <1>4 DEF create_list
    <2>3. QED
        BY <1>2, <2>1, <2>2
<1>5. ASSUME NEW l \in Lists, free_list(l)
      PROVE  (\E c2 : Kept(heap', list', hm', c2)) /\ LoadKept(hm')
    <2>1. Kept(heap', list', hm', [c EXCEPT ![L(l)] = << >>])
        BY <1>1, <1>5, FreeListKeeps
    <2>2. hm' = hm
        BY <1>5 DEF free_list
    <2>3. QED
        BY <1>2, <2>1, <2>2
<1>6. ASSUME NEW l \in Lists, delete_head(l)
      PROVE  (\E c2 : Kept(heap', list', hm', c2)) /\ LoadKept(hm')
    <2>1. CASE IsEmpty(l)
        BY <1>3, <1>6, <2>1 DEF delete_head
    <2>2. CASE ~IsEmpty(l)
        <3>1. TakenOut(<< heap', list' >>, heap, list, hm, c, l, 1) /\ hm' = hm
            BY <1>1, <1>6, <2>2, DeleteHeadKeeps
        <3>2. Kept(heap', list', hm, [c EXCEPT ![L(l)] = Removed(c[L(l)], 1)])
            BY <3>1 DEF TakenOut
        <3>3. QED
            BY <1>2, <3>1, <3>2
    <2>3. QED
        BY <2>1, <2>2
<1>7. ASSUME NEW l \in Lists, NEW thing \in Things, insert_head(l, thing)
      PROVE  (\E c2 : Kept(heap', list', hm', c2)) /\ LoadKept(hm')
    <2>1. \E c2 : Kept(heap', list', hm', c2)
        BY <1>1, <1>7, InsertHeadKeeps
    <2>2. hm' = hm
        BY <1>7 DEF insert_head
    <2>3. QED
        BY <1>2, <2>1, <2>2
<1>8. ASSUME NEW l \in Lists, NEW thing \in Things, insert_tail(l, thing)
      PROVE  (\E c2 : Kept(heap', list', hm', c2)) /\ LoadKept(hm')
    <2>1. \E c2 : Kept(heap', list', hm', c2)
        BY <1>1, <1>8, InsertTailKeeps
    <2>2. hm' = hm
        BY <1>8 DEF insert_tail
    <2>3. QED
        BY <1>2, <2>1, <2>2
<1>9. ASSUME NEW from \in Lists, NEW to \in Lists, NEW k \in 1 .. Cardinality(Nodes),
             Move(from, to, k)
      PROVE  (\E c2 : Kept(heap', list', hm', c2)) /\ LoadKept(hm')
    <2>1. k \in Nat
        OBVIOUS
    <2>2. \E n \in FreeNodes : \E more, c1 :
             TakenOut(<< heap', list' >>, more[1], more[2], hm, c1, from, k)
        BY <1>1, <1>9, <2>1, MoveKeeps
    <2>3. PICK more, c1 : TakenOut(<< heap', list' >>, more[1], more[2], hm, c1, from, k)
        BY <2>2
    <2>4. Kept(heap', list', hm, [c1 EXCEPT ![L(from)] = Removed(c1[L(from)], k)])
        BY <2>3 DEF TakenOut
    <2>5. hm' = hm
        BY <1>9 DEF Move
    <2>6. QED
        BY <1>2, <2>4, <2>5
<1>10. CASE create_map
    <2>1. (\E c2 : Kept(heap', list', hm', c2)) /\ hm' = NewMap
        BY <1>1, <1>10, CreateMapKeeps
    <2>2. LoadKept(hm')
        BY <2>1, DataStructsAssumption DEF LoadKept, NewMap
    <2>3. QED
        BY <2>1, <2>2
<1>11. CASE free_map
    <2>1. \E c2 : Kept(heap', list', hm', c2)
        BY <1>1, <1>11, FreeMapKeeps
    <2>2. LoadKept(hm')
        BY <1>11 DEF LoadKept, free_map
    <2>3. QED
        BY <2>1, <2>2
<1>12. ASSUME NEW l \in Lists, get_ends(l)
       PROVE  (\E c2 : Kept(heap', list', hm', c2)) /\ LoadKept(hm')
    BY <1>1, <1>2, <1>12 DEF get_ends
<1>13. ASSUME NEW key \in Keys, get(key)
       PROVE  (\E c2 : Kept(heap', list', hm', c2)) /\ LoadKept(hm')
    BY <1>1, <1>2, <1>13 DEF get
<1>14. ASSUME NEW key \in Keys, NEW value \in Things, put(key, value)
       PROVE  (\E c2 : Kept(heap', list', hm', c2)) /\ LoadKept(hm')
    <2>1. CASE hm # Null /\ PutThere(key, value)
        <3>1. Kept(heap', list', hm', c)
            BY <1>1, <2>1, PutThereKeeps
        <3>2. hm' = hm
            BY <2>1 DEF PutThere
        <3>3. QED
            BY <1>2, <3>1, <3>2
    <2>2. CASE hm # Null /\ PutNew(key, value)
        <3>1. (\E c2 : Kept(heap', list', hm', c2)) /\ 4 * hm'.entries <= 3 * hm'.num_buckets
            BY <1>1, <2>2, PutNewKeeps
        <3>2. QED
            BY <3>1 DEF LoadKept
    <2>3. QED
        BY <1>3, <1>14, <2>1, <2>2 DEF put
<1>15. QED
    BY <1>3, <1>4, <1>5, <1>6, <1>7, <1>8, <1>9, <1>10, <1>11, <1>12, <1>13, <1>14 DEF Next

\* In every reachable state the pointers are a forest of the lists and the chains.
LEMMA Inductive == Spec => []IInv
<1>1. Init => IInv
    BY InitKept DEF IInv, Init, LoadKept
<1>2. IInv /\ [Next]_vars => IInv'
    <2>1. SUFFICES ASSUME IInv, [Next]_vars PROVE IInv'
        OBVIOUS
    <2>2. CASE Next
        <3>1. (\E c : Kept(heap', list', hm', c)) /\ LoadKept(hm')
            BY <2>1, <2>2, NextKept
        <3>2. QED
            BY <3>1 DEF IInv
    <2>3. CASE UNCHANGED vars
        <3>1. heap' = heap /\ list' = list /\ hm' = hm
            BY <2>3 DEF vars
        <3>2. PICK c : Kept(heap, list, hm, c)
            BY <2>1 DEF IInv
        <3>3. Kept(heap', list', hm', c) /\ LoadKept(hm')
            BY <2>1, <3>1, <3>2 DEF IInv
        <3>4. QED
            BY <3>3 DEF IInv
    <2>4. QED
        BY <2>1, <2>2, <2>3
<1>3. QED
    BY <1>1, <1>2, PTL DEF Spec

\* The invariant has the types.
LEMMA KeptTyped == IInv => TypeOK
<1> SUFFICES ASSUME IInv PROVE TypeOK
    OBVIOUS
<1>1. PICK c : Kept(heap, list, hm, c)
    BY DEF IInv
<1>2. DOMAIN heap \subseteq Nodes
    BY <1>1 DEF Kept, Forest
<1>3. heap \in [DOMAIN heap -> [data : Things \cup (Keys \X Things), next : Pointers]]
    BY <1>1 DEF Kept, HeapTyped
<1>4. list \in [Lists -> ListRecords \cup {Null}]
    BY <1>1 DEF Kept
<1>5. hm # Null => hm.num_buckets \in Sizes /\ hm \in MapsOf(hm.num_buckets)
    BY <1>1 DEF Kept, MapKept
<1>6. QED
    BY <1>2, <1>3, <1>4, <1>5 DEF TypeOK

\* Every variable keeps to its type: pointers point to nodes or are null, and the
\* tables have one of the sizes hash_size finds (datastructs.c:15-217).
THEOREM Typed == Spec => []TypeOK
    BY Inductive, KeptTyped, PTL

\* Disjoint paths that cover the heap: every node is owned once.
LEMMA KeptOwned == IInv => NodesOwned
<1> SUFFICES ASSUME IInv PROVE NodesOwned
    OBVIOUS
<1>1. PICK c : Kept(heap, list, hm, c)
    BY DEF IInv
<1> DEFINE S == Starts(list, hm)
<1>2. Forest(heap, S, c)
    BY <1>1 DEF Kept
<1>3. \A first \in Roots : \E s \in DOMAIN S : S[s] = first
    <2>1. ASSUME NEW first \in Roots PROVE \E s \in DOMAIN S : S[s] = first
        <3>1. CASE \E l \in Lists : list[l] # Null /\ first = list[l].head
            <4>1. PICK l \in Lists : list[l] # Null /\ first = list[l].head
                BY <3>1
            <4>2. L(l) \in DOMAIN S /\ S[L(l)] = list[l].head
                BY <4>1, StartsOf
            <4>3. QED
                BY <4>1, <4>2
        <3>2. CASE hm # Null /\ first \in Range(hm.buckets)
            <4>1. PICK b \in Buckets(hm) : first = hm.buckets[b]
                BY <3>2 DEF Range, Buckets
            <4>2. QED
                BY <4>1, StartsOf
        <3>3. QED
            BY <3>1, <3>2 DEF Roots
    <2>2. QED
        BY <2>1
<1>4. \A s \in DOMAIN S :
          /\ Chain(S[s]) = c[s] /\ Range(c[s]) = {c[s][i] : i \in DOMAIN c[s]}
          /\ \A i \in DOMAIN c[s] : c[s][i] \in DOMAIN heap
          /\ S[s] = Null <=> c[s] = << >>
    <2>1. ASSUME NEW s \in DOMAIN S
          PROVE  /\ NodesFrom(heap, S[s]) = c[s] /\ Range(c[s]) = {c[s][i] : i \in DOMAIN c[s]}
                 /\ \A i \in DOMAIN c[s] : c[s][i] \in DOMAIN heap
                 /\ S[s] = Null <=> c[s] = << >>
        <3> HIDE DEF S
        <3>1. NodesFrom(heap, S[s]) = c[s]
            BY <1>2, ForestNodes
        <3>2. Range(c[s]) = {c[s][i] : i \in DOMAIN c[s]}
            BY DEF Range
        <3>3. \A i \in DOMAIN c[s] : c[s][i] \in DOMAIN heap
            BY <1>2, ForestNodes
        <3>4. S[s] = Null <=> c[s] = << >>
            BY <1>2, ForestNodes
        <3>5. QED
            BY <3>1, <3>2, <3>3, <3>4
    <2>2. QED
        BY <2>1 DEF Chain
<1>5. \A s \in DOMAIN S : c[s] = << >> \/ S[s] \in Roots
    <2>1. ASSUME NEW l \in Lists PROVE c[L(l)] = << >> \/ S[L(l)] \in Roots
        <3>1. CASE list[l] = Null
            BY <1>4, <3>1, StartsOf
        <3>2. CASE list[l] # Null
            BY <3>2, StartsOf DEF Roots
        <3>3. QED
            BY <3>1, <3>2
    <2>2. ASSUME NEW b \in Buckets(hm) PROVE S[B(b)] \in Roots
        <3>1. hm # Null /\ hm.buckets[b] \in Range(hm.buckets) /\ S[B(b)] = hm.buckets[b]
            BY StartsOf DEF Buckets, Range
        <3>2. QED
            BY <3>1 DEF Roots
    <2>3. QED
        BY <2>1, <2>2, StartsOf
<1>6. UNION {Range(Chain(first)) : first \in Roots} = DOMAIN heap
    <2>1. ASSUME NEW n \in DOMAIN heap PROVE \E first \in Roots : n \in Range(Chain(first))
        <3>1. PICK s \in DOMAIN S : \E i \in DOMAIN c[s] : c[s][i] = n
            BY <1>2 DEF Forest
        <3>2. DOMAIN << >> = {}
            OBVIOUS
        <3>3. c[s] # << >>
            BY <3>1, <3>2
        <3>4. S[s] \in Roots /\ n \in Range(Chain(S[s]))
            BY <1>4, <1>5, <3>1, <3>3
        <3>5. QED
            BY <3>4
    <2>2. ASSUME NEW first \in Roots, NEW n \in Range(Chain(first)) PROVE n \in DOMAIN heap
        BY <1>3, <1>4
    <2>3. QED
        BY <2>1, <2>2
<1>7. ASSUME NEW first \in Roots
      PROVE  /\ Len(Chain(first)) <= Cardinality(Nodes) /\ IsInjective(Chain(first))
             /\ \A other \in Roots \ {first} :
                   Range(Chain(first)) \cap Range(Chain(other)) = {}
    <2>1. PICK s \in DOMAIN S : S[s] = first
        BY <1>3
    <2>2. IsPath(heap, S[s], c[s]) /\ DOMAIN heap \subseteq Nodes
        BY <1>2 DEF Forest
    <2>3. Len(c[s]) <= Cardinality(Nodes) /\ IsInjective(c[s])
        BY <2>2, PathFits DEF IsPath
    <2>4. ASSUME NEW other \in Roots \ {first}
          PROVE  Range(Chain(first)) \cap Range(Chain(other)) = {}
        <3>1. PICK t \in DOMAIN S : S[t] = other
            BY <1>3
        <3>2. s # t
            BY <2>1, <3>1
        <3>3. \A i \in DOMAIN c[s], j \in DOMAIN c[t] : c[s][i] # c[t][j]
            BY <1>2, <3>2 DEF Forest
        <3>4. /\ Range(Chain(first)) = {c[s][i] : i \in DOMAIN c[s]}
              /\ Range(Chain(other)) = {c[t][i] : i \in DOMAIN c[t]}
            BY <1>4, <2>1, <3>1
        <3>5. QED
            BY <3>3, <3>4
    <2>5. QED
        BY <1>4, <2>1, <2>3, <2>4
<1>8. QED
    BY <1>6, <1>7 DEF NodesOwned

\* Every allocated node is in one list or chain, once, and none that is in one has
\* been freed: no call loses a node, shares it, leaves it dangling or ties a ring
\* (my_scheduler.c:101-112, my_pthread.c:173-188, datastructs.c:131-146).
THEOREM Owned == Spec => []NodesOwned
    BY Inductive, KeptOwned, PTL

\* The pairs in the chains are the ones that entries counts.
LEMMA KeptLoad == IInv => LoadBounded
<1> SUFFICES ASSUME IInv, hm # Null
             PROVE  /\ 4 * hm.entries <= 3 * hm.num_buckets
                    /\ hm.entries =
                          Cardinality({n \in DOMAIN heap : heap[n].data \in Keys \X Things})
    BY DEF LoadBounded
<1>1. 4 * hm.entries <= 3 * hm.num_buckets
    BY DEF IInv, LoadKept
<1>2. hm.entries = Cardinality(Hashed(heap))
    BY DEF IInv, Kept, MapKept
<1>3. QED
    BY <1>1, <1>2 DEF Hashed

\* The table stays at most three quarters full, whatever size it has grown to, and
\* entries counts its nodes (datastructs.c:121-125, 208-209).
THEOREM Loaded == Spec => []LoadBounded
    BY Inductive, KeptLoad, PTL

-----------------------------------------------------------------------------
(* The lists are sequences, the map is a function *)

\* The data along a path.
DataOf(h, path) == [k \in DOMAIN path |-> h[path[k]].data]

\* The lists and the map of any heap, as ListValues and MapValues read them.
ListsOf(h, ls) ==
    [l \in Lists |-> IF ls[l] = Null THEN Null ELSE DataOf(h, NodesFrom(h, ls[l].head))]

ValueIn(h, m, key) ==
    LET found == FoundIn(h, m, key)
    IN  IF found = {} THEN Null ELSE h[CHOOSE n \in found : TRUE].data[2]

MapOf(h, m) == IF m = Null THEN Null ELSE [key \in Keys |-> ValueIn(h, m, key)]

\* The refinement mapping reads this heap, and the next one, in the same way.
LEMMA ValuesRead ==
    /\ ListValues = ListsOf(heap, list) /\ ListValues' = ListsOf(heap', list')
    /\ MapValues = MapOf(heap, hm) /\ MapValues' = MapOf(heap', hm')
<1>1. ListValues = ListsOf(heap, list)
    BY DEF ListValues, ListsOf, DataOf, Chain
<1>2. ListValues' = ListsOf(heap', list')
    BY DEF ListValues, ListsOf, DataOf, Chain
<1>3. MapValues = MapOf(heap, hm)
    BY DEF MapValues, MapOf, Value, ValueIn, Found, FoundIn, Chain
<1>4. MapValues' = MapOf(heap', hm')
    BY DEF MapValues, MapOf, Value, ValueIn, Found, FoundIn, Chain
<1>5. QED
    BY <1>1, <1>2, <1>3, <1>4

\* A list is the data of its path.
LEMMA ListRead ==
    ASSUME NEW h, NEW ls, NEW m, NEW c, Kept(h, ls, m, c), NEW l \in Lists
    PROVE  /\ ls[l] = Null => ListsOf(h, ls)[l] = Null /\ c[L(l)] = << >>
           /\ ls[l] # Null =>
                /\ ListsOf(h, ls)[l] = DataOf(h, c[L(l)])
                /\ ListsOf(h, ls)[l] \in Seq(Things) /\ ListsOf(h, ls)[l] # Null
                /\ Len(ListsOf(h, ls)[l]) = Len(c[L(l)])
                /\ \A k \in 1 .. Len(c[L(l)]) : ListsOf(h, ls)[l][k] = h[c[L(l)][k]].data
<1>1. CASE ls[l] = Null
    <2>1. ListsOf(h, ls)[l] = Null
        BY <1>1 DEF ListsOf
    <2>2. /\ Forest(h, Starts(ls, m), c) /\ L(l) \in DOMAIN Starts(ls, m)
          /\ Starts(ls, m)[L(l)] = Null
        BY <1>1, StartsOf DEF Kept
    <2>3. c[L(l)] = << >>
        BY <2>2, ForestNodes
    <2>4. QED
        BY <1>1, <2>1, <2>3
<1>2. CASE ls[l] # Null
    <2> DEFINE path == c[L(l)]
               data == DataOf(h, path)
    <2>1. /\ NodesFrom(h, ls[l].head) = path /\ DOMAIN path = 1 .. Len(path) /\ Len(path) \in Nat
          /\ \A i \in DOMAIN path : h[path[i]].data \in Things
        BY <1>2, ListNodes
    <2>2. ListsOf(h, ls)[l] = data
        BY <1>2, <2>1 DEF ListsOf
    <2> HIDE DEF path
    <2>3. data \in [1 .. Len(path) -> Things]
        BY <2>1 DEF DataOf
    <2>4. \A k \in 1 .. Len(path) : data[k] = h[path[k]].data
        BY <2>1 DEF DataOf
    <2> HIDE DEF data
    <2>5. data \in Seq(Things) /\ Len(data) = Len(path)
        BY <2>1, <2>3
    <2>6. data # Null
        BY <2>5, DataStructsAssumption
    <2>7. QED
        BY <1>2, <2>2, <2>4, <2>5, <2>6 DEF data, path
<1>3. QED
    BY <1>1, <1>2

\* The heap changes for the lists only: the nodes that come or go hold things.
ListChange(h, h2) ==
    /\ \A n \in DOMAIN h \cap DOMAIN h2 : h2[n].data = h[n].data
    /\ \A n \in DOMAIN h \ DOMAIN h2 : h[n].data \in Things
    /\ \A n \in DOMAIN h2 \ DOMAIN h : h2[n].data \in Things

\* A list with the same path and the same data is the same sequence.
LEMMA ListSame ==
    ASSUME NEW h, NEW ls, NEW m, NEW c, Kept(h, ls, m, c),
           NEW h2, NEW ls2, NEW m2, NEW c2, Kept(h2, ls2, m2, c2),
           NEW l \in Lists, ls2[l] = ls[l], c2[L(l)] = c[L(l)],
           \A n \in DOMAIN h \cap DOMAIN h2 : h[n].data \in Things => h2[n].data = h[n].data
    PROVE  ListsOf(h2, ls2)[l] = ListsOf(h, ls)[l]
<1>1. CASE ls[l] = Null
    BY <1>1, ListRead
<1>2. CASE ls[l] # Null
    <2> DEFINE path == c[L(l)]
    <2>1. \A k \in DOMAIN path : path[k] \in DOMAIN h /\ h[path[k]].data \in Things
        BY <1>2, ListNodes
    <2>2. \A k \in DOMAIN path : path[k] \in DOMAIN h2
        <3>1. \A k \in DOMAIN c2[L(l)] : c2[L(l)][k] \in DOMAIN h2
            BY <1>2, ListNodes
        <3>2. QED
            BY <3>1
    <2>3. ListsOf(h, ls)[l] = DataOf(h, path) /\ ListsOf(h2, ls2)[l] = DataOf(h2, path)
        <3>1. ListsOf(h2, ls2)[l] = DataOf(h2, c2[L(l)])
            BY <1>2, ListRead
        <3>2. ListsOf(h, ls)[l] = DataOf(h, c[L(l)])
            BY <1>2, ListRead
        <3>3. QED
            BY <3>1, <3>2
    <2> HIDE DEF path
    <2>4. DataOf(h, path) = DataOf(h2, path)
        BY <2>1, <2>2 DEF DataOf
    <2>5. QED
        BY <2>3, <2>4
<1>3. QED
    BY <1>1, <1>2

\* The map has a key's value in the node of the key.
LEMMA MapRead ==
    ASSUME NEW h, NEW ls, NEW m, NEW c, Kept(h, ls, m, c), m # Null, NEW key \in Keys
    PROVE  /\ \A n \in Hashed(h) : KeyOf(h, n) = key => MapOf(h, m)[key] = h[n].data[2]
           /\ (\A n \in Hashed(h) : KeyOf(h, n) # key) => MapOf(h, m)[key] = Null
           /\ MapOf(h, m) # Null /\ MapOf(h, m) = [k \in Keys |-> MapOf(h, m)[k]]
<1>1. MapOf(h, m)[key] = ValueIn(h, m, key) /\ MapOf(h, m) = [k \in Keys |-> MapOf(h, m)[k]]
    BY DEF MapOf
<1>2. ASSUME NEW k \in Keys
      PROVE  /\ FoundIn(h, m, k) = {n \in Hashed(h) : KeyOf(h, n) = k}
             /\ \A n, o \in FoundIn(h, m, k) : n = o
    BY FoundInNode
<1>3. ASSUME NEW k \in Keys, NEW n \in Hashed(h), KeyOf(h, n) = k
      PROVE  ValueIn(h, m, k) = h[n].data[2]
    <2>1. n \in FoundIn(h, m, k)
        BY <1>2, <1>3
    <2>2. (CHOOSE o \in FoundIn(h, m, k) : TRUE) = n
        BY <1>2, <2>1
    <2>3. QED
        BY <2>1, <2>2 DEF ValueIn
<1>4. ASSUME NEW k \in Keys, \A n \in Hashed(h) : KeyOf(h, n) # k
      PROVE  ValueIn(h, m, k) = Null
    <2>1. FoundIn(h, m, k) = {}
        BY <1>2, <1>4
    <2>2. QED
        BY <2>1 DEF ValueIn
<1>5. MapOf(h, m) # Null
    <2>1. ASSUME NEW k \in Keys PROVE ValueIn(h, m, k) \in Things \cup {Null}
        <3>1. CASE \E n \in Hashed(h) : KeyOf(h, n) = k
            <4>1. PICK n \in Hashed(h) : KeyOf(h, n) = k
                BY <3>1
            <4>2. ValueIn(h, m, k) = h[n].data[2]
                BY <1>3, <4>1
            <4>3. h[n].data \in Keys \X Things
                BY DEF Hashed
            <4>4. QED
                BY <4>2, <4>3
        <3>2. CASE \A n \in Hashed(h) : KeyOf(h, n) # k
            BY <1>4, <3>2
        <3>3. QED
            BY <3>1, <3>2
    <2>2. MapOf(h, m) \in [Keys -> Things \cup {Null}]
        BY <2>1 DEF MapOf
    <2>3. QED
        BY <2>2, DataStructsAssumption
<1>6. QED
    BY <1>1, <1>3, <1>4, <1>5

\* The map that a heap's pairs make does not depend on the table.
LEMMA MapSame ==
    ASSUME NEW h, NEW ls, NEW m, NEW c, Kept(h, ls, m, c),
           NEW h2, NEW ls2, NEW m2, NEW c2, Kept(h2, ls2, m2, c2),
           m = Null <=> m2 = Null,
           Hashed(h2) = Hashed(h), \A n \in Hashed(h) : h2[n].data = h[n].data
    PROVE  MapOf(h2, m2) = MapOf(h, m)
<1>1. CASE m = Null
    BY <1>1 DEF MapOf
<1>2. CASE m # Null
    <2>1. ASSUME NEW key \in Keys PROVE MapOf(h2, m2)[key] = MapOf(h, m)[key]
        <3>1. \A n \in Hashed(h) : KeyOf(h2, n) = KeyOf(h, n)
            BY DEF KeyOf
        <3>2. CASE \E n \in Hashed(h) : KeyOf(h, n) = key
            <4>1. PICK n \in Hashed(h) : KeyOf(h, n) = key
                BY <3>2
            <4>2. MapOf(h, m)[key] = h[n].data[2]
                BY <1>2, <4>1, MapRead
            <4>3. n \in Hashed(h2) /\ KeyOf(h2, n) = key /\ h2[n].data = h[n].data
                BY <3>1, <4>1
            <4>4. MapOf(h2, m2)[key] = h2[n].data[2]
                BY <1>2, <4>3, MapRead
            <4>5. QED
                BY <4>2, <4>3, <4>4
        <3>3. CASE \A n \in Hashed(h) : KeyOf(h, n) # key
            <4>1. MapOf(h, m)[key] = Null
                BY <1>2, <3>3, MapRead
            <4>2. \A n \in Hashed(h2) : KeyOf(h2, n) # key
                BY <3>1, <3>3
            <4>3. MapOf(h2, m2)[key] = Null
                BY <1>2, <4>2, MapRead
            <4>4. QED
                BY <4>1, <4>3
        <3>4. QED
            BY <3>2, <3>3
    <2>2. \A key \in Keys : ValueIn(h2, m2, key) = ValueIn(h, m, key)
        BY <1>2, <2>1 DEF MapOf
    <2>3. QED
        BY <1>2, <2>2 DEF MapOf
<1>3. QED
    BY <1>1, <1>2

\* What happens to nodes of the lists does not touch the map.
LEMMA ChangeKeepsMap ==
    ASSUME NEW h, NEW ls, NEW m, NEW c, Kept(h, ls, m, c),
           NEW h2, NEW ls2, NEW c2, Kept(h2, ls2, m, c2), ListChange(h, h2)
    PROVE  MapOf(h2, m) = MapOf(h, m)
<1>1. Things \cap (Keys \X Things) = {}
    BY DataStructsAssumption
<1>2. Hashed(h2) = Hashed(h)
    BY <1>1 DEF Hashed, ListChange
<1>3. \A n \in Hashed(h) : h2[n].data = h[n].data
    BY <1>2 DEF Hashed, ListChange
<1>4. QED
    BY <1>2, <1>3, MapSame

\* One list changes at a time.
LEMMA ListStep ==
    ASSUME NEW h, NEW ls, NEW m, NEW c, Kept(h, ls, m, c),
           NEW h2, NEW ls2, NEW c2, Kept(h2, ls2, m, c2), NEW l \in Lists,
           \A k \in Lists : k # l => ls2[k] = ls[k] /\ c2[L(k)] = c[L(k)],
           ListChange(h, h2)
    PROVE  /\ SetTo(ListsOf(h2, ls2), ListsOf(h, ls), l, ListsOf(h2, ls2)[l])
           /\ MapOf(h2, m) = MapOf(h, m)
<1>1. ASSUME NEW k \in Lists, k # l PROVE ListsOf(h2, ls2)[k] = ListsOf(h, ls)[k]
    <2>1. ls2[k] = ls[k] /\ c2[L(k)] = c[L(k)]
        BY <1>1
    <2>2. \A n \in DOMAIN h \cap DOMAIN h2 : h[n].data \in Things => h2[n].data = h[n].data
        BY DEF ListChange
    <2>3. QED
        BY <2>1, <2>2, ListSame
<1> DEFINE before == ListsOf(h, ls)
           after == ListsOf(h2, ls2)
<1>2. before = [k \in Lists |-> before[k]] /\ after = [k \in Lists |-> after[k]]
    BY DEF ListsOf
<1>3. \A k \in Lists : k # l => after[k] = before[k]
    BY <1>1
<1> HIDE DEF before, after
<1>4. after = [before EXCEPT ![l] = after[l]]
    BY <1>2, <1>3
<1>5. QED
    BY <1>4, ChangeKeepsMap DEF SetTo, before, after

\* A node in front of the path is its thing in front of the sequence.
LEMMA PushedValue ==
    ASSUME NEW h, NEW ls, NEW m, NEW c, Kept(h, ls, m, c), NEW l \in Lists, ls[l] # Null,
           NEW h2, NEW ls2, NEW c2, Kept(h2, ls2, m, c2), ls2[l] # Null, ListChange(h, h2),
           NEW n, c2[L(l)] = << n >> \o c[L(l)], NEW thing, h2[n].data = thing
    PROVE  ListsOf(h2, ls2)[l] = << thing >> \o ListsOf(h, ls)[l]
<1> DEFINE path == c[L(l)]
           path2 == c2[L(l)]
           seq == ListsOf(h, ls)[l]
           seq2 == ListsOf(h2, ls2)[l]
           longer == << thing >> \o seq
<1>1. /\ path \in Seq(DOMAIN h) /\ Len(path) \in Nat
      /\ \A i \in 1 .. Len(path) : path[i] \in DOMAIN h
    BY ListNodes
<1>2. \A i \in 1 .. Len(path2) : path2[i] \in DOMAIN h2 /\ h2[path2[i]].data \in Things
    <2>1. \A i \in DOMAIN path2 : path2[i] \in DOMAIN h2 /\ h2[path2[i]].data \in Things
        BY ONLY Kept(h2, ls2, m, c2), ls2[l] # Null, l \in Lists, ListNodes
    <2>2. DOMAIN path2 = 1 .. Len(path2)
        BY ONLY Kept(h2, ls2, m, c2), ls2[l] # Null, l \in Lists, ListNodes
    <2>3. QED
        BY <2>1, <2>2
<1>3. /\ seq \in Seq(Things) /\ Len(seq) = Len(path)
      /\ \A k \in 1 .. Len(path) : seq[k] = h[path[k]].data
    BY ListRead
<1>4. /\ seq2 \in Seq(Things) /\ Len(seq2) = Len(path2)
      /\ \A k \in 1 .. Len(path2) : seq2[k] = h2[path2[k]].data
    BY ListRead
<1>5. path2 = << n >> \o path
    OBVIOUS
<1> HIDE DEF path, path2, seq, seq2
<1>6. /\ Len(path2) = Len(path) + 1 /\ path2[1] = n
      /\ \A k \in 2 .. Len(path) + 1 : path2[k] = path[k - 1]
    BY <1>1, <1>5
<1>7. thing \in Things
    BY <1>1, <1>2, <1>6
<1>8. /\ longer \in Seq(Things) /\ Len(longer) = Len(path) + 1 /\ longer[1] = thing
      /\ \A k \in 2 .. Len(path) + 1 : longer[k] = seq[k - 1]
    BY <1>1, <1>3, <1>7
<1> HIDE DEF longer
<1>9. ASSUME NEW k \in 1 .. Len(seq2) PROVE seq2[k] = longer[k]
    <2>1. CASE k = 1
        BY <1>1, <1>4, <1>6, <1>8, <2>1
    <2>2. CASE k # 1
        <3>1. k - 1 \in 1 .. Len(path) /\ k \in 2 .. Len(path) + 1 /\ k \in 1 .. Len(path2)
            BY <1>1, <1>4, <1>6, <2>2
        <3>2. seq2[k] = h2[path2[k]].data /\ path2[k] = path[k - 1] /\ path2[k] \in DOMAIN h2
            BY <1>2, <1>4, <1>6, <3>1
        <3>3. longer[k] = h[path[k - 1]].data /\ path[k - 1] \in DOMAIN h
            BY <1>1, <1>3, <1>8, <3>1
        <3>4. QED
            BY <3>2, <3>3 DEF ListChange
    <2>3. QED
        BY <2>1, <2>2
<1>10. seq2 = longer
    BY <1>4, <1>6, <1>8, <1>9, SeqEqual
<1>11. QED
    BY <1>10 DEF longer, seq, seq2

\* A node at the end of the path is its thing at the end of the sequence.
LEMMA AppendedValue ==
    ASSUME NEW h, NEW ls, NEW m, NEW c, Kept(h, ls, m, c), NEW l \in Lists, ls[l] # Null,
           NEW h2, NEW ls2, NEW c2, Kept(h2, ls2, m, c2), ls2[l] # Null, ListChange(h, h2),
           NEW n, c2[L(l)] = Append(c[L(l)], n), NEW thing, h2[n].data = thing
    PROVE  ListsOf(h2, ls2)[l] = Append(ListsOf(h, ls)[l], thing)
<1> DEFINE path == c[L(l)]
           path2 == c2[L(l)]
           seq == ListsOf(h, ls)[l]
           seq2 == ListsOf(h2, ls2)[l]
           longer == Append(seq, thing)
<1>1. /\ path \in Seq(DOMAIN h) /\ Len(path) \in Nat
      /\ \A i \in 1 .. Len(path) : path[i] \in DOMAIN h
    BY ListNodes
<1>2. \A i \in 1 .. Len(path2) : path2[i] \in DOMAIN h2 /\ h2[path2[i]].data \in Things
    <2>1. \A i \in DOMAIN path2 : path2[i] \in DOMAIN h2 /\ h2[path2[i]].data \in Things
        BY ONLY Kept(h2, ls2, m, c2), ls2[l] # Null, l \in Lists, ListNodes
    <2>2. DOMAIN path2 = 1 .. Len(path2)
        BY ONLY Kept(h2, ls2, m, c2), ls2[l] # Null, l \in Lists, ListNodes
    <2>3. QED
        BY <2>1, <2>2
<1>3. /\ seq \in Seq(Things) /\ Len(seq) = Len(path)
      /\ \A k \in 1 .. Len(path) : seq[k] = h[path[k]].data
    BY ListRead
<1>4. /\ seq2 \in Seq(Things) /\ Len(seq2) = Len(path2)
      /\ \A k \in 1 .. Len(path2) : seq2[k] = h2[path2[k]].data
    BY ListRead
<1>5. path2 = Append(path, n)
    OBVIOUS
<1> HIDE DEF path, path2, seq, seq2
<1>6. /\ Len(path2) = Len(path) + 1 /\ path2[Len(path) + 1] = n
      /\ \A k \in 1 .. Len(path) : path2[k] = path[k]
    BY <1>1, <1>5
<1>7. thing \in Things
    BY <1>1, <1>2, <1>6
<1>8. /\ longer \in Seq(Things) /\ Len(longer) = Len(path) + 1 /\ longer[Len(path) + 1] = thing
      /\ \A k \in 1 .. Len(path) : longer[k] = seq[k]
    BY <1>1, <1>3, <1>7
<1> HIDE DEF longer
<1>9. ASSUME NEW k \in 1 .. Len(seq2) PROVE seq2[k] = longer[k]
    <2>1. CASE k = Len(path) + 1
        BY <1>1, <1>4, <1>6, <1>8, <2>1
    <2>2. CASE k # Len(path) + 1
        <3>1. k \in 1 .. Len(path) /\ k \in 1 .. Len(path2)
            BY <1>1, <1>4, <1>6, <2>2
        <3>2. seq2[k] = h2[path2[k]].data /\ path2[k] = path[k] /\ path2[k] \in DOMAIN h2
            BY <1>2, <1>4, <1>6, <3>1
        <3>3. longer[k] = h[path[k]].data /\ path[k] \in DOMAIN h
            BY <1>1, <1>3, <1>8, <3>1
        <3>4. QED
            BY <3>2, <3>3 DEF ListChange
    <2>3. QED
        BY <2>1, <2>2
<1>10. seq2 = longer
    BY <1>4, <1>6, <1>8, <1>9, SeqEqual
<1>11. QED
    BY <1>10 DEF longer, seq, seq2

\* A node taken out of the path is an element taken out of the sequence.
LEMMA RemovedValue ==
    ASSUME NEW h, NEW ls, NEW m, NEW c, Kept(h, ls, m, c), NEW l \in Lists, ls[l] # Null,
           NEW h2, NEW ls2, NEW c2, Kept(h2, ls2, m, c2), ls2[l] # Null, ListChange(h, h2),
           NEW k \in DOMAIN c[L(l)], c2[L(l)] = Removed(c[L(l)], k)
    PROVE  ListsOf(h2, ls2)[l] = Removed(ListsOf(h, ls)[l], k)
<1> DEFINE path == c[L(l)]
           path2 == c2[L(l)]
           seq == ListsOf(h, ls)[l]
           seq2 == ListsOf(h2, ls2)[l]
           shorter == Removed(seq, k)
<1>1. /\ path \in Seq(DOMAIN h) /\ Len(path) \in Nat /\ k \in 1 .. Len(path)
      /\ \A i \in 1 .. Len(path) : path[i] \in DOMAIN h
    BY ListNodes
<1>2. /\ path2 \in Seq(DOMAIN h2) /\ \A i \in 1 .. Len(path2) : path2[i] \in DOMAIN h2
    BY ListNodes
<1>3. /\ seq \in Seq(Things) /\ Len(seq) = Len(path)
      /\ \A i \in 1 .. Len(path) : seq[i] = h[path[i]].data
    BY ListRead
<1>4. /\ seq2 \in Seq(Things) /\ Len(seq2) = Len(path2)
      /\ \A i \in 1 .. Len(path2) : seq2[i] = h2[path2[i]].data
    BY ListRead
<1>5. path2 = Removed(path, k)
    OBVIOUS
<1> HIDE DEF path, path2, seq, seq2
<1>6. k \in DOMAIN path /\ k \in DOMAIN seq
    BY <1>1, <1>3
<1>7. /\ Len(path2) = Len(path) - 1
      /\ \A i \in 1 .. Len(path) - 1 : path2[i] = IF i < k THEN path[i] ELSE path[i + 1]
    BY <1>1, <1>5, <1>6, RemovedAt
<1>8. /\ shorter \in Seq(Things) /\ Len(shorter) = Len(path) - 1
      /\ \A i \in 1 .. Len(path) - 1 : shorter[i] = IF i < k THEN seq[i] ELSE seq[i + 1]
    <2>1. /\ shorter \in Seq(Things) /\ Len(shorter) = Len(seq) - 1
          /\ \A i \in 1 .. Len(seq) - 1 : shorter[i] = IF i < k THEN seq[i] ELSE seq[i + 1]
        BY <1>3, <1>6, RemovedAt
    <2>2. QED
        BY <1>3, <2>1
<1> HIDE DEF shorter
<1>9. ASSUME NEW i \in 1 .. Len(seq2) PROVE seq2[i] = shorter[i]
    <2>1. i \in 1 .. Len(path) - 1 /\ i \in 1 .. Len(path) /\ i + 1 \in 1 .. Len(path)
        BY <1>1, <1>4, <1>7
    <2>2. PICK j \in 1 .. Len(path) : path2[i] = path[j] /\ shorter[i] = seq[j]
        BY <1>7, <1>8, <2>1
    <2>3. seq2[i] = h2[path[j]].data /\ path[j] \in DOMAIN h2
        BY <1>2, <1>4, <2>2
    <2>4. shorter[i] = h[path[j]].data /\ path[j] \in DOMAIN h
        BY <1>1, <1>3, <2>2
    <2>5. QED
        BY <2>3, <2>4 DEF ListChange
<1>10. seq2 = shorter
    BY <1>4, <1>7, <1>8, <1>9, SeqEqual
<1>11. QED
    BY <1>10 DEF shorter, seq, seq2

\* One path changes: the others stay.
LEMMA PathSet ==
    ASSUME NEW h, NEW ls, NEW m, NEW c, Kept(h, ls, m, c), NEW l \in Lists, NEW path,
           NEW c2, SetTo(c2, c, L(l), path)
    PROVE  c2[L(l)] = path /\ \A k \in Lists : k # l => c2[L(k)] = c[L(k)]
<1>1. c = [s \in DOMAIN Starts(ls, m) |-> c[s]]
    BY DEF Kept, Forest
<1>2. /\ \A k \in Lists : L(k) \in DOMAIN Starts(ls, m)
      /\ \A k \in Lists : k # l => L(k) # L(l)
    BY StartsOf
<1>3. QED
    BY <1>1, <1>2 DEF SetTo

\* A call on a list changes that list, and not the map.
LEMMA ListCall ==
    ASSUME NEW c, Kept(heap, list, hm, c), NEW c2, Kept(heap', list', hm', c2), hm' = hm,
           NEW l \in Lists,
           \A k \in Lists : k # l => list'[k] = list[k] /\ c2[L(k)] = c[L(k)],
           ListChange(heap, heap')
    PROVE  SetTo(ListValues', ListValues, l, ListValues'[l]) /\ MapValues' = MapValues
<1>1. Kept(heap', list', hm, c2)
    OBVIOUS
<1>2. /\ SetTo(ListsOf(heap', list'), ListsOf(heap, list), l, ListsOf(heap', list')[l])
      /\ MapOf(heap', hm) = MapOf(heap, hm)
    BY <1>1, ListStep
<1>3. QED
    BY <1>2, ValuesRead

\* Calls that change nothing show nothing.
LEMMA SameValues ==
    ASSUME heap' = heap, list' = list, hm' = hm
    PROVE  ListValues' = ListValues /\ MapValues' = MapValues
    BY ValuesRead

\* Each call is the operation of Collections that it is named for.
LEMMA CreatesList ==
    ASSUME NEW c, Kept(heap, list, hm, c), NEW l \in Lists, create_list(l)
    PROVE  Abstract!CreateList(l)
<1>1. Kept(heap', list', hm', c)
    BY CreateListKeeps
<1>2. /\ list[l] = Null /\ hm' = hm /\ heap' = heap /\ result' = Null
      /\ list' = [list EXCEPT ![l] = [head |-> Null, tail |-> Null]]
    BY DEF create_list
<1>3. list \in [Lists -> ListRecords \cup {Null}]
    BY DEF Kept
<1>4. list'[l] # Null /\ \A k \in Lists : k # l => list'[k] = list[k]
    <2>1. [head |-> Null, tail |-> Null] \in ListRecords
        BY DEF ListRecords, Pointers
    <2>2. QED
        BY <1>2, <1>3, <2>1, DataStructsAssumption
<1>5. ListChange(heap, heap')
    BY <1>2 DEF ListChange
<1>6. SetTo(ListValues', ListValues, l, ListValues'[l]) /\ MapValues' = MapValues
    BY <1>1, <1>2, <1>4, <1>5, ListCall
<1>7. ListValues[l] = Null /\ c[L(l)] = << >>
    BY <1>2, ListRead, ValuesRead
<1>8. ListValues'[l] = << >>
    <2>1. ListsOf(heap', list')[l] \in Seq(Things) /\ Len(ListsOf(heap', list')[l]) = Len(c[L(l)])
        BY <1>1, <1>4, ListRead
    <2>2. ListsOf(heap', list')[l] = << >>
        BY <1>7, <2>1
    <2>3. QED
        BY <2>2, ValuesRead
<1>9. QED
    BY <1>2, <1>6, <1>7, <1>8 DEF Abstract!CreateList, Abstract!Is, Abstract!SetList, SetTo

LEMMA FreesList ==
    ASSUME NEW c, Kept(heap, list, hm, c), NEW l \in Lists, free_list(l)
    PROVE  Abstract!FreeList(l)
<1> DEFINE c2 == [c EXCEPT ![L(l)] = << >>]
<1>1. Kept(heap', list', hm', c2)
    BY FreeListKeeps
<1>2. SetTo(c2, c, L(l), << >>)
    BY DEF SetTo
<1> HIDE DEF c2
<1>3. \A k \in Lists : k # l => c2[L(k)] = c[L(k)]
    BY <1>2, PathSet
<1>4. list[l] # Null /\ hm' = hm /\ result' = Null
    BY DEF free_list
<1>5. list \in [Lists -> ListRecords \cup {Null}]
    BY DEF Kept
<1>6. list'[l] = Null /\ \A k \in Lists : k # l => list'[k] = list[k]
    BY <1>5 DEF free_list
<1>7. ListChange(heap, heap')
    <2>1. /\ Chain(list[l].head) = c[L(l)]
          /\ \A i \in DOMAIN c[L(l)] : heap[c[L(l)][i]].data \in Things
        BY <1>4, ListNodes DEF Chain
    <2>2. \A n \in Range(c[L(l)]) : heap[n].data \in Things
        BY <2>1 DEF Range
    <2>3. heap' = Without(heap, Range(c[L(l)]))
        BY <2>1 DEF free_list
    <2>4. QED
        BY <2>2, <2>3 DEF ListChange, Without
<1>8. SetTo(ListValues', ListValues, l, ListValues'[l]) /\ MapValues' = MapValues
    BY <1>1, <1>3, <1>4, <1>6, <1>7, ListCall
<1>9. ListValues[l] # Null
    BY <1>4, ListRead, ValuesRead
<1>10. ListValues'[l] = Null
    BY <1>1, <1>6, ListRead, ValuesRead
<1>11. QED
    BY <1>4, <1>8, <1>9, <1>10 DEF Abstract!FreeList, Abstract!Is, Abstract!SetList, SetTo

\* A list whose path has nodes is there.
LEMMA PathOfList ==
    ASSUME NEW h, NEW ls, NEW m, NEW c, Kept(h, ls, m, c), NEW l \in Lists, c[L(l)] # << >>
    PROVE  ls[l] # Null
    BY ListRead

LEMMA InsertsHead ==
    ASSUME NEW c, Kept(heap, list, hm, c), NEW l \in Lists, NEW thing \in Things,
           insert_head(l, thing)
    PROVE  Abstract!InsertHead(l, thing)
<1>1. PICK n \in FreeNodes :
          /\ Kept(heap', list', hm', [c EXCEPT ![L(l)] = << n >> \o c[L(l)]])
          /\ heap' = NewNode(n, thing, list[l].head)
    BY InsertHeadKeeps
<1> DEFINE c2 == [c EXCEPT ![L(l)] = << n >> \o c[L(l)]]
<1>2. Kept(heap', list', hm', c2) /\ SetTo(c2, c, L(l), << n >> \o c[L(l)])
    BY <1>1 DEF SetTo
<1> HIDE DEF c2
<1>3. c2[L(l)] = << n >> \o c[L(l)] /\ \A k \in Lists : k # l => c2[L(k)] = c[L(k)]
    <2> DEFINE path == << n >> \o c[L(l)]
    <2>1. SetTo(c2, c, L(l), path)
        BY <1>2
    <2> HIDE DEF path
    <2>2. c2[L(l)] = path /\ \A k \in Lists : k # l => c2[L(k)] = c[L(k)]
        BY <2>1, PathSet
    <2>3. QED
        BY <2>2 DEF path
<1>4. list[l] # Null /\ hm' = hm /\ result' = Null
    BY DEF insert_head
<1>5. \A k \in Lists : k # l => list'[k] = list[k]
    <2>1. list \in [Lists -> ListRecords \cup {Null}]
        BY DEF Kept
    <2>2. \E i, t : list' = [list EXCEPT ![l].head = i, ![l].tail = t]
        BY DEF insert_head
    <2>3. QED
        BY <2>1, <2>2
<1>6. list'[l] # Null
    <2>1. c[L(l)] \in Seq(DOMAIN heap)
        BY <1>4, ListNodes
    <2>2. << n >> \o c[L(l)] # << >>
        BY <2>1
    <2>3. QED
        BY <1>2, <1>3, <2>2, PathOfList
<1>7. ListChange(heap, heap') /\ heap'[n].data = thing
    <2>1. list[l].head \in Pointers /\ HeapTyped(heap)
        BY <1>4, ListNodes DEF Kept
    <2>2. /\ DOMAIN heap' = DOMAIN heap \cup {n} /\ heap'[n].data = thing
          /\ \A m \in DOMAIN heap : heap'[m] = heap[m]
        <3>1. heap' = NewNode(n, thing, list[l].head)
            BY <1>1
        <3>2. QED
            BY <2>1, <3>1, NodeGiven
    <2>3. QED
        BY <2>2 DEF ListChange
<1>8. SetTo(ListValues', ListValues, l, ListValues'[l]) /\ MapValues' = MapValues
    BY <1>2, <1>3, <1>4, <1>5, <1>7, ListCall
<1>9. ListValues[l] # Null
    BY <1>4, ListRead, ValuesRead
<1>10. ListValues'[l] = << thing >> \o ListValues[l]
    <2>1. Kept(heap', list', hm, c2)
        BY <1>2, <1>4
    <2>2. ListsOf(heap', list')[l] = << thing >> \o ListsOf(heap, list)[l]
        BY <1>3, <1>4, <1>6, <1>7, <2>1, PushedValue
    <2>3. QED
        BY <2>2, ValuesRead
<1>11. QED
    BY <1>4, <1>8, <1>9, <1>10 DEF Abstract!InsertHead, Abstract!Is, Abstract!SetList, SetTo

\* The heap and the lists with a thing at the end of list l.
LEMMA AppendedLists ==
    ASSUME NEW c, Kept(heap, list, hm, c), NEW l \in Lists, list[l] # Null,
           NEW thing \in Things, NEW n, NEW after, Appended(after, c, l, thing, n)
    PROVE  /\ SetTo(ListsOf(after[1], after[2]), ListsOf(heap, list), l,
                    Append(ListsOf(heap, list)[l], thing))
           /\ MapOf(after[1], hm) = MapOf(heap, hm)
<1> DEFINE c2 == [c EXCEPT ![L(l)] = Append(c[L(l)], n)]
<1>1. Kept(after[1], after[2], hm, c2) /\ SetTo(c2, c, L(l), Append(c[L(l)], n))
    BY DEF Appended, SetTo
<1> HIDE DEF c2
<1>2. c2[L(l)] = Append(c[L(l)], n) /\ \A k \in Lists : k # l => c2[L(k)] = c[L(k)]
    <2> DEFINE path == Append(c[L(l)], n)
    <2>1. SetTo(c2, c, L(l), path)
        BY <1>1
    <2> HIDE DEF path
    <2>2. c2[L(l)] = path /\ \A k \in Lists : k # l => c2[L(k)] = c[L(k)]
        BY <2>1, PathSet
    <2>3. QED
        BY <2>2 DEF path
<1>3. /\ ListChange(heap, after[1]) /\ after[1][n].data = thing
      /\ \A k \in Lists : k # l => after[2][k] = list[k]
      /\ after[2][l] # Null
    BY DEF Appended, ListChange
<1>4. /\ SetTo(ListsOf(after[1], after[2]), ListsOf(heap, list), l,
               ListsOf(after[1], after[2])[l])
      /\ MapOf(after[1], hm) = MapOf(heap, hm)
    BY <1>1, <1>2, <1>3, ListStep
<1>5. ListsOf(after[1], after[2])[l] = Append(ListsOf(heap, list)[l], thing)
    BY <1>1, <1>2, <1>3, AppendedValue
<1>6. QED
    BY <1>4, <1>5

\* The heap and the lists without the k-th thing of list l.
LEMMA TakenOutLists ==
    ASSUME NEW h, NEW ls, NEW m, NEW c, Kept(h, ls, m, c), NEW l \in Lists, ls[l] # Null,
           NEW k \in DOMAIN c[L(l)], NEW after, TakenOut(after, h, ls, m, c, l, k)
    PROVE  /\ SetTo(ListsOf(after[1], after[2]), ListsOf(h, ls), l,
                    Removed(ListsOf(h, ls)[l], k))
           /\ MapOf(after[1], m) = MapOf(h, m)
<1> DEFINE c2 == [c EXCEPT ![L(l)] = Removed(c[L(l)], k)]
<1>1. Kept(after[1], after[2], m, c2) /\ SetTo(c2, c, L(l), Removed(c[L(l)], k))
    BY DEF TakenOut, SetTo
<1> HIDE DEF c2
<1>2. c2[L(l)] = Removed(c[L(l)], k) /\ \A j \in Lists : j # l => c2[L(j)] = c[L(j)]
    BY <1>1, PathSet
<1>3. h[c[L(l)][k]].data \in Things
    BY ListNodes
<1>4. /\ ListChange(h, after[1])
      /\ \A j \in Lists : j # l => after[2][j] = ls[j]
      /\ after[2][l] # Null
    BY <1>3 DEF TakenOut, ListChange
<1>5. /\ SetTo(ListsOf(after[1], after[2]), ListsOf(h, ls), l, ListsOf(after[1], after[2])[l])
      /\ MapOf(after[1], m) = MapOf(h, m)
    BY <1>1, <1>2, <1>4, ListStep
<1>6. ListsOf(after[1], after[2])[l] = Removed(ListsOf(h, ls)[l], k)
    BY <1>1, <1>2, <1>4, RemovedValue
<1>7. QED
    BY <1>5, <1>6

LEMMA InsertsTail ==
    ASSUME NEW c, Kept(heap, list, hm, c), NEW l \in Lists, NEW thing \in Things,
           insert_tail(l, thing)
    PROVE  Abstract!InsertTail(l, thing)
<1>1. list[l] # Null /\ hm' = hm /\ result' = Null
    BY DEF insert_tail
<1>2. PICK n \in FreeNodes : Becomes(WithTail(l, thing, n))
    BY DEF insert_tail
<1> DEFINE after == WithTail(l, thing, n)
<1>3. heap' = after[1] /\ list' = after[2]
    BY <1>2 DEF Becomes
<1>4. Appended(after, c, l, thing, n)
    BY <1>1, TailGiven
<1> HIDE DEF after
<1>5. /\ SetTo(ListsOf(after[1], after[2]), ListsOf(heap, list), l,
               Append(ListsOf(heap, list)[l], thing))
      /\ MapOf(after[1], hm) = MapOf(heap, hm)
    BY <1>1, <1>4, AppendedLists
<1>6. SetTo(ListValues', ListValues, l, Append(ListValues[l], thing)) /\ MapValues' = MapValues
    BY <1>1, <1>3, <1>5, ValuesRead
<1>7. ListValues[l] # Null
    BY <1>1, ListRead, ValuesRead
<1>8. QED
    BY <1>1, <1>6, <1>7 DEF Abstract!InsertTail, Abstract!Is, Abstract!SetList, SetTo

\* IsEmpty is what it says.
LEMMA EmptyLists ==
    ASSUME NEW c, Kept(heap, list, hm, c), NEW l \in Lists
    PROVE  /\ IsEmpty(l) <=> Abstract!Empty(l)
           /\ IsEmpty(l) <=> c[L(l)] = << >>
<1>1. CASE list[l] = Null
    BY <1>1, ListRead, ValuesRead DEF IsEmpty, Abstract!Empty
<1>2. CASE list[l] # Null
    <2> DEFINE seq == ListsOf(heap, list)[l]
               path == c[L(l)]
    <2>1. list[l].head = Null <=> path = << >>
        BY <1>2, ListNodes
    <2>2. path \in Seq(DOMAIN heap)
        BY <1>2, ListNodes
    <2>3. seq \in Seq(Things) /\ seq # Null /\ Len(seq) = Len(path) /\ ListValues[l] = seq
        BY <1>2, ListRead, ValuesRead
    <2> HIDE DEF seq, path
    <2>4. path = << >> <=> seq = << >>
        BY <2>2, <2>3
    <2>5. QED
        BY <1>2, <2>1, <2>3, <2>4 DEF IsEmpty, Abstract!Empty, path
<1>3. QED
    BY <1>1, <1>2

\* Without its first element, a sequence is its tail.
LEMMA TailRemoves ==
    ASSUME NEW S, NEW seq \in Seq(S), seq # << >>
    PROVE  Removed(seq, 1) = Tail(seq)
<1>1. SubSeq(seq, 1, 1 - 1) = << >>
    BY SubSeqEmpty
<1>2. SubSeq(seq, 1 + 1, Len(seq)) = Tail(seq) /\ Tail(seq) \in Seq(S)
    BY TailIsSubSeq, HeadTailProperties
<1>3. << >> \o Tail(seq) = Tail(seq)
    BY <1>2, ConcatEmptySeq
<1>4. QED
    BY <1>1, <1>2, <1>3 DEF Removed

LEMMA DeletesHead ==
    ASSUME NEW c, Kept(heap, list, hm, c), NEW l \in Lists, delete_head(l)
    PROVE  Abstract!DeleteHead(l)
<1>1. CASE IsEmpty(l)
    <2>1. heap' = heap /\ list' = list /\ hm' = hm /\ result' = Null
        BY <1>1 DEF delete_head, Ignored
    <2>2. ListValues' = ListValues /\ MapValues' = MapValues
        BY <2>1, SameValues
    <2>3. Abstract!Empty(l)
        BY <1>1, EmptyLists
    <2>4. QED
        BY <2>1, <2>2, <2>3 DEF Abstract!DeleteHead
<1>2. CASE ~IsEmpty(l)
    <2> DEFINE after == << heap', list' >>
               seq == ListsOf(heap, list)[l]
               path == c[L(l)]
    <2>1. /\ TakenOut(after, heap, list, hm, c, l, 1) /\ hm' = hm
          /\ path # << >> /\ result' = heap[path[1]].data
        BY <1>2, DeleteHeadKeeps
    <2>2. after[1] = heap' /\ after[2] = list'
        OBVIOUS
    <2>3. list[l] # Null
        BY <1>2 DEF IsEmpty
    <2>4. path \in Seq(DOMAIN heap)
        BY <2>3, ListNodes
    <2>5. /\ seq \in Seq(Things) /\ Len(seq) = Len(path) /\ ListValues[l] = seq
          /\ \A k \in 1 .. Len(path) : seq[k] = heap[path[k]].data
        BY <2>3, ListRead, ValuesRead
    <2>6. ~Abstract!Empty(l)
        BY <1>2, EmptyLists
    <2> HIDE DEF after, seq, path
    <2>7. 1 \in DOMAIN path /\ 1 \in 1 .. Len(path) /\ seq # << >>
        BY <2>1, <2>4, <2>5
    <2>8. 1 \in DOMAIN c[L(l)]
        BY <2>7 DEF path
    <2>9. /\ SetTo(ListsOf(after[1], after[2]), ListsOf(heap, list), l,
                   Removed(ListsOf(heap, list)[l], 1))
          /\ MapOf(after[1], hm) = MapOf(heap, hm)
        BY <2>1, <2>3, <2>8, TakenOutLists
    <2>10. SetTo(ListValues', ListValues, l, Removed(seq, 1)) /\ MapValues' = MapValues
        BY <2>1, <2>2, <2>9, ValuesRead DEF seq
    <2>11. Removed(seq, 1) = Tail(seq)
        BY <2>5, <2>7, TailRemoves
    <2>12. SetTo(ListValues', ListValues, l, Tail(ListValues[l]))
        BY <2>5, <2>10, <2>11
    <2>13. result' = ListValues[l][1]
        BY <2>1, <2>5, <2>7
    <2>14. QED
        BY <2>6, <2>10, <2>12, <2>13 DEF Abstract!DeleteHead, Abstract!SetList, SetTo
<1>3. QED
    BY <1>1, <1>2

LEMMA GetsEnds ==
    ASSUME NEW c, Kept(heap, list, hm, c), NEW l \in Lists, get_ends(l)
    PROVE  Abstract!Ends(l)
<1>1. heap' = heap /\ list' = list /\ hm' = hm
    BY DEF get_ends
<1>2. ListValues' = ListValues /\ MapValues' = MapValues
    BY <1>1, SameValues
<1>3. CASE IsEmpty(l)
    <2>1. result' = << Null, Null >>
        <3>1. CASE list[l] = Null
            BY <3>1 DEF get_ends
        <3>2. CASE list[l] # Null
            <4>1. list[l].head = Null
                BY <1>3, <3>2 DEF IsEmpty
            <4>2. list[l].tail = Null /\ Null \notin DOMAIN heap
                BY <3>2, <4>1, ListNodes
            <4>3. DataAt(list[l].head) = Null /\ DataAt(list[l].tail) = Null
                BY <4>1, <4>2 DEF DataAt
            <4>4. QED
                BY <3>2, <4>3 DEF get_ends
        <3>3. QED
            BY <3>1, <3>2
    <2>2. Abstract!Empty(l)
        BY <1>3, EmptyLists
    <2>3. QED
        BY <1>2, <2>1, <2>2 DEF Abstract!Ends
<1>4. CASE ~IsEmpty(l)
    <2> DEFINE seq == ListsOf(heap, list)[l]
               path == c[L(l)]
    <2>1. list[l] # Null /\ path # << >> /\ ~Abstract!Empty(l)
        BY <1>4, EmptyLists DEF IsEmpty
    <2>2. /\ path \in Seq(DOMAIN heap) /\ list[l].head = path[1]
          /\ list[l].tail = path[Len(path)]
        BY <2>1, ListNodes
    <2>3. /\ Len(seq) = Len(path) /\ ListValues[l] = seq
          /\ \A k \in 1 .. Len(path) : seq[k] = heap[path[k]].data
        BY <2>1, ListRead, ValuesRead
    <2>4. result' = << DataAt(list[l].head), DataAt(list[l].tail) >>
        BY <2>1 DEF get_ends
    <2> HIDE DEF seq, path
    <2>5. 1 \in 1 .. Len(path) /\ Len(path) \in 1 .. Len(path)
        BY <2>1, <2>2
    <2>6. path[1] \in DOMAIN heap /\ path[Len(path)] \in DOMAIN heap
        BY <2>2, <2>5
    <2>7. DataAt(list[l].head) = seq[1] /\ DataAt(list[l].tail) = seq[Len(seq)]
        BY <2>2, <2>3, <2>5, <2>6 DEF DataAt
    <2>8. result' = << seq[1], seq[Len(seq)] >>
        BY <2>4, <2>7
    <2>9. QED
        BY <1>2, <2>1, <2>3, <2>8 DEF Abstract!Ends
<1>5. QED
    BY <1>3, <1>4

LEMMA Moves ==
    ASSUME NEW c, Kept(heap, list, hm, c), NEW from \in Lists, NEW to \in Lists, NEW k \in Nat,
           Move(from, to, k)
    PROVE  /\ Abstract!Is(from) /\ k \in DOMAIN ListValues[from]
           /\ Abstract!Move(from, to, k)
<1> DEFINE thing == heap[c[L(from)][k]].data
<1>1. k \in DOMAIN c[L(from)] /\ list[from] # Null /\ list[to] # Null
    BY MoveKeeps
<1>2. PICK n \in FreeNodes : \E more, c1 :
         /\ Appended(more, c, to, thing, n)
         /\ SetTo(c1, c, L(to), Append(c[L(to)], n))
         /\ TakenOut(<< heap', list' >>, more[1], more[2], hm, c1, from, k)
    BY MoveKeeps
<1>3. PICK more, c1 :
         /\ Appended(more, c, to, thing, n)
         /\ SetTo(c1, c, L(to), Append(c[L(to)], n))
         /\ TakenOut(<< heap', list' >>, more[1], more[2], hm, c1, from, k)
    BY <1>2
<1> DEFINE after == << heap', list' >>
<1>4. TakenOut(after, more[1], more[2], hm, c1, from, k)
    BY <1>3
<1>5. after[1] = heap' /\ after[2] = list'
    OBVIOUS
<1> HIDE DEF after
<1>6. Kept(more[1], more[2], hm, c1)
    <2> DEFINE c2 == [c EXCEPT ![L(to)] = Append(c[L(to)], n)]
    <2>1. Kept(more[1], more[2], hm, c2)
        BY <1>3 DEF Appended
    <2>2. c1 = c2
        BY <1>3 DEF SetTo
    <2> HIDE DEF c2
    <2>3. QED
        BY <2>1, <2>2
<1>7. /\ c[L(from)] \in Seq(DOMAIN heap) /\ c[L(to)] \in Seq(DOMAIN heap)
      /\ DOMAIN c[L(from)] = 1 .. Len(c[L(from)]) /\ thing \in Things
      /\ \A i \in DOMAIN c[L(from)] : heap[c[L(from)][i]].data \in Things
    BY <1>1, ListNodes
<1>8. k \in DOMAIN c1[L(from)]
    <2> DEFINE path == Append(c[L(to)], n)
    <2>1. SetTo(c1, c, L(to), path) /\ \A i \in DOMAIN c[L(to)] : i \in DOMAIN path
        BY <1>3, <1>7
    <2> HIDE DEF path
    <2>2. c1[L(to)] = path /\ \A j \in Lists : j # to => c1[L(j)] = c[L(j)]
        BY <2>1, PathSet
    <2>3. QED
        BY <1>1, <2>1, <2>2
<1>9. more[2][from] # Null
    <2>1. more[2][to] # Null /\ \A j \in Lists : j # to => more[2][j] = list[j]
        BY <1>3 DEF Appended
    <2>2. QED
        BY <1>1, <2>1
<1> DEFINE middle == ListsOf(more[1], more[2])
<1>10. /\ SetTo(middle, ListsOf(heap, list), to, Append(ListsOf(heap, list)[to], thing))
       /\ MapOf(more[1], hm) = MapOf(heap, hm)
    <2> DEFINE thing2 == thing
    <2>1. thing2 \in Things /\ Appended(more, c, to, thing2, n)
        BY <1>3, <1>7
    <2> HIDE DEF thing2
    <2>2. /\ SetTo(middle, ListsOf(heap, list), to, Append(ListsOf(heap, list)[to], thing2))
          /\ MapOf(more[1], hm) = MapOf(heap, hm)
        BY <1>1, <2>1, AppendedLists
    <2>3. QED
        BY <2>2 DEF thing2
<1>11. /\ SetTo(ListsOf(after[1], after[2]), middle, from, Removed(middle[from], k))
       /\ MapOf(after[1], hm) = MapOf(more[1], hm)
    BY <1>4, <1>6, <1>8, <1>9, TakenOutLists
<1>12. /\ ListValues[from] # Null /\ ListValues[to] # Null /\ k \in DOMAIN ListValues[from]
       /\ thing = ListValues[from][k]
    <2> DEFINE seq == ListsOf(heap, list)[from]
    <2>1. /\ seq \in Seq(Things) /\ Len(seq) = Len(c[L(from)]) /\ ListValues[from] = seq
          /\ seq # Null /\ \A i \in 1 .. Len(c[L(from)]) : seq[i] = heap[c[L(from)][i]].data
        BY <1>1, ListRead, ValuesRead
    <2>2. ListValues[to] # Null
        BY <1>1, ListRead, ValuesRead
    <2> HIDE DEF seq
    <2>3. k \in 1 .. Len(c[L(from)]) /\ k \in DOMAIN seq
        BY <1>1, <1>7, <2>1
    <2>4. QED
        BY <2>1, <2>2, <2>3
<1>13. hm' = hm /\ result' = Null
    BY DEF Move
<1> HIDE DEF thing, middle
<1>14. SetTo(middle, ListValues, to, Append(ListValues[to], ListValues[from][k]))
    BY <1>10, <1>12, ValuesRead
<1>15. SetTo(ListValues', middle, from, Removed(middle[from], k)) /\ MapValues' = MapValues
    BY <1>5, <1>10, <1>11, <1>13, ValuesRead
<1>16. Abstract!Move(from, to, k)
    <2>1. Abstract!Is(to)
        BY <1>12 DEF Abstract!Is
    <2>2. middle = [ListValues EXCEPT ![to] = Append(ListValues[to], ListValues[from][k])]
        BY <1>14 DEF SetTo
    <2>3. ListValues' = [middle EXCEPT ![from] = SubSeq(middle[from], 1, k - 1)
                                         \o SubSeq(middle[from], k + 1, Len(middle[from]))]
        BY <1>15 DEF SetTo, Removed
    <2>4. QED
        BY <1>13, <1>15, <2>1, <2>2, <2>3 DEF Abstract!Move
<1>17. QED
    BY <1>12, <1>16 DEF Abstract!Is

\* A call on the map leaves the lists.
LEMMA ListsSame ==
    ASSUME NEW c, Kept(heap, list, hm, c), NEW c2, Kept(heap', list', hm', c2), list' = list,
           \A l \in Lists : c2[L(l)] = c[L(l)],
           \A n \in DOMAIN heap \cap DOMAIN heap' :
              heap[n].data \in Things => heap'[n].data = heap[n].data
    PROVE  ListValues' = ListValues
<1>1. ASSUME NEW l \in Lists PROVE ListsOf(heap', list')[l] = ListsOf(heap, list)[l]
    <2>1. list'[l] = list[l] /\ c2[L(l)] = c[L(l)]
        OBVIOUS
    <2>2. QED
        BY <2>1, ListSame
<1> DEFINE before == ListsOf(heap, list)
           after == ListsOf(heap', list')
<1>2. before = [l \in Lists |-> before[l]] /\ after = [l \in Lists |-> after[l]]
    BY DEF ListsOf
<1>3. \A l \in Lists : after[l] = before[l]
    BY <1>1
<1> HIDE DEF before, after
<1>4. after = before
    BY <1>2, <1>3
<1>5. QED
    BY <1>4, ValuesRead DEF before, after

LEMMA CreatesMap ==
    ASSUME NEW c, Kept(heap, list, hm, c), create_map
    PROVE  Abstract!CreateMap
<1>1. hm = Null /\ heap' = heap /\ list' = list /\ result' = Null
    BY DEF create_map
<1>2. PICK c2 : Kept(heap', list', hm', c2) /\ \A l \in Lists : c2[L(l)] = c[L(l)]
    BY CreateMapKeeps
<1>3. hm' # Null
    <2>1. HASHSIZE \in Sizes
        BY DataStructsAssumption, FS_CardinalityType DEF Sizes
    <2>2. NewMap \in MapsOf(HASHSIZE)
        BY DataStructsAssumption, FS_CardinalityType DEF NewMap, MapsOf, Pointers
    <2>3. NewMap # Null
        BY <2>1, <2>2, DataStructsAssumption
    <2>4. QED
        BY <2>3, CreateMapKeeps
<1>4. ListValues' = ListValues
    BY <1>1, <1>2, ListsSame
<1>5. Hashed(heap') = {}
    <2>1. Forest(heap, Starts(list, hm), c) /\ DataKept(heap, hm, c) /\ Buckets(hm) = {}
        BY <1>1 DEF Kept, Buckets
    <2>2. Hashed(heap) = {}
        BY <2>1, HashedNodes
    <2>3. QED
        BY <1>1, <2>2
<1>6. MapValues = Null
    BY <1>1, ValuesRead DEF MapOf
<1>7. \A key \in Keys : MapOf(heap', hm')[key] = Null
    BY <1>2, <1>3, <1>5, MapRead
<1>8. MapOf(heap', hm') = [key \in Keys |-> MapOf(heap', hm')[key]]
    BY <1>3 DEF MapOf
<1>9. MapOf(heap', hm') = [key \in Keys |-> Null]
    BY <1>7, <1>8
<1>10. MapValues' = [key \in Keys |-> Null]
    BY <1>9, ValuesRead
<1>11. QED
    BY <1>1, <1>4, <1>6, <1>10 DEF Abstract!CreateMap

LEMMA FreesMap ==
    ASSUME NEW c, Kept(heap, list, hm, c), free_map
    PROVE  Abstract!FreeMap
<1>1. hm # Null /\ heap' = Without(heap, Chained) /\ list' = list /\ hm' = Null /\ result' = Null
    BY DEF free_map, Chained
<1>2. PICK c2 : Kept(heap', list', hm', c2) /\ \A l \in Lists : c2[L(l)] = c[L(l)]
    BY FreeMapKeeps
<1>3. \A n \in DOMAIN heap \cap DOMAIN heap' : heap'[n].data = heap[n].data
    BY <1>1 DEF Without
<1>4. ListValues' = ListValues
    BY <1>1, <1>2, <1>3, ListsSame
<1>5. MapValues' = Null
    BY <1>1, ValuesRead DEF MapOf
<1>6. MapOf(heap, hm) # Null
    <2>1. CASE Keys = {}
        <3>1. MapOf(heap, hm) \in [Keys -> Things \cup {Null}]
            BY <1>1, <2>1 DEF MapOf
        <3>2. QED
            BY <3>1, DataStructsAssumption
    <2>2. CASE Keys # {}
        BY <1>1, <2>2, MapRead
    <2>3. QED
        BY <2>1, <2>2
<1>7. QED
    BY <1>1, <1>4, <1>5, <1>6, ValuesRead DEF Abstract!FreeMap

\* A pair set: the map has another value for its key.
LEMMA MapSet ==
    ASSUME NEW h, NEW ls, NEW m, NEW c, Kept(h, ls, m, c), m # Null,
           NEW h2, NEW ls2, NEW m2, NEW c2, Kept(h2, ls2, m2, c2), m2 # Null,
           NEW key \in Keys, NEW value, NEW n \in Hashed(h2),
           KeyOf(h2, n) = key, h2[n].data[2] = value,
           \A o \in Hashed(h2) : o # n => o \in Hashed(h) /\ h2[o].data = h[o].data,
           \A o \in Hashed(h) : KeyOf(h, o) # key => o \in Hashed(h2) /\ o # n
    PROVE  SetTo(MapOf(h2, m2), MapOf(h, m), key, value)
<1> DEFINE before == MapOf(h, m)
           after == MapOf(h2, m2)
<1>1. before = [k \in Keys |-> before[k]] /\ after = [k \in Keys |-> after[k]]
    BY DEF MapOf
<1>2. after[key] = value
    BY MapRead
<1>3. ASSUME NEW k \in Keys, k # key PROVE after[k] = before[k]
    <2>1. CASE \E o \in Hashed(h) : KeyOf(h, o) = k
        <3>1. PICK o \in Hashed(h) : KeyOf(h, o) = k
            BY <2>1
        <3>2. o \in Hashed(h2) /\ h2[o].data = h[o].data
            BY <1>3, <3>1
        <3>3. KeyOf(h2, o) = k
            BY <3>1, <3>2 DEF KeyOf
        <3>4. before[k] = h[o].data[2]
            BY <3>1, MapRead
        <3>5. after[k] = h2[o].data[2]
            BY <3>2, <3>3, MapRead
        <3>6. QED
            BY <3>2, <3>4, <3>5
    <2>2. CASE \A o \in Hashed(h) : KeyOf(h, o) # k
        <3>1. \A o \in Hashed(h2) : KeyOf(h2, o) # k
            <4>1. SUFFICES ASSUME NEW o \in Hashed(h2), KeyOf(h2, o) = k PROVE FALSE
                OBVIOUS
            <4>2. o # n
                BY <1>3, <4>1
            <4>3. o \in Hashed(h) /\ KeyOf(h, o) = k
                BY <4>1, <4>2 DEF KeyOf
            <4>4. QED
                BY <2>2, <4>3
        <3>2. before[k] = Null
            BY <2>2, MapRead
        <3>3. after[k] = Null
            BY <3>1, MapRead
        <3>4. QED
            BY <3>2, <3>3
    <2>3. QED
        BY <2>1, <2>2
<1> HIDE DEF before, after
<1>4. after = [before EXCEPT ![key] = value]
    BY <1>1, <1>2, <1>3
<1>5. QED
    BY <1>4 DEF SetTo, before, after

LEMMA PutsThere ==
    ASSUME NEW c, Kept(heap, list, hm, c), hm # Null, NEW key \in Keys, NEW value \in Things,
           PutThere(key, value)
    PROVE  Abstract!Put(key, value)
<1>1. Kept(heap', list', hm', c)
    BY PutThereKeeps
<1>2. PICK n \in Found(key) : /\ heap' = [heap EXCEPT ![n].data = << key, value >>]
                              /\ n \in Hashed(heap) /\ Hashed(heap') = Hashed(heap)
                              /\ result' = heap[n].data[2]
    BY PutThereKeeps
<1>3. list' = list /\ hm' = hm
    BY DEF PutThere
<1>4. KeyOf(heap, n) = key /\ n \in Hashed(heap) /\ n \in Hashed(heap')
      /\ Hashed(heap') = Hashed(heap)
    BY <1>2, FoundNode
<1>5. /\ DOMAIN heap' = DOMAIN heap /\ heap'[n].data = << key, value >>
      /\ \A o \in DOMAIN heap : o # n => heap'[o] = heap[o]
    <2>1. heap = [o \in DOMAIN heap |-> heap[o]] /\ n \in DOMAIN heap
        BY <1>4 DEF Kept, HeapTyped, Hashed
    <2>2. heap[n] \in [data : Things \cup (Keys \X Things), next : Pointers]
        BY <2>1 DEF Kept, HeapTyped
    <2>3. QED
        BY <1>2, <2>1, <2>2
<1>6. \A o \in DOMAIN heap \cap DOMAIN heap' : heap[o].data \in Things => heap'[o].data = heap[o].data
    BY <1>4, <1>5, DataStructsAssumption DEF Hashed
<1>7. ListValues' = ListValues
    BY <1>1, <1>3, <1>6, ListsSame
<1>8. KeyOf(heap', n) = key /\ heap'[n].data[2] = value
    BY <1>5 DEF KeyOf
<1>9. \A o \in Hashed(heap') : o # n => o \in Hashed(heap) /\ heap'[o].data = heap[o].data
    BY <1>4, <1>5 DEF Hashed
<1>10. \A o \in Hashed(heap) : KeyOf(heap, o) # key => o \in Hashed(heap') /\ o # n
    BY <1>4
<1>11. hm' # Null
    BY <1>3
<1>12. SetTo(MapOf(heap', hm'), MapOf(heap, hm), key, value)
    BY <1>1, <1>4, <1>8, <1>9, <1>10, <1>11, MapSet
<1>13. MapOf(heap, hm)[key] = heap[n].data[2] /\ MapOf(heap, hm) # Null
    BY <1>4, MapRead
<1>14. heap[n].data[2] \in Things /\ heap[n].data[2] # Null
    BY <1>4, DataStructsAssumption DEF Hashed
<1>15. result' = heap[n].data[2]
    BY <1>2
<1>16. QED
    BY <1>7, <1>12, <1>13, <1>14, <1>15, ValuesRead DEF Abstract!Put, SetTo

LEMMA PutsNew ==
    ASSUME NEW c, Kept(heap, list, hm, c), hm # Null, NEW key \in Keys, NEW value \in Things,
           PutNew(key, value)
    PROVE  Abstract!Put(key, value)
<1>1. PICK c2 : Kept(heap', list', hm', c2) /\ \A l \in Lists : c2[L(l)] = c[L(l)]
    BY PutNewKeeps
<1>2. hm' # Null
    BY PutNewKeeps
<1>3. PICK n \in FreeNodes : /\ Hashed(heap') = Hashed(heap) \cup {n} /\ n \notin DOMAIN heap
                             /\ heap'[n].data = << key, value >>
                             /\ \A o \in DOMAIN heap : heap'[o].data = heap[o].data
    BY PutNewKeeps
<1>4. Found(key) = {} /\ list' = list /\ result' = value
    BY DEF PutNew
<1>5. ListValues' = ListValues
    BY <1>1, <1>3, <1>4, ListsSame
<1>6. n \in Hashed(heap') /\ KeyOf(heap', n) = key /\ heap'[n].data[2] = value
    BY <1>3 DEF KeyOf
<1>7. /\ \A o \in Hashed(heap') : o # n => o \in Hashed(heap) /\ heap'[o].data = heap[o].data
      /\ \A o \in Hashed(heap) : KeyOf(heap, o) # key => o \in Hashed(heap') /\ o # n
    BY <1>3 DEF Hashed
<1>8. SetTo(MapOf(heap', hm'), MapOf(heap, hm), key, value)
    BY <1>1, <1>2, <1>6, <1>7, MapSet
<1>9. \A o \in Hashed(heap) : KeyOf(heap, o) # key
    BY <1>4, FoundNode
<1>10. MapOf(heap, hm)[key] = Null /\ MapOf(heap, hm) # Null
    BY <1>9, MapRead
<1>11. QED
    BY <1>4, <1>5, <1>8, <1>10, ValuesRead DEF Abstract!Put, SetTo

LEMMA Gets ==
    ASSUME NEW c, Kept(heap, list, hm, c), NEW key \in Keys, get(key)
    PROVE  Abstract!Get(key)
<1>1. heap' = heap /\ list' = list /\ hm' = hm
    BY DEF get
<1>2. ListValues' = ListValues /\ MapValues' = MapValues
    BY <1>1, SameValues
<1>3. result' = IF MapValues = Null THEN Null ELSE MapValues[key]
    <2>1. CASE hm = Null
        <3>1. MapValues = Null
            BY <2>1 DEF MapValues
        <3>2. QED
            BY <2>1, <3>1 DEF get
    <2>2. CASE hm # Null
        <3>1. MapValues = [k \in Keys |-> Value(k)]
            BY <2>2 DEF MapValues
        <3>2. MapValues # Null
            BY <2>2, MapRead, ValuesRead
        <3>3. MapValues[key] = Value(key)
            BY <3>1
        <3>4. QED
            BY <2>2, <3>2, <3>3 DEF get
    <2>3. QED
        BY <2>1, <2>2
<1>4. QED
    BY <1>2, <1>3 DEF Abstract!Get

\* A call without a list or a map.
LEMMA DoesNothing ==
    ASSUME Ignored, hm = Null \/ \E l \in Lists : list[l] = Null
    PROVE  Abstract!Nothing
<1>1. heap' = heap /\ list' = list /\ hm' = hm /\ result' = Null
    BY DEF Ignored
<1>2. ListValues' = ListValues /\ MapValues' = MapValues
    BY <1>1, SameValues
<1>3. hm = Null => MapValues = Null
    BY DEF MapValues
<1>4. \A l \in Lists : list[l] = Null => ListValues[l] = Null
    BY DEF ListValues
<1>5. QED
    BY <1>1, <1>2, <1>3, <1>4 DEF Abstract!Nothing

\* Every step is one of Collections.
LEMMA NextMapped ==
    ASSUME IInv, Next
    PROVE  Abstract!Next
<1>1. PICK c : Kept(heap, list, hm, c)
    BY DEF IInv
<1>2. ASSUME NEW l \in Lists, create_list(l) PROVE Abstract!Next
    BY <1>1, <1>2, CreatesList DEF Abstract!Next
<1>3. ASSUME NEW l \in Lists, free_list(l) PROVE Abstract!Next
    BY <1>1, <1>3, FreesList DEF Abstract!Next
<1>4. ASSUME NEW l \in Lists, delete_head(l) PROVE Abstract!Next
    BY <1>1, <1>4, DeletesHead DEF Abstract!Next
<1>5. ASSUME NEW l \in Lists, get_ends(l) PROVE Abstract!Next
    BY <1>1, <1>5, GetsEnds DEF Abstract!Next
<1>6. ASSUME NEW l \in Lists, list[l] = Null /\ Ignored PROVE Abstract!Next
    BY <1>6, DoesNothing DEF Abstract!Next
<1>7. ASSUME NEW l \in Lists, NEW thing \in Things, insert_head(l, thing) PROVE Abstract!Next
    BY <1>1, <1>7, InsertsHead DEF Abstract!Next
<1>8. ASSUME NEW l \in Lists, NEW thing \in Things, insert_tail(l, thing) PROVE Abstract!Next
    BY <1>1, <1>8, InsertsTail DEF Abstract!Next
<1>9. ASSUME NEW l \in Lists, NEW to \in Lists, NEW k \in 1 .. Cardinality(Nodes),
             Move(l, to, k)
      PROVE  Abstract!Next
    <2>1. k \in Nat
        OBVIOUS
    <2>2. Abstract!Is(l) /\ k \in DOMAIN ListValues[l] /\ Abstract!Move(l, to, k)
        BY <1>1, <1>9, <2>1, Moves
    <2>3. QED
        BY <2>2 DEF Abstract!Next
<1>10. CASE create_map
    BY <1>1, <1>10, CreatesMap DEF Abstract!Next
<1>11. CASE free_map
    BY <1>1, <1>11, FreesMap DEF Abstract!Next
<1>12. ASSUME NEW key \in Keys, get(key) PROVE Abstract!Next
    BY <1>1, <1>12, Gets DEF Abstract!Next
<1>13. ASSUME NEW key \in Keys, NEW thing \in Things, put(key, thing) PROVE Abstract!Next
    <2>1. CASE hm = Null /\ Ignored
        BY <2>1, DoesNothing DEF Abstract!Next
    <2>2. CASE hm # Null /\ PutThere(key, thing)
        BY <1>1, <2>2, PutsThere DEF Abstract!Next
    <2>3. CASE hm # Null /\ PutNew(key, thing)
        BY <1>1, <2>3, PutsNew DEF Abstract!Next
    <2>4. QED
        BY <1>13, <2>1, <2>2, <2>3 DEF put
<1>14. QED
    BY <1>2, <1>3, <1>4, <1>5, <1>6, <1>7, <1>8, <1>9, <1>10, <1>11, <1>12, <1>13 DEF Next

\* The lists and the map are the sequences and the partial function that the scheduler
\* and the library take them for, and every call of datastructs.c returns what they
\* contain: it implements Collections.
THEOREM CollectionsImplemented == Spec => ImplementsCollections
<1>1. Init => Abstract!Init
    <2>1. SUFFICES ASSUME Init PROVE Abstract!Init
        OBVIOUS
    <2>2. hm = Null /\ result = Null /\ \A l \in Lists : list[l] = Null
        BY <2>1 DEF Init
    <2>3. MapValues = Null
        BY <2>2 DEF MapValues
    <2>4. ListValues = [l \in Lists |-> Null]
        BY <2>2 DEF ListValues
    <2>5. QED
        BY <2>2, <2>3, <2>4 DEF Abstract!Init
<1>2. IInv /\ [Next]_vars => [Abstract!Next]_(Abstract!vars)
    <2>1. SUFFICES ASSUME IInv, [Next]_vars PROVE [Abstract!Next]_(Abstract!vars)
        OBVIOUS
    <2>2. CASE Next
        BY <2>1, <2>2, NextMapped
    <2>3. CASE UNCHANGED vars
        <3>1. heap' = heap /\ list' = list /\ hm' = hm /\ result' = result
            BY <2>3 DEF vars
        <3>2. ListValues' = ListValues /\ MapValues' = MapValues
            BY <3>1, SameValues
        <3>3. QED
            BY <3>1, <3>2 DEF Abstract!vars
    <2>4. QED
        BY <2>1, <2>2, <2>3
<1>3. QED
    BY <1>1, <1>2, Inductive, PTL DEF Spec, ImplementsCollections, Abstract!Spec
=============================================================================
