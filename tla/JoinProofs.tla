------------------------------ MODULE JoinProofs -------------------------------
(***************************************************************************)
(* Where a lock waiter tries again in one quantum, so that the timer calls *)
(* take effect and no list surgery is interrupted, the ready queues hold   *)
(* the threads that can run, each once, and a join returns when its target *)
(* is done and leaves no joiner behind.  The two are proved together, with *)
(* RetryInQuantum the hypothesis of every theorem here: a thread woken     *)
(* by an exit is put in a queue without a look at where it is, so that it  *)
(* is in none rests on the lists of waiters, and these on who has the CPU. *)
(* Then what becomes of the threads that end: their stacks are freed when  *)
(* they are off the CPU, and exit(0) is called only when no thread can run *)
(* again.                                                                  *)
(***************************************************************************)
EXTENDS MyPthreadProofs

USE DEF BoostLabels, WaiterLabels, OwnerLabels, LockLabels

\* A thread that tries again in one quantum is not interrupted between the
\* statements of the lock loop.
LEMMA QuietRetry == RetryInQuantum => ~RetryStep
BY RetryFrame DEF Interruptible

-----------------------------------------------------------------------------
(* The queues as sets of nodes *)

IsIn(q, t) == \E prio \in Prios : \E k \in DOMAIN q[prio] : q[prio][k] = t

Placed(q, prio, t) == \E k \in DOMAIN q[prio] : q[prio][k] = t

QueueFor(prio) == IF prio < NUM_QUEUES THEN prio ELSE NUM_QUEUES - 1

NodesUnique(q) ==
    \A p1, p2 \in Prios : \A k1 \in DOMAIN q[p1], k2 \in DOMAIN q[p2] :
        q[p1][k1] = q[p2][k2] => p1 = p2 /\ k1 = k2

\* The same, of all nodes but one.
OthersUnique(q, prio, k) ==
    \A p1, p2 \in Prios : \A k1 \in DOMAIN q[p1], k2 \in DOMAIN q[p2] :
        /\ q[p1][k1] = q[p2][k2]
        /\ ~(p1 = prio /\ k1 = k) /\ ~(p2 = prio /\ k2 = k)
        => p1 = p2 /\ k1 = k2

\* An insertion adds one node.
LEMMA InsertNodes ==
    ASSUME NEW q \in ReadyQType, NEW t \in Threads, NEW prio \in Nat
    PROVE  LET r == insert_ready_q(q, t, prio)
               to == IF prio < NUM_QUEUES THEN prio ELSE NUM_QUEUES - 1
           IN  /\ r \in ReadyQType /\ to \in Prios /\ Len(q[to]) \in Nat
               /\ \A p \in Prios \ {to} : r[p] = q[p]
               /\ DOMAIN q[to] = 1 .. Len(q[to])
               /\ DOMAIN r[to] = 1 .. Len(q[to]) + 1
               /\ \A k \in DOMAIN q[to] : r[to][k] = q[to][k]
               /\ r[to][Len(q[to]) + 1] = t
<1> DEFINE to == IF prio < NUM_QUEUES THEN prio ELSE NUM_QUEUES - 1
           r == insert_ready_q(q, t, prio)
<1>1. to \in Prios
    BY SchedulerAssumption DEF Prios
<1>2. r = [q EXCEPT ![to] = Append(q[to], t)]
    BY <1>1 DEF insert_ready_q
<1>3. q[to] \in Seq(Threads) /\ Len(q[to]) \in Nat /\ DOMAIN q[to] = 1 .. Len(q[to])
    BY <1>1, LenProperties DEF ReadyQType
<1> HIDE DEF to
<1>4. r[to] = Append(q[to], t) /\ \A p \in Prios \ {to} : r[p] = q[p]
    BY <1>1, <1>2 DEF ReadyQType
<1>5. /\ Append(q[to], t) \in Seq(Threads) /\ Len(Append(q[to], t)) = Len(q[to]) + 1
      /\ \A k \in 1 .. Len(q[to]) : Append(q[to], t)[k] = q[to][k]
      /\ Append(q[to], t)[Len(q[to]) + 1] = t
    BY <1>3, AppendProperties
<1>6. DOMAIN r[to] = 1 .. Len(q[to]) + 1
    BY <1>4, <1>5, LenProperties
<1>7. r \in ReadyQType
    BY InsertType
<1>8. QED
    BY <1>1, <1>3, <1>4, <1>5, <1>6, <1>7 DEF to

LEMMA InsertQueued ==
    ASSUME NEW q \in ReadyQType, NEW t \in Threads, NEW prio \in Nat
    PROVE  /\ \A u : IsIn(insert_ready_q(q, t, prio), u) <=> IsIn(q, u) \/ u = t
           /\ \A p \in Prios : \A u : Placed(insert_ready_q(q, t, prio), p, u) =>
                 Placed(q, p, u) \/ (u = t /\ p = QueueFor(prio))
           /\ NodesUnique(q) /\ ~IsIn(q, t) => NodesUnique(insert_ready_q(q, t, prio))
<1> DEFINE to == IF prio < NUM_QUEUES THEN prio ELSE NUM_QUEUES - 1
           r == insert_ready_q(q, t, prio)
           last == Len(q[to]) + 1
<1>1. /\ r \in ReadyQType /\ to \in Prios /\ last \in Nat \ {0}
      /\ \A p \in Prios \ {to} : r[p] = q[p]
      /\ DOMAIN q[to] = 1 .. last - 1 /\ DOMAIN r[to] = 1 .. last
      /\ \A k \in DOMAIN q[to] : r[to][k] = q[to][k]
      /\ r[to][last] = t
    <2>1. /\ r \in ReadyQType /\ to \in Prios /\ Len(q[to]) \in Nat
          /\ \A p \in Prios \ {to} : r[p] = q[p]
          /\ DOMAIN q[to] = 1 .. Len(q[to]) /\ DOMAIN r[to] = 1 .. Len(q[to]) + 1
          /\ \A k \in DOMAIN q[to] : r[to][k] = q[to][k]
          /\ r[to][Len(q[to]) + 1] = t
        BY InsertNodes
    <2> HIDE DEF to, r
    <2>2. QED
        BY <2>1
<1> HIDE DEF to, r, last
<1>2. \A p \in Prios : \A k : k \in DOMAIN r[p] =>
          \/ k \in DOMAIN q[p] /\ r[p][k] = q[p][k]
          \/ p = to /\ k = last /\ r[p][k] = t
    BY <1>1
<1>3. \A p \in Prios : \A k \in DOMAIN q[p] : k \in DOMAIN r[p] /\ r[p][k] = q[p][k]
    BY <1>1
<1>4. last \in DOMAIN r[to] /\ last \notin DOMAIN q[to]
    BY <1>1
<1>5. \A u : IsIn(r, u) <=> IsIn(q, u) \/ u = t
    BY <1>1, <1>2, <1>3, <1>4 DEF IsIn
<1>6. NodesUnique(q) /\ ~IsIn(q, t) => NodesUnique(r)
    BY <1>2 DEF NodesUnique, IsIn
<1>7. \A p \in Prios : \A u : Placed(r, p, u) => Placed(q, p, u) \/ (u = t /\ p = to)
    BY <1>2 DEF Placed
<1>8. QED
    BY <1>5, <1>6, <1>7 DEF r, to, QueueFor

\* A queue without one of its nodes.
LEMMA RemoveNode ==
    ASSUME NEW q, NEW r, NEW prio \in Prios, NEW n \in Nat, NEW k \in 1 .. n,
           DOMAIN q[prio] = 1 .. n, DOMAIN r[prio] = 1 .. n - 1,
           \A i \in 1 .. n - 1 : r[prio][i] = q[prio][IF i < k THEN i ELSE i + 1],
           \A p \in Prios \ {prio} : r[p] = q[p]
    PROVE  /\ \A u : IsIn(r, u) <=>
                 \E p \in Prios : \E i \in DOMAIN q[p] : q[p][i] = u /\ ~(p = prio /\ i = k)
           /\ \A p \in Prios : \A u : Placed(r, p, u) =>
                 \E i \in DOMAIN q[p] : q[p][i] = u /\ ~(p = prio /\ i = k)
           /\ OthersUnique(q, prio, k) => NodesUnique(r)
<1> DEFINE from(p, i) == IF p = prio /\ ~(i < k) THEN i + 1 ELSE i
<1>1. \A p \in Prios : \A i \in DOMAIN r[p] :
          from(p, i) \in DOMAIN q[p] /\ r[p][i] = q[p][from(p, i)] /\ ~(p = prio /\ from(p, i) = k)
    OBVIOUS
<1>2. \A p \in Prios : \A i, j \in DOMAIN r[p] : from(p, i) = from(p, j) => i = j
    OBVIOUS
<1>3. \A p \in Prios : \A i \in DOMAIN q[p] : ~(p = prio /\ i = k) =>
          \E j \in DOMAIN r[p] : r[p][j] = q[p][i]
    <2> SUFFICES ASSUME NEW p \in Prios, NEW i \in DOMAIN q[p], ~(p = prio /\ i = k)
                 PROVE  \E j \in DOMAIN r[p] : r[p][j] = q[p][i]
        OBVIOUS
    <2>1. CASE p # prio
        BY <2>1
    <2>2. CASE p = prio /\ i < k
        BY <2>2
    <2>3. CASE p = prio /\ i > k
        <3>1. i - 1 \in 1 .. n - 1 /\ ~(i - 1 < k) /\ (i - 1) + 1 = i
            BY <2>3
        <3>2. r[p][i - 1] = q[p][i] /\ i - 1 \in DOMAIN r[p]
            BY <2>3, <3>1
        <3>3. QED
            BY <3>2
    <2>4. QED
        BY <2>1, <2>2, <2>3
<1> HIDE DEF from
<1>4. \A u : IsIn(r, u) <=>
          \E p \in Prios : \E i \in DOMAIN q[p] : q[p][i] = u /\ ~(p = prio /\ i = k)
    BY <1>1, <1>3 DEF IsIn
<1>5. OthersUnique(q, prio, k) => NodesUnique(r)
    <2> SUFFICES ASSUME OthersUnique(q, prio, k), NEW p1 \in Prios, NEW p2 \in Prios,
                        NEW k1 \in DOMAIN r[p1], NEW k2 \in DOMAIN r[p2], r[p1][k1] = r[p2][k2]
                 PROVE  p1 = p2 /\ k1 = k2
        BY DEF NodesUnique
    <2>1. q[p1][from(p1, k1)] = q[p2][from(p2, k2)]
        BY <1>1
    <2>2. p1 = p2 /\ from(p1, k1) = from(p2, k2)
        BY <1>1, <2>1 DEF OthersUnique
    <2>3. QED
        BY <1>2, <2>2
<1>6. \A p \in Prios : \A u : Placed(r, p, u) =>
          \E i \in DOMAIN q[p] : q[p][i] = u /\ ~(p = prio /\ i = k)
    BY <1>1 DEF Placed
<1>7. QED
    BY <1>4, <1>5, <1>6

\* Unlink takes one node out.
LEMMA UnlinkNodes ==
    ASSUME NEW q \in ReadyQType, NEW prio \in Prios, NEW k \in DOMAIN q[prio]
    PROVE  /\ \A u : IsIn(Unlink(q, prio, k), u) <=>
                 \E p \in Prios : \E i \in DOMAIN q[p] : q[p][i] = u /\ ~(p = prio /\ i = k)
           /\ \A p \in Prios : \A u : Placed(Unlink(q, prio, k), p, u) =>
                 \E i \in DOMAIN q[p] : q[p][i] = u /\ ~(p = prio /\ i = k)
           /\ OthersUnique(q, prio, k) => NodesUnique(Unlink(q, prio, k))
<1> DEFINE s == q[prio]
           front == SubSeq(s, 1, k - 1)
           back == SubSeq(s, k + 1, Len(s))
           r == Unlink(q, prio, k)
           n == Len(s)
<1>1. s \in Seq(Threads) /\ n \in Nat /\ DOMAIN s = 1 .. n /\ k \in 1 .. n
    BY LenProperties DEF ReadyQType
<1>2. \A i \in 1 .. n : s[i] \in Threads
    BY <1>1, ElementOfSeq
<1>3. /\ front \in Seq(Threads) /\ Len(front) = k - 1
      /\ \A i \in 1 .. k - 1 : front[i] = s[i]
    BY <1>1, <1>2, SubSeqProperties
<1>4. /\ back \in Seq(Threads) /\ Len(back) = n - k
      /\ \A i \in 1 .. n - k : back[i] = s[k + i]
    <2>1. k + 1 \in Int /\ n \in Int /\ \A i \in k + 1 .. n : s[i] \in Threads
        BY <1>1, <1>2
    <2> HIDE DEF s, n
    <2>2. /\ SubSeq(s, k + 1, n) \in Seq(Threads)
          /\ Len(SubSeq(s, k + 1, n)) = IF k + 1 <= n THEN n - (k + 1) + 1 ELSE 0
          /\ \A i \in 1 .. n - (k + 1) + 1 : SubSeq(s, k + 1, n)[i] = s[k + 1 + i - 1]
        BY <2>1, SubSeqProperties
    <2>3. back = SubSeq(s, k + 1, n)
        BY DEF n
    <2>4. n - (k + 1) + 1 = n - k /\ (k + 1 <= n \/ n - k = 0)
        BY <1>1
    <2>5. \A i \in 1 .. n - k : k + 1 + i - 1 = k + i
        BY <1>1
    <2> HIDE DEF back
    <2>6. QED
        BY <2>2, <2>3, <2>4, <2>5
<1>5. r[prio] = front \o back /\ \A p \in Prios \ {prio} : r[p] = q[p]
    BY DEF Unlink, ReadyQType
<1> HIDE DEF s, front, back, r, n
<1>6. /\ front \o back \in Seq(Threads) /\ Len(front \o back) = n - 1
      /\ \A i \in 1 .. n - 1 : (front \o back)[i] = IF i <= k - 1 THEN front[i] ELSE back[i - (k - 1)]
    <2>1. Len(front) + Len(back) = n - 1
        BY <1>1, <1>3, <1>4
    <2>2. /\ front \o back \in Seq(Threads) /\ Len(front \o back) = Len(front) + Len(back)
          /\ \A i \in 1 .. Len(front) + Len(back) : (front \o back)[i] =
                 IF i <= Len(front) THEN front[i] ELSE back[i - Len(front)]
        BY <1>3, <1>4, ConcatProperties
    <2>3. QED
        BY <1>3, <2>1, <2>2
<1>7. DOMAIN r[prio] = 1 .. n - 1
    BY <1>5, <1>6, LenProperties
<1>8. ASSUME NEW i \in 1 .. n - 1
      PROVE  r[prio][i] = s[IF i < k THEN i ELSE i + 1]
    <2>1. CASE i < k
        BY <1>1, <1>3, <1>5, <1>6, <2>1
    <2>2. CASE ~(i < k)
        <3>1. i - (k - 1) \in 1 .. n - k /\ k + (i - (k - 1)) = i + 1 /\ ~(i <= k - 1)
            BY <1>1, <2>2
        <3>2. r[prio][i] = back[i - (k - 1)]
            BY <1>5, <1>6, <3>1
        <3>3. back[i - (k - 1)] = s[i + 1]
            BY <1>4, <3>1
        <3>4. QED
            BY <2>2, <3>2, <3>3
    <2>3. QED
        BY <2>1, <2>2
<1>9. QED
    BY <1>1, <1>5, <1>7, <1>8, RemoveNode DEF r, s

\* The head of a queue leaves it.
LEMMA LeaveQueue ==
    ASSUME NEW q \in ReadyQType, NEW prio \in Prios, q[prio] # << >>, NodesUnique(q)
    PROVE  LET r == [q EXCEPT ![prio] = Tail(@)]
           IN  /\ r \in ReadyQType /\ NodesUnique(r)
               /\ \A u : IsIn(r, u) <=> IsIn(q, u) /\ u # q[prio][1]
               /\ \A p \in Prios : \A u : Placed(r, p, u) => Placed(q, p, u)
<1> DEFINE r == [q EXCEPT ![prio] = Tail(@)]
           n == Len(q[prio])
<1>1. q[prio] \in Seq(Threads) /\ n \in Nat \ {0} /\ DOMAIN q[prio] = 1 .. n
    BY EmptySeq, LenProperties DEF ReadyQType
<1>2. /\ Tail(q[prio]) \in Seq(Threads) /\ Len(Tail(q[prio])) = n - 1
      /\ \A i \in 1 .. n - 1 : Tail(q[prio])[i] = q[prio][i + 1]
    BY <1>1, HeadTailProperties
<1>3. r[prio] = Tail(q[prio]) /\ \A p \in Prios \ {prio} : r[p] = q[p]
    BY DEF ReadyQType
<1>4. r \in ReadyQType
    BY <1>2 DEF ReadyQType
<1>5. DOMAIN r[prio] = 1 .. n - 1
    BY <1>2, <1>3, LenProperties
<1> HIDE DEF r, n
<1>6. \A i \in 1 .. n - 1 : r[prio][i] = q[prio][IF i < 1 THEN i ELSE i + 1]
    BY <1>2, <1>3
<1>7. /\ \A u : IsIn(r, u) <=>
             \E p \in Prios : \E i \in DOMAIN q[p] : q[p][i] = u /\ ~(p = prio /\ i = 1)
      /\ \A p \in Prios : \A u : Placed(r, p, u) =>
             \E i \in DOMAIN q[p] : q[p][i] = u /\ ~(p = prio /\ i = 1)
      /\ OthersUnique(q, prio, 1) => NodesUnique(r)
    <2>1. 1 \in 1 .. n /\ n \in Nat
        BY <1>1
    <2>2. QED
        BY <1>1, <1>3, <1>5, <1>6, <2>1, RemoveNode
<1>8. NodesUnique(r)
    BY <1>7 DEF NodesUnique, OthersUnique
<1>9. 1 \in DOMAIN q[prio]
    BY <1>1
<1>10. ASSUME NEW u
       PROVE  IsIn(r, u) <=> IsIn(q, u) /\ u # q[prio][1]
    BY <1>7, <1>9 DEF NodesUnique, IsIn
<1>11. \A p \in Prios : \A u : Placed(r, p, u) => Placed(q, p, u)
    BY <1>7 DEF Placed
<1>12. QED
    BY <1>4, <1>8, <1>10, <1>11 DEF r

\* A thread is moved: appended to another queue, or the same one, and its old
\* node unlinked.
LEMMA MoveNode ==
    ASSUME NEW q \in ReadyQType, NEW prio \in Prios, NEW k \in DOMAIN q[prio],
           NEW new \in Nat, NodesUnique(q)
    PROVE  LET r == Unlink(insert_ready_q(q, q[prio][k], new), prio, k)
           IN  /\ NodesUnique(r)
               /\ \A u : IsIn(r, u) <=> IsIn(q, u)
               /\ \A p \in Prios : \A u : Placed(r, p, u) =>
                     IF u = q[prio][k] THEN p = QueueFor(new) ELSE Placed(q, p, u)
<1> DEFINE t == q[prio][k]
           to == IF new < NUM_QUEUES THEN new ELSE NUM_QUEUES - 1
           longer == insert_ready_q(q, t, new)
           last == Len(q[to]) + 1
<1>1. t \in Threads
    BY ElementOfSeq, LenProperties DEF ReadyQType
<1>2. q[prio][k] = t
    OBVIOUS
<1> HIDE DEF t
<1>3. /\ longer \in ReadyQType /\ to \in Prios /\ last \in Nat \ {0}
      /\ \A p \in Prios \ {to} : longer[p] = q[p]
      /\ DOMAIN q[to] = 1 .. last - 1 /\ DOMAIN longer[to] = 1 .. last
      /\ \A i \in DOMAIN q[to] : longer[to][i] = q[to][i]
      /\ longer[to][last] = t
    <2>1. /\ longer \in ReadyQType /\ to \in Prios /\ Len(q[to]) \in Nat
          /\ \A p \in Prios \ {to} : longer[p] = q[p]
          /\ DOMAIN q[to] = 1 .. Len(q[to]) /\ DOMAIN longer[to] = 1 .. Len(q[to]) + 1
          /\ \A i \in DOMAIN q[to] : longer[to][i] = q[to][i]
          /\ longer[to][Len(q[to]) + 1] = t
        BY <1>1, InsertNodes
    <2> HIDE DEF to, longer
    <2>2. QED
        BY <2>1
<1> HIDE DEF to, longer, last
<1>4. \A p \in Prios : \A i : i \in DOMAIN longer[p] =>
          \/ i \in DOMAIN q[p] /\ longer[p][i] = q[p][i]
          \/ p = to /\ i = last /\ longer[p][i] = t
    BY <1>3
<1>5. \A p \in Prios : \A i \in DOMAIN q[p] : i \in DOMAIN longer[p] /\ longer[p][i] = q[p][i]
    BY <1>3
<1>6. last \in DOMAIN longer[to] /\ last \notin DOMAIN q[to]
    BY <1>3
<1>7. OthersUnique(longer, prio, k)
    <2>1. ASSUME NEW p \in Prios, NEW i \in DOMAIN longer[p], longer[p][i] = t,
                 ~(p = prio /\ i = k)
          PROVE  p = to /\ i = last
        BY <1>2, <1>4, <2>1 DEF NodesUnique
    <2>2. ASSUME NEW p1 \in Prios, NEW p2 \in Prios,
                 NEW k1 \in DOMAIN longer[p1], NEW k2 \in DOMAIN longer[p2],
                 longer[p1][k1] = longer[p2][k2], longer[p1][k1] # t
          PROVE  p1 = p2 /\ k1 = k2
        BY <1>4, <2>2 DEF NodesUnique
    <2>3. QED
        BY <2>1, <2>2 DEF OthersUnique
<1>8. k \in DOMAIN longer[prio]
    BY <1>5
<1>9. NodesUnique(Unlink(longer, prio, k))
    BY <1>3, <1>7, <1>8, UnlinkNodes
<1>10. ASSUME NEW u
       PROVE  IsIn(Unlink(longer, prio, k), u) <=> IsIn(q, u)
    <2>1. IsIn(Unlink(longer, prio, k), u) <=>
             \E p \in Prios : \E i \in DOMAIN longer[p] :
                 longer[p][i] = u /\ ~(p = prio /\ i = k)
        BY <1>3, <1>8, UnlinkNodes
    <2>2. CASE u = t
        <3>1. IsIn(q, t)
            BY <1>2 DEF IsIn
        <3>2. ~(to = prio /\ last = k)
            BY <1>6
        <3>3. \E p \in Prios : \E i \in DOMAIN longer[p] :
                 longer[p][i] = t /\ ~(p = prio /\ i = k)
            BY <1>3, <1>6, <3>2
        <3>4. QED
            BY <2>1, <2>2, <3>1, <3>3
    <2>3. CASE u # t
        BY <1>2, <1>4, <1>5, <2>1, <2>3 DEF IsIn
    <2>4. QED
        BY <2>2, <2>3
<1>11. ASSUME NEW p \in Prios, NEW u, Placed(Unlink(longer, prio, k), p, u)
       PROVE  IF u = t THEN p = to ELSE Placed(q, p, u)
    <2>1. PICK i \in DOMAIN longer[p] : longer[p][i] = u /\ ~(p = prio /\ i = k)
        BY <1>3, <1>8, <1>11, UnlinkNodes
    <2>2. u = t => p = to
        BY <1>2, <1>4, <2>1 DEF NodesUnique
    <2>3. u # t => Placed(q, p, u)
        BY <1>4, <2>1 DEF Placed
    <2>4. QED
        BY <2>2, <2>3
<1>12. QED
    BY <1>9, <1>10, <1>11 DEF longer, t, to, QueueFor

-----------------------------------------------------------------------------
(* The invariant *)

Born(t) == t <= tid \/ t = Main
Pending(t) == \E c \in Threads : pc[c] = "create_insert" /\ arg[c] = t
CanRun(t) == OnCpu(t) \/ tcb[t].status = "READY"
Waits(t, u) == \E k \in DOMAIN tcb[u].waited_on : tcb[u].waited_on[k] = t

\* What has not been created is in no queue and nobody waits for it.
BornInv ==
    /\ tid = 0 => \A prio \in Prios : ready_q[prio] = << >>
    /\ \A t \in Threads : tid = 0 \/ ~Born(t) =>
          tcb[t].status = "UNBORN" /\ tcb[t].waited_on = << >>
    /\ \A t \in Threads : pc[t] = "join_wait" => arg[t] <= tid

\* The threads that can run are queued, once, but for those whose creator is
\* about to insert them.
QueueInv ==
    /\ NodesUnique(ready_q)
    /\ \A t \in Threads : IsIn(ready_q, t) <=> CanRun(t) /\ ~Pending(t)

\* These are ready, and each has one creator.
PendingInv ==
    /\ \A c \in Threads : pc[c] = "create_insert" => tcb[arg[c]].status = "READY"
    /\ \A c, d \in Threads :
          pc[c] = "create_insert" /\ pc[d] = "create_insert" /\ arg[c] = arg[d] => c = d

\* A thread that blocks or ends does not go on before it gives the CPU up.
StopInv ==
    handler = "idle" /\ tcb[running].status # "READY" =>
        pc[running] \in {"raise_join", "raise_exit"}

\* A thread on the list of another has joined it, once, and is blocked or
\* about to be; a blocked one is on the list of its target; a thread that is
\* done has emptied its list; and a joiner goes on when its target is done or
\* has nothing left to do but wake others.
WaitInv ==
    /\ \A t, u \in Threads : Waits(t, u) =>
          /\ arg[t] = u
          /\ \/ pc[t] = "join_block"
             \/ tcb[t].status = "BLOCKED" /\ pc[t] \in {"raise_join", "join_done"}
    /\ \A u \in Threads : \A j, k \in DOMAIN tcb[u].waited_on :
          tcb[u].waited_on[j] = tcb[u].waited_on[k] => j = k
    /\ \A t \in Threads : pc[t] = "join_block" \/ tcb[t].status = "BLOCKED" =>
          arg[t] \in Threads /\ Waits(t, arg[t])
    /\ \A u \in Threads : tcb[u].status = "DONE" => tcb[u].waited_on = << >>
    /\ \A t \in Threads : pc[t] = "join_wait" =>
          arg[t] \in Threads /\ tcb[arg[t]].status # "DONE"
    /\ \A t \in Threads : pc[t] \in {"raise_join", "join_done"} /\ tcb[t].status # "BLOCKED" =>
          arg[t] \in Threads /\ (tcb[arg[t]].status = "DONE" \/ pc[arg[t]] = "exit_wake")

RunInv == QueueInv /\ PendingInv /\ StopInv /\ WaitInv
JoinInv == BornInv /\ (Live => RunInv)

-----------------------------------------------------------------------------
(* Frames *)

\* The places of a thread that the invariant speaks of.
JoinPlaces == {"join_wait", "join_block", "raise_join", "join_done", "exit_wake"}
PlainPlaces == Labels \ (JoinPlaces \cup {"create_insert", "raise_exit"})

TcbKept(t) == tcb'[t].status = tcb[t].status /\ tcb'[t].waited_on = tcb[t].waited_on
TcbsKept == \A t \in Threads : TcbKept(t)
QueuesKept ==
    /\ NodesUnique(ready_q) => NodesUnique(ready_q')
    /\ \A u : IsIn(ready_q', u) <=> IsIn(ready_q, u)

LEMMA BornFrame ==
    ASSUME BornInv, tid # 0, UNCHANGED tid,
           \A t \in Threads : TcbKept(t) \/ Born(t),
           \A t \in Threads : pc'[t] = "join_wait" =>
               (pc[t] = "join_wait" /\ arg'[t] = arg[t]) \/ arg'[t] <= tid
    PROVE  BornInv'
BY DEF BornInv, Born, TcbKept

LEMMA WaitFrame ==
    ASSUME WaitInv,
           \A t \in Threads :
              /\ tcb'[t].waited_on = tcb[t].waited_on
              /\ \/ tcb'[t].status = tcb[t].status
                 \/ {tcb[t].status, tcb'[t].status} \subseteq {"UNBORN", "READY"}
              /\ \/ pc'[t] = pc[t] /\ arg'[t] = arg[t]
                 \/ pc[t] = "raise_join" /\ pc'[t] = "join_done" /\ arg'[t] = arg[t]
                 \/ /\ \/ pc[t] \notin JoinPlaces
                       \/ pc[t] = "join_done" /\ tcb[t].status = "READY"
                    /\ pc'[t] \notin JoinPlaces \ {"exit_wake"}
    PROVE  WaitInv'
<1>1. \A t, u \in Threads : Waits(t, u)' <=> Waits(t, u)
    BY DEF Waits
<1>2. (\A t, u \in Threads : Waits(t, u) =>
          /\ arg[t] = u
          /\ \/ pc[t] = "join_block"
             \/ tcb[t].status = "BLOCKED" /\ pc[t] \in {"raise_join", "join_done"})'
    BY <1>1 DEF WaitInv, JoinPlaces
<1>3. (\A u \in Threads : \A j, k \in DOMAIN tcb[u].waited_on :
          tcb[u].waited_on[j] = tcb[u].waited_on[k] => j = k)'
    BY DEF WaitInv
<1>4. (\A t \in Threads : pc[t] = "join_block" \/ tcb[t].status = "BLOCKED" =>
          arg[t] \in Threads /\ Waits(t, arg[t]))'
    <2> SUFFICES ASSUME NEW t \in Threads, pc'[t] = "join_block" \/ tcb'[t].status = "BLOCKED"
                 PROVE  (arg[t] \in Threads /\ Waits(t, arg[t]))'
        OBVIOUS
    <2>1. pc[t] = "join_block" \/ tcb[t].status = "BLOCKED"
        BY DEF JoinPlaces
    <2>2. arg[t] \in Threads /\ Waits(t, arg[t])
        BY <2>1 DEF WaitInv
    <2>3. pc[t] \in {"join_block", "raise_join", "join_done"}
        BY <2>2 DEF WaitInv
    <2>4. arg'[t] = arg[t]
        BY <2>3 DEF JoinPlaces
    <2>5. QED
        BY <2>2, <2>4 DEF Waits
<1>5. (\A u \in Threads : tcb[u].status = "DONE" => tcb[u].waited_on = << >>)'
    BY DEF WaitInv
<1>6. (\A t \in Threads : pc[t] = "join_wait" =>
          arg[t] \in Threads /\ tcb[arg[t]].status # "DONE")'
    BY DEF WaitInv, JoinPlaces
<1>7. (\A t \in Threads : pc[t] \in {"raise_join", "join_done"} /\ tcb[t].status # "BLOCKED" =>
          arg[t] \in Threads /\ (tcb[arg[t]].status = "DONE" \/ pc[arg[t]] = "exit_wake"))'
    BY DEF WaitInv, JoinPlaces
<1>8. QED
    BY <1>2, <1>3, <1>4, <1>5, <1>6, <1>7 DEF WaitInv

LEMMA PendingFrame ==
    ASSUME PendingInv,
           \A t \in Threads : pc'[t] = "create_insert" =>
               /\ pc[t] = "create_insert" /\ arg'[t] = arg[t]
               /\ tcb[arg[t]].status = "READY" => tcb'[arg[t]].status = "READY"
    PROVE  PendingInv'
BY DEF PendingInv

LEMMA QueueFrame ==
    ASSUME QueueInv, QueuesKept,
           \A t \in Threads : (Pending(t)' <=> Pending(t)) /\ (CanRun(t)' <=> CanRun(t))
    PROVE  QueueInv'
BY DEF QueueInv, QueuesKept

\* A step of the running thread between places the invariant says nothing of,
\* which at most moves threads between queues.
LEMMA PlainStep ==
    ASSUME HeadInv, JoinInv, Live, handler = "idle", TcbsKept, QueuesKept,
           UNCHANGED << tid, running, handler >>,
           pc[running] \in PlainPlaces \cup {"join_done"},
           UNCHANGED << pc, arg >> \/ \E label \in PlainPlaces \cup {"exit_wake"} : Goto(label),
           \A t \in Threads \ {running} : arg'[t] = arg[t]
    PROVE  JoinInv'
<1>0. running \in Threads /\ pc \in [Threads -> Labels] /\ tid # 0 /\ RunInv
    BY DEF HeadInv, TypeOK, Live, JoinInv
<1>1. /\ \/ pc'[running] \in PlainPlaces \cup {"exit_wake"}
         \/ UNCHANGED << pc, arg >>
      /\ \A t \in Threads : t # running => pc'[t] = pc[t] /\ arg'[t] = arg[t]
    BY <1>0 DEF Goto
<1>2. BornInv'
    BY <1>0, <1>1, BornFrame DEF JoinInv, TcbsKept, PlainPlaces, JoinPlaces
<1>3. WaitInv'
    <2>1. tcb[running].status = "READY"
        BY <1>0 DEF RunInv, StopInv, PlainPlaces, JoinPlaces
    <2>2. \A t \in Threads : tcb'[t].status = tcb[t].status /\ tcb'[t].waited_on = tcb[t].waited_on
        BY DEF TcbsKept, TcbKept
    <2>3. CASE UNCHANGED << pc, arg >>
        BY <1>0, <2>2, <2>3, WaitFrame DEF RunInv
    <2>4. CASE pc'[running] \in PlainPlaces \cup {"exit_wake"}
        BY <1>0, <1>1, <2>1, <2>2, <2>4, WaitFrame DEF RunInv, PlainPlaces, JoinPlaces
    <2>5. QED
        BY <1>1, <2>3, <2>4
<1>4. PendingInv'
    <2>1. \A t \in Threads : pc'[t] = "create_insert" =>
              pc[t] = "create_insert" /\ arg'[t] = arg[t] /\ arg[t] \in Threads
        BY <1>1 DEF HeadInv, CallHasThread, PlainPlaces
    <2>2. QED
        BY <1>0, <2>1, PendingFrame DEF RunInv, TcbsKept, TcbKept
<1>5. QueueInv'
    <2>1. \A t \in Threads : Pending(t)' <=> Pending(t)
        BY <1>0, <1>1 DEF Pending, PlainPlaces
    <2>2. \A t \in Threads : CanRun(t)' <=> CanRun(t)
        BY DEF CanRun, OnCpu, TcbsKept, TcbKept
    <2>3. QED
        BY <1>0, <2>1, <2>2, QueueFrame DEF RunInv
<1>6. StopInv'
    BY <1>0 DEF RunInv, StopInv, TcbsKept, TcbKept, PlainPlaces, JoinPlaces
<1>7. QED
    BY <1>2, <1>3, <1>4, <1>5, <1>6 DEF JoinInv, RunInv

\* A step that changes nothing the invariant speaks of.
LEMMA SameStep ==
    ASSUME JoinInv, UNCHANGED << ready_q, tcb, running, handler, tid, pc, arg >>,
           halt # "none" => halt' # "none"
    PROVE  JoinInv'
BY DEF JoinInv, BornInv, Born, RunInv, QueueInv, CanRun, OnCpu, Pending, NodesUnique, IsIn,
   PendingInv, StopInv, WaitInv, Waits, Live

\* A step of the handler that keeps or takes the thread on the CPU.
LEMMA HandlerFrame ==
    ASSUME HeadInv, JoinInv, Live, TcbsKept, QueuesKept, UNCHANGED pthreadVars,
           \A t \in Threads : CanRun(t)' <=> CanRun(t),
           StopInv'
    PROVE  JoinInv'
<1>0. tid # 0 /\ RunInv
    BY DEF Live, JoinInv
<1>1. BornInv'
    BY <1>0, BornFrame DEF JoinInv, TcbsKept, pthreadVars
<1>2. WaitInv'
    BY <1>0, WaitFrame DEF RunInv, TcbsKept, TcbKept, pthreadVars
<1>3. PendingInv'
    <2>1. \A t \in Threads : pc[t] = "create_insert" => arg[t] \in Threads
        BY DEF HeadInv, CallHasThread
    <2>2. QED
        BY <1>0, <2>1, PendingFrame DEF RunInv, TcbsKept, TcbKept, pthreadVars
<1>4. QueueInv'
    <2>1. \A t \in Threads : Pending(t)' <=> Pending(t)
        BY DEF Pending, pthreadVars
    <2>2. QED
        BY <1>0, <2>1, QueueFrame DEF RunInv
<1>5. QED
    BY <1>1, <1>2, <1>3, <1>4 DEF JoinInv, RunInv

-----------------------------------------------------------------------------
(* The handler *)

\* What it does to a tcb leaves status and list alone.
LEMMA RequeueKeeps ==
    ASSUME NEW old \in TcbType
    PROVE  /\ Requeued(old).status = old.status
           /\ Requeued(old).waited_on = old.waited_on
BY DEF Requeued, TcbType

LEMMA HandlerKeepsTcbs ==
    ASSUME TypeOK, Schedule
    PROVE  TcbsKept
<1>0. tcb \in [Threads -> TcbType]
    BY DEF TypeOK
<1>1. CASE KeepRunning \/ Leave
    <2> DEFINE left == tcb[Current].cycles_left - 1
    <2>1. \/ tcb' = [tcb EXCEPT ![Current] =
                        [tcb[Current] EXCEPT !.cycles_left = left, !.ran_since = TRUE]]
          \/ tcb' = [tcb EXCEPT ![Current].ran_since = TRUE]
        BY <1>1 DEF KeepRunning, Leave
    <2> HIDE DEF left
    <2>2. CASE tcb' = [tcb EXCEPT ![Current] =
                        [tcb[Current] EXCEPT !.cycles_left = left, !.ran_since = TRUE]]
        BY <1>0, <2>2 DEF TcbsKept, TcbKept, TcbType
    <2>3. CASE tcb' = [tcb EXCEPT ![Current].ran_since = TRUE]
        BY <1>0, <2>3 DEF TcbsKept, TcbKept, TcbType
    <2>4. QED
        BY <2>1, <2>2, <2>3
<1>2. CASE Requeue
    <2> DEFINE new == Requeued(tcb[Current])
    <2>1. tcb' = [tcb EXCEPT ![Current] = [new EXCEPT !.ran_since = TRUE]]
        BY <1>2 DEF Requeue
    <2>2. Current \in Threads => /\ new \in TcbType /\ new.status = tcb[Current].status
                                 /\ new.waited_on = tcb[Current].waited_on
        BY <1>0, RequeuedType, RequeueKeeps
    <2> HIDE DEF new
    <2>3. QED
        BY <1>0, <2>1, <2>2 DEF TcbsKept, TcbKept, TcbType
<1>3. CASE Maintenance
    <2>1. \/ UNCHANGED tcb
          \/ \E t, prio : tcb' = [tcb EXCEPT ![t].priority = prio]
          \/ tcb' = [t \in Threads |-> [tcb[t] EXCEPT !.ran_since = FALSE]]
        BY <1>3 DEF Maintenance, MaintainNextQueue, MaintainKeep, MaintainMove, MaintainEnd
    <2>2. ASSUME NEW t, NEW prio, tcb' = [tcb EXCEPT ![t].priority = prio]
          PROVE  TcbsKept
        BY <1>0, <2>2 DEF TcbsKept, TcbKept, TcbType
    <2>3. CASE tcb' = [t \in Threads |-> [tcb[t] EXCEPT !.ran_since = FALSE]]
        BY <1>0, <2>3 DEF TcbsKept, TcbKept, TcbType
    <2>4. QED
        BY <2>1, <2>2, <2>3 DEF TcbsKept, TcbKept
<1>4. CASE FreeGarbage \/ Dispatch \/ Teardown
    BY <1>4 DEF FreeGarbage, Dispatch, Teardown, TcbsKept, TcbKept
<1>5. QED
    BY <1>1, <1>2, <1>3, <1>4 DEF Schedule

LEMMA QueuesSame ==
    ASSUME UNCHANGED ready_q
    PROVE  QueuesKept
BY DEF QueuesKept, NodesUnique, IsIn

LEMMA EntryKeepsJoinInv ==
    ASSUME HeadInv, JoinInv, UNCHANGED pthreadVars, KeepRunning \/ Requeue \/ Leave
    PROVE  JoinInv'
<1>1. Live /\ handler = "schedule" /\ UNCHANGED << running, curr_prio >>
    BY DEF KeepRunning, Requeue, Leave, Entry, JoinInv, HeadInv, BeforeFirstCreate, Live
<1>2. /\ Current = running /\ running \in Threads /\ ready_q[curr_prio] # << >>
      /\ ready_q \in ReadyQType /\ curr_prio \in Prios /\ tcb[running] \in TcbType
    BY <1>1, CurrentIsRunning DEF HeadInv, TypeOK, ReadyQType
<1>3. TcbsKept
    BY HandlerKeepsTcbs DEF HeadInv, Schedule
<1>4. QueueInv
    BY <1>1 DEF JoinInv, RunInv
<1> DEFINE shorter == [ready_q EXCEPT ![curr_prio] = Tail(@)]
<1>5. /\ shorter \in ReadyQType /\ NodesUnique(shorter)
      /\ \A u : IsIn(shorter, u) <=> IsIn(ready_q, u) /\ u # running
    BY <1>2, <1>4, LeaveQueue DEF QueueInv, Current
<1>6. 1 \in DOMAIN ready_q[curr_prio]
    BY <1>2, EmptySeq, LenProperties DEF ReadyQType
<1>7. IsIn(ready_q, running)
    BY <1>2, <1>6 DEF IsIn, Current
<1>8. NextPhase # "idle" /\ NextPhase # "schedule"
    BY DEF NextPhase
<1> HIDE DEF shorter
<1>9. CASE KeepRunning
    <2>1. handler' = "idle" /\ UNCHANGED ready_q /\ tcb[running].status = "READY"
        BY <1>2, <1>9 DEF KeepRunning
    <2>2. StopInv'
        BY <1>1, <1>2, <1>3, <2>1 DEF StopInv, TcbsKept, TcbKept
    <2>3. \A t \in Threads : CanRun(t)' <=> CanRun(t)
        BY <1>1, <1>3, <2>1 DEF CanRun, OnCpu, TcbsKept, TcbKept
    <2>4. QED
        BY <1>1, <1>3, <2>1, <2>2, <2>3, HandlerFrame, QueuesSame
<1>10. CASE Requeue
    <2> DEFINE prio == Requeued(tcb[running]).priority
    <2>1. /\ ready_q' = insert_ready_q(shorter, running, prio)
          /\ handler' = NextPhase /\ tcb[running].status = "READY"
        BY <1>2, <1>10 DEF Requeue, shorter
    <2>2. prio \in Nat
        BY <1>2, RequeuedType, RanFields
    <2> HIDE DEF prio
    <2>3. /\ \A u : IsIn(ready_q', u) <=> IsIn(shorter, u) \/ u = running
          /\ NodesUnique(ready_q')
        BY <1>2, <1>5, <2>1, <2>2, InsertQueued
    <2>4. QueuesKept
        BY <1>5, <1>7, <2>3 DEF QueuesKept
    <2>5. \A t \in Threads : CanRun(t)' <=> CanRun(t)
        BY <1>1, <1>3, <1>8, <2>1 DEF CanRun, OnCpu, TcbsKept, TcbKept
    <2>6. StopInv'
        BY <1>8, <2>1 DEF StopInv
    <2>7. QED
        BY <1>1, <1>3, <2>4, <2>5, <2>6, HandlerFrame
<1>11. CASE Leave
    <2>1. /\ ready_q' = shorter /\ handler' = NextPhase /\ tcb[running].status # "READY"
        BY <1>2, <1>11 DEF Leave, shorter
    <2>2. RunInv /\ tid # 0 /\ UNCHANGED << pc, arg, tid >>
        BY <1>1 DEF JoinInv, Live, pthreadVars
    <2>3. BornInv'
        BY <1>3, <2>2, BornFrame DEF JoinInv, TcbsKept
    <2>4. WaitInv'
        BY <1>3, <2>2, WaitFrame DEF RunInv, TcbsKept, TcbKept
    <2>5. PendingInv'
        <3>1. \A t \in Threads : pc[t] = "create_insert" => arg[t] \in Threads
            BY DEF HeadInv, CallHasThread
        <3>2. QED
            BY <1>3, <2>2, <3>1, PendingFrame DEF RunInv, TcbsKept, TcbKept
    <2>6. \A t \in Threads : Pending(t)' <=> Pending(t)
        BY <2>2 DEF Pending
    <2>7. \A t \in Threads : CanRun(t)' <=> CanRun(t) /\ t # running
        BY <1>1, <1>3, <1>8, <2>1 DEF CanRun, OnCpu, TcbsKept, TcbKept
    <2>8. QueueInv'
        BY <1>4, <1>5, <2>1, <2>6, <2>7 DEF QueueInv
    <2>9. StopInv'
        BY <1>8, <2>1 DEF StopInv
    <2>10. QED
        BY <2>3, <2>4, <2>5, <2>8, <2>9 DEF JoinInv, RunInv
<1>12. QED
    BY <1>9, <1>10, <1>11

LEMMA MaintenanceKeepsJoinInv ==
    ASSUME HeadInv, JoinInv, UNCHANGED pthreadVars, Maintenance
    PROVE  JoinInv'
<1>1. /\ Live /\ handler = "maintain" /\ handler' \in {"maintain", "dispatch"}
      /\ UNCHANGED running
    BY DEF Maintenance, MaintainNextQueue, MaintainKeep, MaintainMove, MaintainEnd, Scanning,
       HeadInv, BeforeFirstCreate, Live
<1>2. TcbsKept
    BY HandlerKeepsTcbs DEF HeadInv, Schedule
<1>3. QueuesKept
    <2>1. CASE UNCHANGED ready_q
        BY <2>1, QueuesSame
    <2>2. ASSUME NEW queue \in 1 .. NUM_QUEUES - 1, MaintainMove(queue) PROVE QueuesKept
        <3> DEFINE k == scan[2]
        <3>1. /\ queue \in Prios /\ ready_q \in ReadyQType /\ scan[1] = queue
              /\ k \in Nat \ {0}
            BY <2>2, SchedulerAssumption DEF MaintainMove, Scanning, Prios, HeadInv, TypeOK,
               ReadyQType
        <3>2. ready_q[queue] \in Seq(Threads) /\ Len(ready_q[queue]) \in Nat
            BY <3>1, LenProperties DEF ReadyQType
        <3>3. k \in DOMAIN ready_q[queue]
            BY <2>2, <3>1, <3>2, LenProperties DEF MaintainMove, AtListEnd
        <3>4. ScannedThread = ready_q[queue][k]
            BY <3>1 DEF ScannedThread
        <3>5. PICK new : /\ new \in NewPriorities(ready_q[queue][k], queue)
                         /\ ready_q' = Unlink(insert_ready_q(ready_q, ready_q[queue][k], new),
                                              queue, k)
            BY <2>2, <3>4 DEF MaintainMove
        <3>6. new \in Nat
            BY <3>5 DEF NewPriorities
        <3> HIDE DEF k
        <3>7. NodesUnique(ready_q)
            BY <1>1 DEF JoinInv, RunInv, QueueInv
        <3>8. NodesUnique(ready_q') /\ \A u : IsIn(ready_q', u) <=> IsIn(ready_q, u)
            BY <3>1, <3>3, <3>5, <3>6, <3>7, MoveNode
        <3>9. QED
            BY <3>8 DEF QueuesKept
    <2>3. QED
        BY <2>1, <2>2 DEF Maintenance, MaintainNextQueue, MaintainKeep, MaintainEnd
<1>4. \A t \in Threads : CanRun(t)' <=> CanRun(t)
    BY <1>1, <1>2 DEF CanRun, OnCpu, TcbsKept, TcbKept
<1>5. StopInv'
    BY <1>1 DEF StopInv
<1>6. QED
    BY <1>1, <1>2, <1>3, <1>4, <1>5, HandlerFrame

LEMMA DispatchKeepsJoinInv ==
    ASSUME HeadInv, JoinInv, UNCHANGED pthreadVars, Dispatch
    PROVE  JoinInv'
<1>1. Live /\ handler = "dispatch" /\ handler' = "idle" /\ UNCHANGED << ready_q, tcb >>
    BY DEF Dispatch, HeadInv, BeforeFirstCreate, Live
<1>2. TcbsKept /\ QueuesKept
    BY <1>1, QueuesSame DEF TcbsKept, TcbKept
<1>3. PICK prio \in Prios : ready_q[prio] # << >> /\ running' = ready_q[prio][1]
    BY DEF Dispatch, OccupiedQueues
<1>4. ready_q[prio] \in Seq(Threads) /\ 1 \in DOMAIN ready_q[prio]
    BY <1>3, EmptySeq, LenProperties DEF HeadInv, TypeOK
<1>5. running' \in Threads /\ IsIn(ready_q, running')
    BY <1>3, <1>4, ElementOfSeq, LenProperties DEF IsIn
<1>6. \A t \in Threads : CanRun(t) <=> tcb[t].status = "READY"
    BY <1>1 DEF CanRun, OnCpu
<1>7. tcb[running'].status = "READY"
    BY <1>1, <1>5, <1>6 DEF JoinInv, RunInv, QueueInv
<1>8. \A t \in Threads : CanRun(t)' <=> CanRun(t)
    BY <1>1, <1>6, <1>7 DEF CanRun, OnCpu
<1>9. StopInv'
    BY <1>1, <1>7 DEF StopInv
<1>10. QED
    BY <1>1, <1>2, <1>8, <1>9, HandlerFrame

LEMMA HandlerKeepsJoinInv ==
    ASSUME HeadInv, JoinInv, ScheduleStep
    PROVE  JoinInv'
<1>1. CASE FreeGarbage \/ Teardown
    <2>1. tid # 0 /\ UNCHANGED << tid, tcb, pc, arg >> /\ ~Live'
        BY <1>1 DEF ScheduleStep, FreeGarbage, Teardown, pthreadVars, HeadInv,
           BeforeFirstCreate, Live
    <2>2. BornInv'
        BY <2>1, BornFrame DEF JoinInv, TcbKept
    <2>3. QED
        BY <2>1, <2>2 DEF JoinInv
<1>2. QED
    BY <1>1, EntryKeepsJoinInv, MaintenanceKeepsJoinInv, DispatchKeepsJoinInv
    DEF ScheduleStep, Schedule

-----------------------------------------------------------------------------
(* The triggers of the handler *)

LEMMA TickKeepsJoinInv ==
    ASSUME HeadInv, JoinInv, Tick
    PROVE  JoinInv'
<1>1. /\ Live /\ handler = "idle" /\ handler' = "schedule"
      /\ UNCHANGED << pthreadVars, ready_q, tcb, running >>
    BY DEF Tick, HeadInv, BeforeFirstCreate, Live
<1>2. TcbsKept /\ QueuesKept
    BY <1>1, QueuesSame DEF TcbsKept, TcbKept
<1>3. \A t \in Threads : CanRun(t)' <=> CanRun(t)
    BY <1>1 DEF CanRun, OnCpu
<1>4. StopInv'
    BY <1>1 DEF StopInv
<1>5. QED
    BY <1>1, <1>2, <1>3, <1>4, HandlerFrame

LEMMA RaiseKeepsJoinInv ==
    ASSUME HeadInv, JoinInv, Raise
    PROVE  JoinInv'
<1>1. PICK label \in DOMAIN AfterRaise : Running(label) /\ Goto(AfterRaise[label])
    BY DEF Raise
<1>2. /\ handler = "idle" /\ pc[running] = label
      /\ handler' = "schedule" /\ UNCHANGED << ready_q, tcb, running, tid, arg >>
    BY <1>1 DEF Raise, Running
<1>3. label # "user"
    BY DEF AfterRaise
<1>4. Live /\ tid # 0 /\ RunInv
    BY <1>1, <1>3, InLibrary DEF JoinInv, Live
<1>5. \A t \in Threads : \/ pc'[t] = pc[t]
                         \/ pc[t] = "raise_join" /\ pc'[t] = "join_done"
                         \/ /\ pc[t] \notin JoinPlaces \cup {"create_insert"}
                            /\ pc'[t] \notin JoinPlaces \cup {"create_insert"}
    BY <1>1, <1>2 DEF Goto, AfterRaise, JoinPlaces, HeadInv, TypeOK
<1>6. BornInv'
    BY <1>2, <1>4, <1>5, BornFrame DEF JoinInv, TcbKept, JoinPlaces
<1>7. WaitInv'
    BY <1>2, <1>4, <1>5, WaitFrame DEF RunInv
<1>8. \A t \in Threads : pc'[t] = "create_insert" <=> pc[t] = "create_insert"
    BY <1>5
<1>9. PendingInv'
    BY <1>2, <1>4, <1>8, PendingFrame DEF RunInv
<1>10. QueueInv'
    <2>1. \A t \in Threads : Pending(t)' <=> Pending(t)
        BY <1>2, <1>8 DEF Pending
    <2>2. \A t \in Threads : CanRun(t)' <=> CanRun(t)
        BY <1>2 DEF CanRun, OnCpu
    <2>3. QED
        BY <1>2, <1>4, <2>1, <2>2, QueuesSame, QueueFrame DEF RunInv
<1>11. StopInv'
    BY <1>2 DEF StopInv
<1>12. QED
    BY <1>6, <1>7, <1>9, <1>10, <1>11 DEF JoinInv, RunInv

-----------------------------------------------------------------------------
(* The calls that neither create, join nor end a thread *)

LEMMA FieldKept ==
    ASSUME TypeOK, NEW t, NEW a
    PROVE  /\ tcb' = [tcb EXCEPT ![t].priority = a] => TcbsKept
           /\ tcb' = [tcb EXCEPT ![t].cycles_left = a] => TcbsKept
           /\ tcb' = [tcb EXCEPT ![t].acq_locks = a] => TcbsKept
<1>0. tcb \in [Threads -> TcbType]
    BY DEF TypeOK
<1>1. CASE tcb' = [tcb EXCEPT ![t].priority = a]
    BY <1>0, <1>1 DEF TcbsKept, TcbKept, TcbType
<1>2. CASE tcb' = [tcb EXCEPT ![t].cycles_left = a]
    BY <1>0, <1>2 DEF TcbsKept, TcbKept, TcbType
<1>3. CASE tcb' = [tcb EXCEPT ![t].acq_locks = a]
    BY <1>0, <1>3 DEF TcbsKept, TcbKept, TcbType
<1>4. QED
    BY <1>1, <1>2, <1>3

LEMMA FieldsKept ==
    ASSUME TypeOK, NEW t \in Threads, NEW r, tcb' = [tcb EXCEPT ![t] = r],
           r.status = tcb[t].status, r.waited_on = tcb[t].waited_on
    PROVE  TcbsKept
BY DEF TypeOK, TcbsKept, TcbKept

\* The steps that change no more than a thread's numbers and its mutex.
PlainCall ==
    \/ CreatePut \/ Yield \/ LockYield \/ Exit \/ JoinDone
    \/ \E m \in Mutexes :
          \/ Lock(m) \/ LockTry(m) \/ LockHoist(m) \/ LockOwner(m) \/ LockAdjust(m)
          \/ LockExit(m) \/ Unlock(m) \/ UnlockRestore(m)

LEMMA PlainTcbs ==
    ASSUME TypeOK, Current \in Threads, PlainCall
    PROVE  TcbsKept
<1>0. /\ tcb[Current] \in TcbType
      /\ tcb[Current].cycles_left \in Int /\ tcb[Current].acq_locks \in Int
    BY DEF TypeOK, TcbType
<1>1. CASE UNCHANGED tcb
    BY <1>1 DEF TcbsKept, TcbKept
<1>2. CASE Yield \/ LockYield
    BY <1>2, FieldKept DEF Yield, LockYield
<1>3. ASSUME NEW m \in Mutexes, LockAdjust(m) PROVE TcbsKept
    <2> DEFINE own == tcb[Current].priority
               hoisted == Least(mutex[m].hoisted_priority, own)
               slice == tcb[Current].cycles_left + hoisted - own
               new == [tcb[Current] EXCEPT !.cycles_left = slice, !.priority = hoisted]
    <2>1. UNCHANGED tcb \/ tcb' = [tcb EXCEPT ![Current] = new]
        BY <1>3 DEF LockAdjust
    <2>2. new.status = tcb[Current].status /\ new.waited_on = tcb[Current].waited_on
        BY <1>0 DEF TcbType
    <2> HIDE DEF new
    <2>3. QED
        BY <1>1, <2>1, <2>2, FieldsKept
<1>4. ASSUME NEW m \in Mutexes, LockExit(m) PROVE TcbsKept
    <2> DEFINE more == tcb[Current].acq_locks + 1
    <2>1. tcb' = [tcb EXCEPT ![Current].acq_locks = more]
        BY <1>4 DEF LockExit
    <2> HIDE DEF more
    <2>2. QED
        BY <2>1, FieldKept
<1>5. ASSUME NEW m \in Mutexes, UnlockRestore(m) PROVE TcbsKept
    <2> DEFINE fewer == tcb[Current].acq_locks - 1
               before == mutex[m].holding_thread_priority
               left == tcb[Current].cycles_left - (before - mutex[m].hoisted_priority)
               slice == IF left < 0 THEN 0 ELSE left
               new == [tcb[Current] EXCEPT !.acq_locks = fewer, !.priority = before,
                                           !.cycles_left = slice]
    <2>1. \/ tcb' = [tcb EXCEPT ![Current].acq_locks = fewer]
          \/ tcb' = [tcb EXCEPT ![Current] = new]
        BY <1>0, <1>5 DEF UnlockRestore
    <2>2. new.status = tcb[Current].status /\ new.waited_on = tcb[Current].waited_on
        BY <1>0 DEF TcbType
    <2> HIDE DEF fewer, new
    <2>3. QED
        BY <2>1, <2>2, FieldKept, FieldsKept
<1>6. QED
    BY <1>1, <1>2, <1>3, <1>4, <1>5
    DEF PlainCall, Exit, JoinDone, CreatePut, Lock, LockTry, LockHoist, LockOwner, Unlock

LEMMA PlainCallKeepsJoinInv ==
    ASSUME HeadInv, JoinInv, PlainCall
    PROVE  JoinInv'
<1> USE DEF Calls, Return, LibraryFrame, lockVars
<1>0. running \in Threads /\ arg \in [Threads -> Threads \cup {NoThread}]
    BY DEF HeadInv, TypeOK
<1>2. QueuesKept /\ UNCHANGED << tid, running, handler >>
    BY QueuesSame DEF PlainCall, Exit, JoinDone, CreatePut, Yield, LockYield, Lock, LockTry, LockHoist,
       LockOwner, LockAdjust, LockExit, Unlock, UnlockRestore
<1>3. Live /\ handler = "idle" /\ pc[running] \in PlainPlaces \cup {"join_done"}
    <2>1. /\ halt = "none" /\ handler = "idle" /\ (pc[running] = "user" => tid # 0)
          /\ pc[running] \in {"user", "create_put", "lock_try", "lock_hoist", "lock_yield",
                              "lock_owner", "lock_adjust", "lock_exit", "unlock_restore",
                              "join_done"}
        BY DEF PlainCall, Exit, JoinDone, CreatePut, Yield, LockYield, Lock, LockTry, LockHoist, LockOwner,
           LockAdjust, LockExit, Unlock, UnlockRestore, Running
    <2>2. Live
        BY <2>1, InLibrary DEF Running, Live
    <2>3. QED
        BY <2>1, <2>2 DEF PlainPlaces, Labels, JoinPlaces
<1>1. TcbsKept
    BY <1>0, <1>3, CurrentIsRunning, PlainTcbs DEF HeadInv
<1>4. UNCHANGED << pc, arg >> \/ \E label \in PlainPlaces \cup {"exit_wake"} : Goto(label)
    BY DEF PlainCall, Exit, JoinDone, CreatePut, Yield, LockYield, Lock, LockTry, LockHoist, LockOwner,
       LockAdjust, LockExit, Unlock, UnlockRestore, AfterHoist, PlainPlaces, Labels, JoinPlaces
<1>5. \A t \in Threads \ {running} : arg'[t] = arg[t]
    BY <1>0 DEF PlainCall, Exit, JoinDone, CreatePut, Yield, LockYield, Lock, LockTry, LockHoist, LockOwner,
       LockAdjust, LockExit, Unlock, UnlockRestore
<1>6. QED
    BY <1>1, <1>2, <1>3, <1>4, <1>5, PlainStep

LEMMA BoostKeepsJoinInv ==
    ASSUME HeadInv, JoinInv, LockBoost \/ LockBoostMove
    PROVE  JoinInv'
<1>1. Live /\ handler = "idle" /\ pc[running] = "lock_boost" /\ LockBoostPriority
    BY InLibrary DEF LockBoost, LockBoostMove, LockBoostPriority, Running
<1>2. /\ Current = running /\ tcb[running].priority \in Nat
      /\ Boosted \in Threads /\ tcb[Boosted].priority \in Nat
    BY <1>1, CurrentIsRunning DEF HeadInv, TypeOK, TcbType, CallHasThread, Boosted
<1>3. TcbsKept
    BY <1>1, FieldKept DEF LockBoostPriority, HeadInv
<1>4. QueuesKept
    <2>1. CASE LockBoost
        BY <2>1, QueuesSame DEF LockBoost
    <2>2. CASE LockBoostMove
        <3> DEFINE prio == tcb[Boosted].priority
                   to == tcb[running].priority
        <3>1. prio \in Prios /\ ready_q \in ReadyQType
            BY <1>2, <2>2, SchedulerAssumption DEF LockBoostMove, BoostedQueued, Prios, HeadInv,
               TypeOK, ReadyQType
        <3>2. PICK k \in DOMAIN ready_q[prio] :
                  /\ ready_q[prio][k] = Boosted
                  /\ ready_q' = Unlink(insert_ready_q(ready_q, Boosted, to), prio, k)
            BY <1>2, <2>2 DEF LockBoostMove
        <3>3. NodesUnique(ready_q)
            BY <1>1 DEF JoinInv, RunInv, QueueInv
        <3>4. to \in Nat
            BY <1>2
        <3> HIDE DEF prio, to
        <3>5. NodesUnique(ready_q') /\ \A u : IsIn(ready_q', u) <=> IsIn(ready_q, u)
            BY <3>1, <3>2, <3>3, <3>4, MoveNode
        <3>6. QED
            BY <3>5 DEF QueuesKept
    <2>3. QED
        BY <2>1, <2>2
<1>5. \E label \in PlainPlaces : Goto(label)
    BY <1>1 DEF LockBoostPriority, PlainPlaces, Labels, JoinPlaces
<1>6. pc[running] \in PlainPlaces
    BY <1>1 DEF PlainPlaces, Labels, JoinPlaces
<1>7. UNCHANGED << tid, running, handler, arg >>
    BY <1>1 DEF LockBoostPriority, LibraryFrame
<1>8. QED
    BY <1>1, <1>3, <1>4, <1>5, <1>6, <1>7, PlainStep

-----------------------------------------------------------------------------
(* my_pthread_create *)

LEMMA FirstCreateKeepsJoinInv ==
    ASSUME HeadInv, UnbornInv, JoinInv, FirstCreate
    PROVE  JoinInv'
<1>1. /\ tid = 0 /\ running = Main /\ handler = "idle" /\ pc[Main] = "user"
      /\ UNCHANGED << running, handler >> /\ tid' = 2 /\ arg' = arg
      /\ pc' = [pc EXCEPT ![1] = "user"]
      /\ ready_q' = [ready_q EXCEPT ![0] = << Main, 1 >>]
      /\ tcb' = [t \in Threads |-> IF t \in {1, Main} THEN FreshTcb("READY") ELSE tcb[t]]
    BY DEF FirstCreate, HeadInv, BeforeFirstCreate
<1>2. \A t \in Threads : pc'[t] \in {"user", "unborn"}
    <2>1. \A t \in Threads \ {Main} : t > tid /\ t # Main
        BY <1>1 DEF Threads
    <2>2. QED
        BY <1>1, <2>1 DEF UnbornInv, HeadInv, TypeOK
<1>3. \A t \in Threads : /\ tcb'[t].waited_on = << >>
                         /\ tcb'[t].status = IF t \in {1, Main} THEN "READY" ELSE "UNBORN"
    BY <1>1 DEF JoinInv, BornInv, FreshTcb
<1>4. BornInv'
    <2>1. \A t \in Threads : ~Born(t)' => t \notin {1, Main}
        BY <1>1 DEF Born, Main
    <2>2. tid' # 0
        BY <1>1
    <2>3. QED
        BY <1>2, <1>3, <2>1, <2>2 DEF BornInv
<1>5. WaitInv'
    <2>1. \A u \in Threads : DOMAIN tcb'[u].waited_on = {}
        BY <1>3, EmptySeq, LenProperties
    <2>2. QED
        BY <1>2, <1>3, <2>1 DEF WaitInv, Waits
<1>6. PendingInv'
    BY <1>2 DEF PendingInv
<1>7. ready_q'[0] = << Main, 1 >> /\ \A p \in Prios \ {0} : DOMAIN ready_q'[p] = {}
    <2>1. \A p \in Prios : ready_q[p] = << >>
        BY <1>1 DEF JoinInv, BornInv
    <2>2. DOMAIN << >> = {}
        BY EmptySeq, LenProperties
    <2>3. QED
        BY <1>1, <2>1, <2>2, Constants DEF HeadInv, TypeOK
<1>8. DOMAIN ready_q'[0] = {1, 2} /\ ready_q'[0][1] = Main /\ ready_q'[0][2] = 1 /\ Main # 1
    BY <1>7 DEF Main
<1>9. QueueInv'
    <2>1. NodesUnique(ready_q')
        BY <1>7, <1>8 DEF NodesUnique
    <2>2. \A t \in Threads : IsIn(ready_q', t) <=> t \in {1, Main}
        BY <1>7, <1>8, Constants DEF IsIn
    <2>3. \A t \in Threads : CanRun(t)' <=> t \in {1, Main}
        BY <1>1, <1>3 DEF CanRun, OnCpu
    <2>4. \A t \in Threads : ~Pending(t)'
        BY <1>2 DEF Pending
    <2>5. QED
        BY <2>1, <2>2, <2>3, <2>4 DEF QueueInv
<1>10. StopInv'
    BY <1>1, <1>3, Constants DEF StopInv
<1>11. QED
    BY <1>4, <1>5, <1>6, <1>9, <1>10 DEF JoinInv, RunInv

LEMMA CreateTcbKeepsJoinInv ==
    ASSUME HeadInv, UnbornInv, JoinInv, CreateTcb
    PROVE  JoinInv'
<1> DEFINE n == tid + 1
<1>1. n \in Threads /\ n > tid /\ n # Main /\ tid \in Nat \ {0}
    BY NextId DEF HeadInv
<1>2. /\ Live /\ handler = "idle" /\ pc[running] = "user" /\ running \in Threads
      /\ UNCHANGED << ready_q, running, handler >> /\ tid' = n
      /\ pc' = [pc EXCEPT ![running] = "create_insert", ![n] = "user"]
      /\ arg' = [arg EXCEPT ![running] = n]
      /\ tcb' = [tcb EXCEPT ![n] = FreshTcb("READY")]
    BY DEF CreateTcb, Calls, Running, Live, LibraryFrame, HeadInv, TypeOK
<1>3. pc[n] = "unborn" /\ tcb[n].status = "UNBORN" /\ tcb[n].waited_on = << >>
    BY <1>1 DEF UnbornInv, JoinInv, BornInv, Born
<1>4. RunInv /\ BornInv /\ n # running
    BY <1>2, <1>3 DEF JoinInv
<1> HIDE DEF n
<1>5. /\ tcb'[n].status = "READY" /\ tcb'[n].waited_on = << >>
      /\ \A t \in Threads \ {n} : tcb'[t] = tcb[t]
    BY <1>1, <1>2 DEF HeadInv, TypeOK, FreshTcb
<1>6. /\ pc'[running] = "create_insert" /\ arg'[running] = n
      /\ pc'[n] = "user" /\ arg'[n] = arg[n]
      /\ \A t \in Threads \ {n, running} : pc'[t] = pc[t] /\ arg'[t] = arg[t]
    BY <1>1, <1>2, <1>4 DEF HeadInv, TypeOK
<1>7. BornInv'
    <2>1. \A t \in Threads : ~Born(t)' => ~Born(t) /\ t # n
        BY <1>1, <1>2 DEF Born, Threads
    <2>2. \A t \in Threads : pc'[t] = "join_wait" => pc[t] = "join_wait" /\ arg'[t] = arg[t]
        BY <1>6
    <2>3. \A t \in Threads : pc[t] = "join_wait" => arg[t] \in Threads /\ arg[t] <= tid
        BY <1>4 DEF RunInv, WaitInv, BornInv
    <2>4. \A t \in Threads : pc'[t] = "join_wait" => arg'[t] <= tid'
        BY <1>1, <1>2, <2>2, <2>3 DEF Threads
    <2>5. tid' # 0
        BY <1>1, <1>2
    <2>6. QED
        BY <1>4, <1>5, <2>1, <2>4, <2>5 DEF BornInv
<1>8. WaitInv'
    BY <1>2, <1>3, <1>4, <1>5, <1>6, WaitFrame DEF RunInv, JoinPlaces
<1>9. \A c \in Threads : pc'[c] = "create_insert" =>
          \/ c = running
          \/ /\ pc[c] = "create_insert" /\ arg'[c] = arg[c] /\ arg[c] \in Threads \ {n}
             /\ tcb'[arg[c]].status = "READY"
    BY <1>3, <1>4, <1>5, <1>6 DEF RunInv, PendingInv, HeadInv, CallHasThread
<1>10. PendingInv'
    BY <1>4, <1>5, <1>6, <1>9 DEF RunInv, PendingInv
<1>11. QueueInv'
    <2>1. \A t \in Threads : Pending(t)' <=> Pending(t) \/ t = n
        <3>1. ASSUME NEW t \in Threads, NEW c \in Threads, pc'[c] = "create_insert", arg'[c] = t
              PROVE  Pending(t) \/ t = n
            BY <1>6, <1>9, <3>1 DEF Pending
        <3>2. ASSUME NEW t \in Threads, NEW c \in Threads, pc[c] = "create_insert", arg[c] = t
              PROVE  Pending(t)'
            <4>1. c \notin {n, running}
                BY <1>2, <1>3, <3>2
            <4>2. QED
                BY <1>6, <3>2, <4>1 DEF Pending
        <3>3. \A t \in Threads : t = n => Pending(t)'
            BY <1>2, <1>6 DEF Pending
        <3>4. QED
            BY <3>1, <3>2, <3>3 DEF Pending
    <2>2. ~IsIn(ready_q, n)
        BY <1>1, <1>3, <1>4 DEF RunInv, QueueInv, CanRun, OnCpu
    <2>3. \A t \in Threads \ {n} : CanRun(t)' <=> CanRun(t)
        BY <1>2, <1>5 DEF CanRun, OnCpu
    <2>4. QED
        BY <1>2, <1>4, <2>1, <2>2, <2>3 DEF RunInv, QueueInv
<1>12. StopInv'
    BY <1>2, <1>4, <1>5 DEF RunInv, StopInv
<1>13. QED
    BY <1>7, <1>8, <1>10, <1>11, <1>12 DEF JoinInv, RunInv

LEMMA CreateInsertKeepsJoinInv ==
    ASSUME HeadInv, JoinInv, CreateInsert
    PROVE  JoinInv'
<1> DEFINE t == arg[running]
<1>1. /\ Live /\ handler = "idle" /\ pc[running] = "create_insert"
      /\ running \in Threads /\ t \in Threads
      /\ UNCHANGED << tcb, running, handler, tid, arg >>
      /\ pc' = [pc EXCEPT ![running] = "create_put"]
      /\ ready_q' = insert_ready_q(ready_q, t, 0)
    BY InLibrary DEF CreateInsert, Running, Goto, LibraryFrame, HeadInv, TypeOK, CallHasThread
<1>2. RunInv /\ tid # 0
    BY <1>1 DEF JoinInv, Live
<1>3. /\ pc'[running] = "create_put"
      /\ \A u \in Threads \ {running} : pc'[u] = pc[u]
    BY <1>1 DEF HeadInv, TypeOK
<1>4. BornInv'
    BY <1>1, <1>2, <1>3, BornFrame DEF JoinInv, TcbKept
<1>5. WaitInv'
    BY <1>1, <1>2, <1>3, WaitFrame DEF RunInv, JoinPlaces
<1>6. PendingInv'
    BY <1>1, <1>2, <1>3, PendingFrame DEF RunInv
<1>7. QueueInv'
    <2>1. Pending(t) /\ tcb[t].status = "READY"
        BY <1>1, <1>2 DEF Pending, RunInv, PendingInv
    <2>2. \A u \in Threads : Pending(u)' <=> Pending(u) /\ u # t
        BY <1>1, <1>2, <1>3 DEF Pending, RunInv, PendingInv
    <2>3. \A u \in Threads : CanRun(u)' <=> CanRun(u)
        BY <1>1 DEF CanRun, OnCpu
    <2>4. CanRun(t) /\ ~IsIn(ready_q, t)
        BY <1>1, <1>2, <2>1 DEF RunInv, QueueInv, CanRun
    <2>5. /\ \A u : IsIn(ready_q', u) <=> IsIn(ready_q, u) \/ u = t
          /\ NodesUnique(ready_q) /\ ~IsIn(ready_q, t) => NodesUnique(ready_q')
        BY <1>1, InsertQueued DEF HeadInv, TypeOK, ReadyQType
    <2> HIDE DEF t
    <2>6. QED
        BY <1>2, <2>2, <2>3, <2>4, <2>5 DEF RunInv, QueueInv
<1>8. StopInv'
    BY <1>1, <1>2 DEF RunInv, StopInv
<1>9. QED
    BY <1>4, <1>5, <1>6, <1>7, <1>8 DEF JoinInv, RunInv

-----------------------------------------------------------------------------
(* my_pthread_exit and my_pthread_join *)

\* The thread on the CPU is queued, so nobody is about to insert it.
LEMMA RunningQueued ==
    ASSUME HeadInv, JoinInv, Live, handler \in {"idle", "schedule"}
    PROVE  IsIn(ready_q, running) /\ ~Pending(running)
<1>1. /\ ready_q[curr_prio] \in Seq(Threads) /\ ready_q[curr_prio] # << >>
      /\ curr_prio \in Prios /\ Current = running /\ running \in Threads
    BY CurrentIsRunning DEF HeadInv, TypeOK
<1>2. 1 \in DOMAIN ready_q[curr_prio]
    BY <1>1, EmptySeq, LenProperties
<1>3. IsIn(ready_q, running)
    BY <1>1, <1>2 DEF IsIn, Current
<1>4. QED
    BY <1>1, <1>3 DEF JoinInv, RunInv, QueueInv

\* A step of the running thread that touches no queue, and of the statuses only
\* its own.
LEMMA OffQueues ==
    ASSUME HeadInv, JoinInv, Live, handler = "idle", UNCHANGED << ready_q, running, handler >>,
           NEW label, Goto(label), {label, pc[running]} \cap {"create_insert"} = {},
           \A t \in Threads \ {running} :
              arg'[t] = arg[t] /\ tcb'[t].status = tcb[t].status
    PROVE  QueueInv' /\ PendingInv'
<1>0. running \in Threads /\ pc \in [Threads -> Labels] /\ RunInv
    BY DEF HeadInv, TypeOK, JoinInv
<1>1. \A t \in Threads : pc'[t] = "create_insert" <=> pc[t] = "create_insert"
    BY <1>0 DEF Goto
<1>2. \A t \in Threads : pc[t] = "create_insert" => t # running /\ arg'[t] = arg[t]
    OBVIOUS
<1>3. \A t \in Threads : pc[t] = "create_insert" => arg[t] \in Threads \ {running}
    BY RunningQueued DEF HeadInv, CallHasThread, Pending
<1>4. PendingInv'
    BY <1>0, <1>1, <1>2, <1>3, PendingFrame DEF RunInv
<1>5. \A t \in Threads : Pending(t)' <=> Pending(t)
    BY <1>1, <1>2 DEF Pending
<1>6. \A t \in Threads : CanRun(t)' <=> CanRun(t)
    BY DEF CanRun, OnCpu
<1>7. QED
    BY <1>0, <1>4, <1>5, <1>6, QueuesSame, QueueFrame DEF RunInv

LEMMA JoinKeepsJoinInv ==
    ASSUME HeadInv, JoinInv, NEW target \in Threads, Join(target)
    PROVE  JoinInv'
<1>1. /\ Live /\ handler = "idle" /\ pc[running] = "user" /\ running \in Threads /\ tid # 0
      /\ UNCHANGED << ready_q, tcb, running, handler, tid, halt >> /\ target <= tid
    BY DEF Join, Calls, Running, Live, LibraryFrame, HeadInv, TypeOK
<1>2. RunInv /\ BornInv /\ tcb[running].status = "READY"
    BY <1>1 DEF JoinInv, RunInv, StopInv
<1>3. CASE target \notin all_threads
    BY <1>1, <1>3, SameStep DEF Join
<1>4. CASE target \in all_threads
    <2> DEFINE label == IF tcb[target].status # "DONE" THEN "join_wait" ELSE "join_done"
    <2>1. Goto(label) /\ arg' = [arg EXCEPT ![running] = target]
        BY <1>4 DEF Join
    <2>2. /\ pc'[running] = label /\ arg'[running] = target
          /\ \A t \in Threads \ {running} : pc'[t] = pc[t] /\ arg'[t] = arg[t]
        BY <1>1, <2>1 DEF Goto, HeadInv, TypeOK
    <2>3. label \in {"join_wait", "join_done"}
        OBVIOUS
    <2>4. QueueInv' /\ PendingInv'
        BY <1>1, <2>1, <2>2, <2>3, OffQueues
    <2>5. BornInv'
        BY <1>1, <1>2, <2>2, BornFrame DEF TcbKept
    <2>6. WaitInv'
        <3>1. \A t, u \in Threads : Waits(t, u)' <=> Waits(t, u)
            BY <1>1 DEF Waits
        <3>2. \A u \in Threads : ~Waits(running, u)
            BY <1>1, <1>2 DEF RunInv, WaitInv
        <3>3. (\A t, u \in Threads : Waits(t, u) =>
                  /\ arg[t] = u
                  /\ \/ pc[t] = "join_block"
                     \/ tcb[t].status = "BLOCKED" /\ pc[t] \in {"raise_join", "join_done"})'
            BY <1>1, <1>2, <2>2, <3>1, <3>2 DEF RunInv, WaitInv
        <3>4. (\A t \in Threads : pc[t] = "join_block" \/ tcb[t].status = "BLOCKED" =>
                  arg[t] \in Threads /\ Waits(t, arg[t]))'
            BY <1>1, <1>2, <2>2, <2>3 DEF RunInv, WaitInv, Waits
        <3>5. (\A t \in Threads : pc[t] = "join_wait" =>
                  arg[t] \in Threads /\ tcb[arg[t]].status # "DONE")'
            BY <1>1, <1>2, <2>2 DEF RunInv, WaitInv
        <3>6. (\A t \in Threads : pc[t] \in {"raise_join", "join_done"} /\ tcb[t].status # "BLOCKED"
                  => arg[t] \in Threads /\ (tcb[arg[t]].status = "DONE" \/ pc[arg[t]] = "exit_wake"))'
            BY <1>1, <1>2, <2>2 DEF RunInv, WaitInv
        <3>7. QED
            BY <1>1, <1>2, <3>3, <3>4, <3>5, <3>6 DEF RunInv, WaitInv
    <2>7. StopInv'
        BY <1>1, <1>2 DEF StopInv
    <2>8. QED
        BY <2>4, <2>5, <2>6, <2>7 DEF JoinInv, RunInv
<1>5. QED
    BY <1>3, <1>4

LEMMA JoinWaitKeepsJoinInv ==
    ASSUME HeadInv, JoinInv, JoinWait
    PROVE  JoinInv'
<1> DEFINE u == arg[running]
           s == tcb[u].waited_on
<1>1. /\ Live /\ handler = "idle" /\ pc[running] = "join_wait" /\ running \in Threads /\ tid # 0
      /\ UNCHANGED << ready_q, running, handler, tid, arg >> /\ Goto("join_block")
      /\ u \in Threads /\ Current = running
    BY InLibrary, CurrentIsRunning DEF JoinWait, Running, Live, LibraryFrame, HeadInv, TypeOK,
       CallHasThread
<1>2. RunInv /\ BornInv /\ tcb[running].status = "READY" /\ Born(u)
    BY <1>1 DEF JoinInv, RunInv, StopInv, BornInv, Born
<1>3. tcb' = [tcb EXCEPT ![u].waited_on = << running >> \o s]
    BY <1>1 DEF JoinWait
<1>4. /\ s \in Seq(Threads) /\ Len(s) \in Nat /\ DOMAIN s = 1 .. Len(s)
    BY <1>1, LenProperties DEF HeadInv, TypeOK, TcbType
<1>5. /\ DOMAIN (<< running >> \o s) = 1 .. Len(s) + 1
      /\ (<< running >> \o s)[1] = running
      /\ \A k \in 2 .. Len(s) + 1 : (<< running >> \o s)[k] = s[k - 1]
    <2>1. << running >> \in Seq(Threads) /\ Len(<< running >>) = 1 /\ << running >>[1] = running
        BY <1>1
    <2>2. /\ << running >> \o s \in Seq(Threads) /\ Len(<< running >> \o s) = 1 + Len(s)
          /\ \A k \in 1 .. 1 + Len(s) : (<< running >> \o s)[k] =
                 IF k <= 1 THEN << running >>[k] ELSE s[k - 1]
        BY <1>4, <2>1, ConcatProperties
    <2>3. QED
        BY <1>4, <2>1, <2>2, LenProperties
<1> DEFINE r == << running >> \o s
<1>6. /\ tcb'[u].waited_on = r /\ tcb'[u].status = tcb[u].status
      /\ \A t \in Threads \ {u} : tcb'[t] = tcb[t]
    BY <1>1, <1>3 DEF HeadInv, TypeOK, TcbType
<1>7. /\ pc'[running] = "join_block"
      /\ \A t \in Threads \ {running} : pc'[t] = pc[t]
    BY <1>1 DEF Goto, HeadInv, TypeOK
<1>8. s = tcb[u].waited_on /\ u = arg[running]
    OBVIOUS
<1> HIDE DEF u, s, r
<1>9. \A t : ~Waits(running, t) \/ t \notin Threads
    BY <1>1, <1>2 DEF RunInv, WaitInv
<1>10. \A k \in DOMAIN r : \/ k = 1 /\ r[k] = running
                           \/ k - 1 \in DOMAIN s /\ r[k] = s[k - 1] /\ s[k - 1] # running
    <2>1. \A k \in DOMAIN s : s[k] # running
        BY <1>1, <1>8, <1>9 DEF Waits
    <2>2. \A k \in DOMAIN r : k = 1 \/ (k \in 2 .. Len(s) + 1 /\ k - 1 \in 1 .. Len(s))
        BY <1>4, <1>5 DEF r
    <2>3. QED
        BY <1>4, <1>5, <2>1, <2>2 DEF r
<1>11. \A k \in DOMAIN s : k + 1 \in DOMAIN r /\ r[k + 1] = s[k]
    <2>1. \A k \in 1 .. Len(s) : k + 1 \in 2 .. Len(s) + 1 /\ (k + 1) - 1 = k
        BY <1>4
    <2>2. QED
        BY <1>4, <1>5, <2>1 DEF r
<1>12. \A t, v \in Threads : Waits(t, v)' <=> Waits(t, v) \/ (t = running /\ v = u)
    <2>1. \A t, v \in Threads : v # u => (Waits(t, v)' <=> Waits(t, v))
        BY <1>6 DEF Waits
    <2>2. \A t \in Threads : (\E k \in DOMAIN r : r[k] = t) <=>
                             (\E k \in DOMAIN s : s[k] = t) \/ t = running
        <3>1. 1 \in DOMAIN r /\ r[1] = running
            BY <1>4, <1>5 DEF r
        <3>2. QED
            BY <1>10, <1>11, <3>1
    <2>3. \A t \in Threads : Waits(t, u) <=> \E k \in DOMAIN s : s[k] = t
        BY <1>8 DEF Waits
    <2>4. \A t, v \in Threads : v = u => (Waits(t, v)' <=> \E k \in DOMAIN r : r[k] = t)
        BY <1>6 DEF Waits
    <2>5. QED
        BY <2>1, <2>2, <2>3, <2>4
<1>13. \A t \in Threads : tcb'[t].status = tcb[t].status
    BY <1>6
<1>14. QueueInv' /\ PendingInv'
    BY <1>1, <1>13, OffQueues
<1>15. BornInv'
    <2>1. \A t \in Threads : TcbKept(t) \/ Born(t)
        BY <1>2, <1>6 DEF TcbKept
    <2>2. QED
        BY <1>1, <1>2, <1>7, <2>1, BornFrame
<1>16. WaitInv'
    <2>1. (\A t, v \in Threads : Waits(t, v) =>
              /\ arg[t] = v
              /\ \/ pc[t] = "join_block"
                 \/ tcb[t].status = "BLOCKED" /\ pc[t] \in {"raise_join", "join_done"})'
        BY <1>1, <1>2, <1>7, <1>8, <1>9, <1>12, <1>13 DEF RunInv, WaitInv
    <2>2. \A j, k \in DOMAIN r : r[j] = r[k] => j = k
        <3>1. \A j, k \in DOMAIN s : s[j] = s[k] => j = k
            BY <1>1, <1>2, <1>8 DEF RunInv, WaitInv
        <3>2. DOMAIN r \subseteq Int
            BY <1>4, <1>5 DEF r
        <3>3. QED
            BY <1>10, <3>1, <3>2
    <2>3. (\A v \in Threads : \A j, k \in DOMAIN tcb[v].waited_on :
              tcb[v].waited_on[j] = tcb[v].waited_on[k] => j = k)'
        BY <1>2, <1>6, <2>2 DEF RunInv, WaitInv
    <2>4. (\A t \in Threads : pc[t] = "join_block" \/ tcb[t].status = "BLOCKED" =>
              arg[t] \in Threads /\ Waits(t, arg[t]))'
        <3>1. \A t \in Threads : pc'[t] = "join_block" \/ tcb'[t].status = "BLOCKED" =>
                  \/ t = running
                  \/ arg[t] \in Threads /\ Waits(t, arg[t])
            BY <1>2, <1>7, <1>13 DEF RunInv, WaitInv
        <3>2. \A t \in Threads : pc'[t] = "join_block" \/ tcb'[t].status = "BLOCKED" =>
                  \E v \in Threads : arg[t] = v /\ Waits(t, v)'
            BY <1>1, <1>8, <1>12, <3>1
        <3>3. QED
            BY <1>1, <3>2 DEF Waits
    <2>5. (\A v \in Threads : tcb[v].status = "DONE" => tcb[v].waited_on = << >>)'
        BY <1>1, <1>2, <1>6, <1>8, <1>13 DEF RunInv, WaitInv
    <2>6. (\A t \in Threads : pc[t] = "join_wait" =>
              arg[t] \in Threads /\ tcb[arg[t]].status # "DONE")'
        BY <1>1, <1>2, <1>7, <1>13 DEF RunInv, WaitInv
    <2>7. (\A t \in Threads : pc[t] \in {"raise_join", "join_done"} /\ tcb[t].status # "BLOCKED" =>
              arg[t] \in Threads /\ (tcb[arg[t]].status = "DONE" \/ pc[arg[t]] = "exit_wake"))'
        BY <1>1, <1>2, <1>7, <1>13 DEF RunInv, WaitInv
    <2>8. QED
        BY <2>1, <2>3, <2>4, <2>5, <2>6, <2>7 DEF WaitInv
<1>17. StopInv'
    BY <1>1, <1>2, <1>13 DEF StopInv
<1>18. QED
    BY <1>14, <1>15, <1>16, <1>17 DEF JoinInv, RunInv

LEMMA JoinBlockKeepsJoinInv ==
    ASSUME HeadInv, JoinInv, UnbornInv, JoinBlock
    PROVE  JoinInv'
<1>1. /\ Live /\ handler = "idle" /\ pc[running] = "join_block" /\ running \in Threads /\ tid # 0
      /\ UNCHANGED << ready_q, running, handler, tid, arg >> /\ Goto("raise_join")
      /\ tcb' = [tcb EXCEPT ![running].status = "BLOCKED"]
    BY InLibrary, CurrentIsRunning DEF JoinBlock, Running, Live, LibraryFrame, HeadInv, TypeOK
<1>2. RunInv /\ BornInv /\ tcb[running].status = "READY"
    BY <1>1 DEF JoinInv, RunInv, StopInv
<1>3. /\ tcb'[running].status = "BLOCKED"
      /\ \A t \in Threads \ {running} : tcb'[t].status = tcb[t].status
      /\ \A t \in Threads : tcb'[t].waited_on = tcb[t].waited_on
    BY <1>1 DEF HeadInv, TypeOK, TcbType
<1>4. /\ pc'[running] = "raise_join"
      /\ \A t \in Threads \ {running} : pc'[t] = pc[t]
    BY <1>1 DEF Goto, HeadInv, TypeOK
<1>5. QueueInv' /\ PendingInv'
    BY <1>1, <1>3, OffQueues
<1>6. BornInv'
    <2>1. Born(running)
        BY <1>1 DEF UnbornInv, Born, HeadInv, TypeOK, Threads
    <2>2. \A t \in Threads : TcbKept(t) \/ Born(t)
        BY <1>3, <2>1 DEF TcbKept
    <2>3. QED
        BY <1>1, <1>2, <1>4, <2>2, BornFrame
<1>7. WaitInv'
    <2>1. \A t, u \in Threads : Waits(t, u)' <=> Waits(t, u)
        BY <1>3 DEF Waits
    <2>2. (\A t, u \in Threads : Waits(t, u) =>
              /\ arg[t] = u
              /\ \/ pc[t] = "join_block"
                 \/ tcb[t].status = "BLOCKED" /\ pc[t] \in {"raise_join", "join_done"})'
        BY <1>1, <1>2, <1>3, <1>4, <2>1 DEF RunInv, WaitInv
    <2>3. (\A u \in Threads : \A j, k \in DOMAIN tcb[u].waited_on :
              tcb[u].waited_on[j] = tcb[u].waited_on[k] => j = k)'
        BY <1>2, <1>3 DEF RunInv, WaitInv
    <2>4. (\A t \in Threads : pc[t] = "join_block" \/ tcb[t].status = "BLOCKED" =>
              arg[t] \in Threads /\ Waits(t, arg[t]))'
        BY <1>1, <1>2, <1>3, <1>4 DEF RunInv, WaitInv, Waits
    <2>5. (\A u \in Threads : tcb[u].status = "DONE" => tcb[u].waited_on = << >>)'
        BY <1>2, <1>3 DEF RunInv, WaitInv
    <2>6. (\A t \in Threads : pc[t] = "join_wait" =>
              arg[t] \in Threads /\ tcb[arg[t]].status # "DONE")'
        BY <1>1, <1>2, <1>3, <1>4 DEF RunInv, WaitInv
    <2>7. (\A t \in Threads : pc[t] \in {"raise_join", "join_done"} /\ tcb[t].status # "BLOCKED" =>
              arg[t] \in Threads /\ (tcb[arg[t]].status = "DONE" \/ pc[arg[t]] = "exit_wake"))'
        BY <1>1, <1>2, <1>3, <1>4 DEF RunInv, WaitInv
    <2>8. QED
        BY <2>2, <2>3, <2>4, <2>5, <2>6, <2>7 DEF WaitInv
<1>8. StopInv'
    BY <1>1, <1>4 DEF StopInv
<1>9. QED
    BY <1>5, <1>6, <1>7, <1>8 DEF JoinInv, RunInv

LEMMA ExitWakeKeepsJoinInv ==
    ASSUME HeadInv, JoinInv, UnbornInv, SectionInv, ExitWake
    PROVE  JoinInv'
<1> DEFINE s == tcb[running].waited_on
           w == s[1]
<1>1. /\ Live /\ handler = "idle" /\ pc[running] = "exit_wake" /\ running \in Threads /\ tid # 0
      /\ UNCHANGED << running, handler, tid, arg, pc >> /\ Current = running /\ s # << >>
    BY InLibrary, CurrentIsRunning DEF ExitWake, Running, Live, LibraryFrame, HeadInv, TypeOK,
       pthreadVars
<1>2. /\ tcb' = [tcb EXCEPT ![running].waited_on = Tail(s), ![w].status = "READY"]
      /\ ready_q' = insert_ready_q(ready_q, w, tcb[w].priority)
    BY <1>1 DEF ExitWake
<1>3. RunInv /\ BornInv /\ tcb[running].status = "READY"
    BY <1>1 DEF JoinInv, RunInv, StopInv
<1>4. /\ s \in Seq(Threads) /\ Len(s) \in Nat \ {0} /\ DOMAIN s = 1 .. Len(s)
      /\ Tail(s) \in Seq(Threads)
      /\ DOMAIN Tail(s) = 1 .. Len(s) - 1 /\ \A k \in 1 .. Len(s) - 1 : Tail(s)[k] = s[k + 1]
    <2>1. s \in Seq(Threads)
        BY <1>1 DEF HeadInv, TypeOK, TcbType
    <2> HIDE DEF s
    <2>2. Len(s) \in Nat \ {0} /\ DOMAIN s = 1 .. Len(s)
        BY <1>1, <2>1, EmptySeq, LenProperties
    <2>3. /\ Tail(s) \in Seq(Threads) /\ Len(Tail(s)) = Len(s) - 1
          /\ \A k \in 1 .. Len(Tail(s)) : Tail(s)[k] = s[k + 1]
        BY <1>1, <2>1, HeadTailProperties
    <2>4. QED
        BY <2>1, <2>2, <2>3, LenProperties
<1>5. /\ s = tcb[running].waited_on /\ 1 \in DOMAIN s /\ w = s[1] /\ w \in Threads
      /\ Waits(w, running)
    BY <1>4, ElementOfSeq DEF Waits
<1> HIDE DEF s, w
<1>6. /\ arg[w] = running /\ w # running /\ tcb[w].status = "BLOCKED"
      /\ pc[w] \in {"raise_join", "join_done"}
    <2>1. /\ arg[w] = running
          /\ \/ pc[w] = "join_block"
             \/ tcb[w].status = "BLOCKED" /\ pc[w] \in {"raise_join", "join_done"}
        BY <1>1, <1>3, <1>5 DEF RunInv, WaitInv
    <2>2. pc[w] # "join_block"
        BY <1>1, <1>5 DEF SectionInv, Sections, Preemptible, LockLabels, Labels
    <2>3. QED
        BY <1>3, <2>1, <2>2
<1>7. /\ tcb'[running].waited_on = Tail(s)
      /\ \A t \in Threads \ {running} : tcb'[t].waited_on = tcb[t].waited_on
      /\ tcb'[w].status = "READY"
      /\ \A t \in Threads \ {w} : tcb'[t].status = tcb[t].status
    <2> DEFINE emptied == [tcb EXCEPT ![running].waited_on = Tail(s)]
    <2>1. tcb \in [Threads -> TcbType]
        BY DEF HeadInv, TypeOK
    <2>2. emptied \in [Threads -> TcbType]
        BY <1>1, <1>4, <2>1 DEF TcbType
    <2>3. /\ emptied[running].waited_on = Tail(s)
          /\ emptied[running].status = tcb[running].status
          /\ \A t \in Threads \ {running} : emptied[t] = tcb[t]
        BY <1>1, <2>1 DEF TcbType
    <2>4. tcb' = [emptied EXCEPT ![w].status = "READY"]
        BY <1>2
    <2> HIDE DEF emptied
    <2>5. /\ tcb'[w].status = "READY" /\ tcb'[w].waited_on = emptied[w].waited_on
          /\ \A t \in Threads \ {w} : tcb'[t] = emptied[t]
        BY <1>5, <2>2, <2>4 DEF TcbType
    <2>6. QED
        BY <1>1, <1>5, <1>6, <2>3, <2>5
<1>8. \A t, u \in Threads : Waits(t, u)' <=> Waits(t, u) /\ t # w
    <2>1. \A j, k \in DOMAIN s : s[j] = s[k] => j = k
        BY <1>1, <1>3, <1>5 DEF RunInv, WaitInv
    <2>2. ASSUME NEW t \in Threads
          PROVE  (\E k \in DOMAIN Tail(s) : Tail(s)[k] = t) <=> (\E k \in DOMAIN s : s[k] = t) /\ t # w
        <3>1. ASSUME NEW k \in DOMAIN Tail(s), Tail(s)[k] = t
              PROVE  (\E i \in DOMAIN s : s[i] = t) /\ t # w
            <4>1. k + 1 \in DOMAIN s /\ k + 1 # 1 /\ s[k + 1] = t
                BY <1>4, <3>1
            <4>2. QED
                BY <1>5, <2>1, <4>1
        <3>2. ASSUME NEW k \in DOMAIN s, s[k] = t, t # w
              PROVE  \E i \in DOMAIN Tail(s) : Tail(s)[i] = t
            <4>1. k # 1
                BY <1>5, <3>2
            <4>2. k - 1 \in DOMAIN Tail(s) /\ (k - 1) + 1 = k
                BY <1>4, <4>1
            <4>3. Tail(s)[k - 1] = t
                BY <1>4, <3>2, <4>2
            <4>4. QED
                BY <4>2, <4>3
        <3>3. QED
            BY <3>1, <3>2
    <2>3. ASSUME NEW t \in Threads, NEW u \in Threads, u = running
          PROVE  Waits(t, u)' <=> Waits(t, u) /\ t # w
        <3>1. tcb'[u].waited_on = Tail(s) /\ tcb[u].waited_on = s
            BY <1>5, <1>7, <2>3
        <3>2. QED
            BY <2>2, <3>1 DEF Waits
    <2>4. \A t, u \in Threads : u # running => (Waits(t, u)' <=> Waits(t, u))
        BY <1>7 DEF Waits
    <2>5. \A u \in Threads : Waits(w, u) => u = running
        BY <1>3, <1>5, <1>6 DEF RunInv, WaitInv
    <2>6. ASSUME NEW t \in Threads, NEW u \in Threads
          PROVE  Waits(t, u)' <=> Waits(t, u) /\ t # w
        <3>1. CASE u = running
            BY <2>3, <3>1
        <3>2. CASE u # running
            BY <2>4, <2>5, <3>2
        <3>3. QED
            BY <3>1, <3>2
    <2>7. QED
        BY <2>6
<1>9. BornInv'
    <2>1. Born(running) /\ Born(w)
        BY <1>1, <1>5, <1>6 DEF UnbornInv, Born, HeadInv, TypeOK, Threads
    <2>2. \A t \in Threads : TcbKept(t) \/ Born(t)
        BY <1>7, <2>1 DEF TcbKept
    <2>3. QED
        BY <1>1, <1>3, <2>2, BornFrame
<1>10. WaitInv'
    <2>1. (\A t, u \in Threads : Waits(t, u) =>
              /\ arg[t] = u
              /\ \/ pc[t] = "join_block"
                 \/ tcb[t].status = "BLOCKED" /\ pc[t] \in {"raise_join", "join_done"})'
        BY <1>1, <1>3, <1>7, <1>8 DEF RunInv, WaitInv
    <2>2. \A j, k \in DOMAIN Tail(s) : Tail(s)[j] = Tail(s)[k] => j = k
        <3>1. \A j, k \in DOMAIN s : s[j] = s[k] => j = k
            BY <1>1, <1>3, <1>5 DEF RunInv, WaitInv
        <3>2. \A k \in DOMAIN Tail(s) : k \in Int /\ k + 1 \in DOMAIN s /\ Tail(s)[k] = s[k + 1]
            BY <1>4
        <3>3. QED
            BY <3>1, <3>2
    <2>3. (\A u \in Threads : \A j, k \in DOMAIN tcb[u].waited_on :
              tcb[u].waited_on[j] = tcb[u].waited_on[k] => j = k)'
        <3> SUFFICES ASSUME NEW u \in Threads
                     PROVE  \A j, k \in DOMAIN tcb'[u].waited_on :
                               tcb'[u].waited_on[j] = tcb'[u].waited_on[k] => j = k
            OBVIOUS
        <3>1. CASE u = running
            BY <1>7, <2>2, <3>1
        <3>2. CASE u # running
            BY <1>3, <1>7, <3>2 DEF RunInv, WaitInv
        <3>3. QED
            BY <3>1, <3>2
    <2>4. (\A t \in Threads : pc[t] = "join_block" \/ tcb[t].status = "BLOCKED" =>
              arg[t] \in Threads /\ Waits(t, arg[t]))'
        <3>1. \A t \in Threads : pc'[t] = "join_block" \/ tcb'[t].status = "BLOCKED" =>
                  t # w /\ arg[t] \in Threads /\ Waits(t, arg[t])
            BY <1>1, <1>3, <1>6, <1>7 DEF RunInv, WaitInv
        <3>2. \A t \in Threads : pc'[t] = "join_block" \/ tcb'[t].status = "BLOCKED" =>
                  \E u \in Threads : arg[t] = u /\ Waits(t, u)'
            BY <1>8, <3>1
        <3>3. QED
            BY <1>1, <3>2 DEF Waits
    <2>5. (\A u \in Threads : tcb[u].status = "DONE" => tcb[u].waited_on = << >>)'
        BY <1>3, <1>6, <1>7 DEF RunInv, WaitInv
    <2>6. (\A t \in Threads : pc[t] = "join_wait" =>
              arg[t] \in Threads /\ tcb[arg[t]].status # "DONE")'
        BY <1>1, <1>3, <1>7 DEF RunInv, WaitInv
    <2>7. (\A t \in Threads : pc[t] \in {"raise_join", "join_done"} /\ tcb[t].status # "BLOCKED" =>
              arg[t] \in Threads /\ (tcb[arg[t]].status = "DONE" \/ pc[arg[t]] = "exit_wake"))'
        BY <1>1, <1>3, <1>6, <1>7 DEF RunInv, WaitInv
    <2>8. QED
        BY <2>1, <2>3, <2>4, <2>5, <2>6, <2>7 DEF WaitInv
<1>11. PendingInv'
    <2>1. \A t \in Threads : tcb[t].status = "READY" => tcb'[t].status = "READY"
        BY <1>7
    <2>2. \A t \in Threads : pc[t] = "create_insert" => arg[t] \in Threads
        BY DEF HeadInv, CallHasThread
    <2>3. QED
        BY <1>1, <1>3, <2>1, <2>2, PendingFrame DEF RunInv
<1>12. QueueInv'
    <2>1. tcb[w].priority \in Nat
        BY <1>5 DEF HeadInv, TypeOK, TcbType
    <2>2. ~IsIn(ready_q, w) /\ ~Pending(w)
        BY <1>1, <1>3, <1>5, <1>6 DEF RunInv, QueueInv, CanRun, OnCpu, PendingInv, Pending
    <2>3. /\ NodesUnique(ready_q')
          /\ \A u : IsIn(ready_q', u) <=> IsIn(ready_q, u) \/ u = w
        <3>1. ready_q \in ReadyQType /\ NodesUnique(ready_q)
            BY <1>3 DEF HeadInv, TypeOK, RunInv, QueueInv, ReadyQType
        <3>2. QED
            BY <1>2, <1>5, <2>1, <2>2, <3>1, InsertQueued
    <2>4. \A t \in Threads : CanRun(t)' <=> CanRun(t) \/ t = w
        BY <1>1, <1>5, <1>7 DEF CanRun, OnCpu
    <2>5. \A t \in Threads : Pending(t)' <=> Pending(t)
        BY <1>1 DEF Pending
    <2>6. QED
        BY <1>3, <2>2, <2>3, <2>4, <2>5 DEF RunInv, QueueInv
<1>13. StopInv'
    BY <1>1, <1>3, <1>6, <1>7 DEF StopInv
<1>14. QED
    BY <1>9, <1>10, <1>11, <1>12, <1>13 DEF JoinInv, RunInv

LEMMA ExitDoneKeepsJoinInv ==
    ASSUME HeadInv, JoinInv, UnbornInv, SectionInv, ExitDone
    PROVE  JoinInv'
<1>1. /\ Live /\ handler = "idle" /\ pc[running] = "exit_wake" /\ running \in Threads /\ tid # 0
      /\ UNCHANGED << ready_q, running, handler, tid, arg >> /\ Goto("raise_exit")
      /\ tcb[running].waited_on = << >>
      /\ tcb' = [tcb EXCEPT ![running].status = "DONE"]
    BY InLibrary, CurrentIsRunning DEF ExitDone, Running, Live, LibraryFrame, HeadInv, TypeOK
<1>2. RunInv /\ BornInv /\ tcb[running].status = "READY"
    BY <1>1 DEF JoinInv, RunInv, StopInv
<1>3. /\ tcb'[running].status = "DONE"
      /\ \A t \in Threads \ {running} : tcb'[t].status = tcb[t].status
      /\ \A t \in Threads : tcb'[t].waited_on = tcb[t].waited_on
    BY <1>1 DEF HeadInv, TypeOK, TcbType
<1>4. /\ pc'[running] = "raise_exit"
      /\ \A t \in Threads \ {running} : pc'[t] = pc[t]
    BY <1>1 DEF Goto, HeadInv, TypeOK
<1>5. \A t \in Threads : /\ pc[t] # "join_wait"
                         /\ pc[t] = "exit_wake" => t = running
    BY <1>1 DEF SectionInv, Sections, Preemptible, LockLabels, Labels
<1>6. QueueInv' /\ PendingInv'
    BY <1>1, <1>3, OffQueues
<1>7. BornInv'
    <2>1. Born(running)
        BY <1>1 DEF UnbornInv, Born, HeadInv, TypeOK, Threads
    <2>2. \A t \in Threads : TcbKept(t) \/ Born(t)
        BY <1>3, <2>1 DEF TcbKept
    <2>3. QED
        BY <1>1, <1>2, <1>4, <2>2, BornFrame
<1>8. WaitInv'
    <2>1. (\A t, u \in Threads : Waits(t, u) =>
              /\ arg[t] = u
              /\ \/ pc[t] = "join_block"
                 \/ tcb[t].status = "BLOCKED" /\ pc[t] \in {"raise_join", "join_done"})'
        BY <1>1, <1>2, <1>3, <1>4 DEF RunInv, WaitInv, Waits
    <2>2. (\A u \in Threads : \A j, k \in DOMAIN tcb[u].waited_on :
              tcb[u].waited_on[j] = tcb[u].waited_on[k] => j = k)'
        BY <1>2, <1>3 DEF RunInv, WaitInv
    <2>3. (\A t \in Threads : pc[t] = "join_block" \/ tcb[t].status = "BLOCKED" =>
              arg[t] \in Threads /\ Waits(t, arg[t]))'
        BY <1>1, <1>2, <1>3, <1>4 DEF RunInv, WaitInv, Waits
    <2>4. (\A u \in Threads : tcb[u].status = "DONE" => tcb[u].waited_on = << >>)'
        BY <1>1, <1>2, <1>3 DEF RunInv, WaitInv
    <2>5. (\A t \in Threads : pc[t] = "join_wait" =>
              arg[t] \in Threads /\ tcb[arg[t]].status # "DONE")'
        BY <1>4, <1>5
    <2>6. (\A t \in Threads : pc[t] \in {"raise_join", "join_done"} /\ tcb[t].status # "BLOCKED" =>
              arg[t] \in Threads /\ (tcb[arg[t]].status = "DONE" \/ pc[arg[t]] = "exit_wake"))'
        BY <1>1, <1>2, <1>3, <1>4, <1>5 DEF RunInv, WaitInv
    <2>7. QED
        BY <2>1, <2>2, <2>3, <2>4, <2>5, <2>6 DEF WaitInv
<1>9. StopInv'
    BY <1>1, <1>4 DEF StopInv
<1>10. QED
    BY <1>6, <1>7, <1>8, <1>9 DEF JoinInv, RunInv

-----------------------------------------------------------------------------
(* The invariant is kept *)

LEMMA JoinInvInit == Init => JoinInv
BY DEF Init, JoinInv, BornInv, Live, FreshTcb

LEMMA JoinInvStep ==
    ASSUME RetryInQuantum, HeadInv, UnbornInv, SectionInv, JoinInv, [Next]_vars
    PROVE  JoinInv'
<1>1. CASE Halted \/ Compute \/ UNCHANGED vars
    BY <1>1, SameStep DEF Halted, Compute, vars, schedVars, pthreadVars
<1>2. ASSUME NEW m \in Mutexes, MutexInit(m) \/ MutexDestroy(m) PROVE JoinInv'
    BY <1>2, SameStep DEF MutexInit, MutexDestroy, schedVars
<1>3. CASE Tick
    BY <1>3, TickKeepsJoinInv
<1>4. CASE ScheduleStep
    BY <1>4, HandlerKeepsJoinInv
<1>5. CASE Raise
    BY <1>5, RaiseKeepsJoinInv
<1>6. CASE FirstCreate \/ CreateTcb \/ CreateInsert
    BY <1>6, FirstCreateKeepsJoinInv, CreateTcbKeepsJoinInv, CreateInsertKeepsJoinInv
<1>7. CASE ExitWake \/ ExitDone
    BY <1>7, ExitWakeKeepsJoinInv, ExitDoneKeepsJoinInv
<1>8. ASSUME NEW target \in Threads, Join(target) PROVE JoinInv'
    BY <1>8, JoinKeepsJoinInv
<1>9. CASE JoinWait \/ JoinBlock
    BY <1>9, JoinWaitKeepsJoinInv, JoinBlockKeepsJoinInv
<1>10. CASE LockBoost \/ LockBoostMove
    BY <1>10, BoostKeepsJoinInv
<1>11. CASE PlainCall
    BY <1>11, PlainCallKeepsJoinInv
<1>12. QED
    BY <1>1, <1>2, <1>3, <1>4, <1>5, <1>6, <1>7, <1>8, <1>9, <1>10, <1>11, QuietRetry
    DEF Next, LibraryStep, UserCall, PlainCall

\* The invariants hold: SectionInv, and JoinInv which rests on it, where a thread
\* that waits for a mutex tries again in one quantum, so that the timer calls
\* take effect and no alarm interrupts its surgery on the queues.
LEMMA JoinInvariant == RetryInQuantum /\ Spec => [](HeadInv /\ SectionInv /\ JoinInv)
<1>1. Init => UnbornInv /\ SectionInv /\ JoinInv
    BY JoinInvInit DEF Init, UnbornInv, SectionInv, Sections, Preemptible
<1>2. ASSUME RetryInQuantum PROVE Spec => [](HeadInv /\ SectionInv /\ JoinInv)
    <2>0. TimerCallsWork
        BY <1>2, ClientAssumption
    <2>1. HeadInv /\ UnbornInv /\ SectionInv /\ JoinInv /\ [Next]_vars =>
              UnbornInv' /\ SectionInv' /\ JoinInv'
        BY <1>2, <2>0, UnbornStep, SectionStep, JoinInvStep DEF HeadInv
    <2>2. QED
        BY <1>1, <2>1, HeadInvariant, PTL DEF Spec
<1>3. QED
    BY <1>2

-----------------------------------------------------------------------------
(* The properties *)

LEMMA PlacesCounted ==
    ASSUME NodesUnique(ready_q), NEW t
    PROVE  Cardinality(Places(t)) = IF IsIn(ready_q, t) THEN 1 ELSE 0
<1>1. \A node : node \in Places(t) <=>
          \E prio \in Prios : \E k \in DOMAIN ready_q[prio] :
              node = << prio, k >> /\ ready_q[prio][k] = t
    BY DEF Places
<1>2. CASE ~IsIn(ready_q, t)
    <2>1. Places(t) = {}
        BY <1>1, <1>2 DEF IsIn
    <2>2. QED
        BY <1>2, <2>1, FS_EmptySet
<1>3. CASE IsIn(ready_q, t)
    <2>1. PICK prio \in Prios : \E k \in DOMAIN ready_q[prio] : ready_q[prio][k] = t
        BY <1>3 DEF IsIn
    <2>2. PICK k \in DOMAIN ready_q[prio] : ready_q[prio][k] = t
        BY <2>1
    <2>3. \A node \in Places(t) : node = << prio, k >>
        BY <1>1, <2>2 DEF NodesUnique
    <2>4. Places(t) = {<< prio, k >>}
        BY <1>1, <2>2, <2>3
    <2>5. QED
        BY <1>3, <2>4, FS_Singleton
<1>4. QED
    BY <1>2, <1>3

LEMMA WaitingCounted ==
    ASSUME WaitInv, NEW t \in Threads, NEW u \in Threads, Waits(t, u)
    PROVE  Cardinality(Waiting(t)) = 1 /\ \A w \in Waiting(t) : w[1] = u
<1>1. \A node : node \in Waiting(t) <=>
          \E v \in Threads : \E k \in DOMAIN tcb[v].waited_on :
              node = << v, k >> /\ tcb[v].waited_on[k] = t
    BY DEF Waiting
<1>2. PICK k \in DOMAIN tcb[u].waited_on : tcb[u].waited_on[k] = t
    BY DEF Waits
<1>3. \A v \in Threads : Waits(t, v) => v = u
    BY DEF WaitInv
<1>4. ASSUME NEW node \in Waiting(t) PROVE node = << u, k >>
    <2>1. PICK v \in Threads : \E j \in DOMAIN tcb[v].waited_on :
              node = << v, j >> /\ tcb[v].waited_on[j] = t
        BY <1>1
    <2>2. PICK j \in DOMAIN tcb[v].waited_on : node = << v, j >> /\ tcb[v].waited_on[j] = t
        BY <2>1
    <2>3. v = u
        BY <1>3, <2>2 DEF Waits
    <2>4. j = k
        BY <1>2, <2>2, <2>3 DEF WaitInv
    <2>5. QED
        BY <2>2, <2>3, <2>4
<1>5. Waiting(t) = {<< u, k >>}
    BY <1>1, <1>2, <1>4
<1>6. Cardinality(Waiting(t)) = 1
    BY <1>5, FS_Singleton
<1>7. QED
    BY <1>4, <1>6

\* A thread that can run is in the ready queues exactly once, whatever creation,
\* aging, hoisting, wake-ups and the handler have done to them.
THEOREM RunnableQueuedOnce == RetryInQuantum /\ Spec => []ReadyIffQueued
<1>1. HeadInv /\ JoinInv => ReadyIffQueued
    <2> SUFFICES ASSUME HeadInv, JoinInv, Live, NEW t \in 1 .. tid, ~Pending(t)
                 PROVE  Cardinality(Places(t)) = IF CanRun(t) THEN 1 ELSE 0
        BY DEF ReadyIffQueued, Pending, CanRun
    <2>1. t \in Threads
        BY SchedulerAssumption DEF HeadInv, TypeOK, Threads
    <2>2. NodesUnique(ready_q) /\ (IsIn(ready_q, t) <=> CanRun(t))
        BY <2>1 DEF JoinInv, RunInv, QueueInv
    <2>3. QED
        BY <2>2, PlacesCounted
<1>2. QED
    BY <1>1, JoinInvariant, PTL

LEMMA DoneAtReturn ==
    ASSUME HeadInv, SectionInv, JoinInv
    PROVE  JoinedIsDone
<1> SUFFICES ASSUME Live, NEW t \in Threads, At(t, "join_done")
             PROVE  tcb[arg[t]].status = "DONE"
    BY DEF JoinedIsDone
<1>1. t = running /\ handler = "idle" /\ pc[t] = "join_done" /\ RunInv
    BY DEF At, OnCpu, JoinInv
<1>2. tcb[t].status = "READY"
    BY <1>1 DEF RunInv, StopInv
<1>3. arg[t] \in Threads /\ (tcb[arg[t]].status = "DONE" \/ pc[arg[t]] = "exit_wake")
    BY <1>1, <1>2 DEF RunInv, WaitInv
<1>4. pc[arg[t]] # "exit_wake"
    BY <1>1, <1>3 DEF SectionInv, Sections, Preemptible, LockLabels, Labels
<1>5. QED
    BY <1>3, <1>4

\* A thread comes back from my_pthread_join only when its target is done.
THEOREM JoinReturnsWhenDone == RetryInQuantum /\ Spec => []JoinedIsDone
BY DoneAtReturn, JoinInvariant, PTL

\* A blocked thread is on the list of one thread, which has not ended yet.
THEOREM NoJoinerStranded == RetryInQuantum /\ Spec => []JoinersAreWoken
<1>1. JoinInv => JoinersAreWoken
    <2> SUFFICES ASSUME JoinInv, Live, NEW t \in Threads, tcb[t].status = "BLOCKED"
                 PROVE  /\ Cardinality(Waiting(t)) = 1
                        /\ \A w \in Waiting(t) : tcb[w[1]].status # "DONE"
        BY DEF JoinersAreWoken
    <2>1. WaitInv
        BY DEF JoinInv, RunInv
    <2>2. PICK u \in Threads : Waits(t, u)
        BY <2>1 DEF WaitInv
    <2>3. tcb[u].waited_on # << >>
        BY <2>2 DEF Waits
    <2>4. tcb[u].status # "DONE"
        BY <2>1, <2>3 DEF WaitInv
    <2>5. QED
        BY <2>1, <2>2, <2>4, WaitingCounted
<1>2. QED
    BY <1>1, JoinInvariant, PTL

-----------------------------------------------------------------------------
(* Statuses *)

\* A thread that is done stays so, only the one on the CPU ends, one that is
\* created does not become unborn, and one that creates is not stopped.
StatusKept ==
    \A t \in Threads :
        /\ tcb[t].status = "DONE" => tcb'[t].status = "DONE"
        /\ tcb'[t].status = "DONE" => tcb[t].status = "DONE" \/ OnCpu(t)
        /\ tcb'[t].status = "UNBORN" => tcb[t].status = "UNBORN"
        /\ tcb[t].status = "READY" /\ pc[t] = "create_insert" => tcb'[t].status = "READY"

LEMMA SameStatus == TcbsKept => StatusKept
BY DEF TcbsKept, TcbKept, StatusKept

LEMMA ExitStatus ==
    ASSUME HeadInv, SectionInv, JoinInv, ExitWake \/ ExitDone
    PROVE  StatusKept
<1>1. /\ Live /\ handler = "idle" /\ pc[running] = "exit_wake"
      /\ running \in Threads /\ Current = running /\ tcb \in [Threads -> TcbType]
    BY InLibrary, CurrentIsRunning DEF ExitWake, ExitDone, Running, Live, HeadInv, TypeOK
<1>2. CASE ExitDone
    <2>1. tcb' = [tcb EXCEPT ![running].status = "DONE"]
        BY <1>1, <1>2 DEF ExitDone
    <2>2. QED
        BY <1>1, <2>1 DEF StatusKept, OnCpu, TcbType
<1>3. CASE ExitWake
    <2> DEFINE s == tcb[running].waited_on
               w == s[1]
               emptied == [tcb EXCEPT ![running].waited_on = Tail(s)]
    <2>1. tcb' = [emptied EXCEPT ![w].status = "READY"] /\ s # << >>
        BY <1>1, <1>3 DEF ExitWake
    <2>2. s \in Seq(Threads)
        BY <1>1 DEF TcbType
    <2>3. 1 \in DOMAIN s
        BY <2>1, <2>2, EmptySeq, LenProperties
    <2>4. w \in Threads /\ Waits(w, running)
        BY <2>2, <2>3, ElementOfSeq, LenProperties DEF Waits
    <2>5. emptied \in [Threads -> TcbType] /\ \A t \in Threads : emptied[t].status = tcb[t].status
        <3>1. Tail(s) \in Seq(Threads)
            BY <2>1, <2>2, HeadTailProperties
        <3>2. QED
            BY <1>1, <3>1 DEF TcbType
    <2> HIDE DEF s, w, emptied
    <2>6. tcb[w].status = "BLOCKED"
        <3>1. pc[w] # "join_block"
            BY <1>1, <2>4 DEF SectionInv, Sections, Preemptible, LockLabels, Labels
        <3>2. QED
            BY <1>1, <2>4, <3>1 DEF JoinInv, RunInv, WaitInv
    <2>7. tcb'[w].status = "READY" /\ \A t \in Threads \ {w} : tcb'[t].status = tcb[t].status
        BY <2>1, <2>4, <2>5 DEF TcbType
    <2>8. QED
        BY <2>6, <2>7 DEF StatusKept
<1>4. QED
    BY <1>2, <1>3

LEMMA JoinStatus ==
    ASSUME HeadInv, JoinInv, JoinWait \/ JoinBlock
    PROVE  StatusKept
<1>1. /\ Live /\ handler = "idle" /\ running \in Threads /\ Current = running
      /\ pc[running] \in {"join_wait", "join_block"} /\ tcb \in [Threads -> TcbType]
    BY InLibrary, CurrentIsRunning DEF JoinWait, JoinBlock, Running, Live, HeadInv, TypeOK
<1>2. CASE JoinWait
    <2>1. PICK u, s : tcb' = [tcb EXCEPT ![u].waited_on = s]
        BY <1>1, <1>2 DEF JoinWait
    <2>2. \A t \in Threads : tcb'[t].status = tcb[t].status
        BY <1>1, <2>1 DEF TcbType
    <2>3. QED
        BY <2>2 DEF StatusKept
<1>3. CASE JoinBlock
    <2>1. tcb' = [tcb EXCEPT ![running].status = "BLOCKED"] /\ pc[running] = "join_block"
        BY <1>1, <1>3 DEF JoinBlock, Running
    <2>2. tcb[running].status = "READY"
        BY <1>1, <2>1 DEF JoinInv, RunInv, StopInv
    <2>3. QED
        BY <1>1, <2>1, <2>2 DEF StatusKept, TcbType
<1>4. QED
    BY <1>2, <1>3

\* The id given out is one nobody has had.
LEMMA CreatedTcb ==
    ASSUME HeadInv, UnbornInv, JoinInv, CreateTcb
    PROVE  LET n == tid + 1
           IN  /\ n \in Threads /\ n # running /\ tid' = n /\ Live
               /\ tcb[n].status = "UNBORN" /\ tcb'[n].status = "READY"
               /\ \A t \in Threads \ {n} : tcb'[t] = tcb[t]
<1>1. /\ tid # 0 /\ Live /\ pc[running] = "user" /\ tid' = tid + 1
      /\ tcb' = [tcb EXCEPT ![tid + 1] = FreshTcb("READY")]
    BY DEF CreateTcb, Calls, Running, Live
<1>2. tid + 1 \in Threads /\ tid + 1 # Main /\ tid + 1 > tid
    BY <1>1, NextId DEF HeadInv, TypeOK
<1>3. pc[tid + 1] = "unborn" /\ tcb[tid + 1].status = "UNBORN"
    BY <1>1, <1>2 DEF UnbornInv, JoinInv, BornInv, Born, HeadInv, TypeOK
<1>4. QED
    BY <1>1, <1>2, <1>3 DEF HeadInv, TypeOK, FreshTcb

LEMMA StatusStep ==
    ASSUME RetryInQuantum, HeadInv, UnbornInv, SectionInv, JoinInv, Live, [Next]_vars
    PROVE  StatusKept
<1>1. CASE UNCHANGED tcb
    BY <1>1, SameStatus DEF TcbsKept, TcbKept
<1>2. CASE ScheduleStep
    BY <1>2, HandlerKeepsTcbs, SameStatus DEF ScheduleStep, HeadInv
<1>3. CASE CreateTcb
    BY <1>3, CreatedTcb DEF StatusKept
<1>4. CASE ExitWake \/ ExitDone \/ JoinWait \/ JoinBlock
    BY <1>4, ExitStatus, JoinStatus
<1>5. CASE LockBoost \/ LockBoostMove
    BY <1>5, FieldKept, SameStatus DEF LockBoost, LockBoostMove, LockBoostPriority, HeadInv
<1>6. CASE PlainCall
    <2>1. handler = "idle"
        BY <1>6 DEF PlainCall, Exit, JoinDone, CreatePut, Yield, LockYield, Lock, LockTry,
           LockHoist, LockOwner, LockAdjust, LockExit, Unlock, UnlockRestore, Calls, Running
    <2>2. QED
        BY <1>6, <2>1, CurrentIsRunning, PlainTcbs, SameStatus DEF HeadInv
<1>7. CASE Tick \/ Raise \/ CreateInsert \/ Compute \/ Halted \/ UNCHANGED vars
    BY <1>1, <1>7 DEF Tick, Raise, CreateInsert, Compute, Halted, vars, schedVars
<1>8. ASSUME NEW t, Join(t) PROVE StatusKept
    BY <1>1, <1>8 DEF Join
<1>9. ASSUME NEW m, MutexInit(m) \/ MutexDestroy(m) PROVE StatusKept
    BY <1>1, <1>9 DEF MutexInit, MutexDestroy, schedVars
<1>10. ~FirstCreate
    BY DEF FirstCreate, Live
<1>11. QED
    BY <1>2, <1>3, <1>4, <1>5, <1>6, <1>7, <1>8, <1>9, <1>10, QuietRetry
    DEF Next, LibraryStep, UserCall, PlainCall

-----------------------------------------------------------------------------
(* Steps *)

\* A step of a thread's call that creates no thread, or of the timer.
CallStep ==
    /\ UNCHANGED << running, prev_done, tid, stacks >>
    /\ halt' # "exit"
    /\ handler' = handler \/ (handler = "idle" /\ handler' = "schedule")
    /\ \A t \in Threads : pc'[t] = "create_insert" => pc[t] = "create_insert" /\ arg'[t] = arg[t]
    /\ \A t \in Threads : \/ pc'[t] = pc[t] /\ arg'[t] = arg[t]
                          \/ t = running /\ handler = "idle"

LEMMA GotoCallStep ==
    ASSUME HeadInv, handler = "idle", UNCHANGED << running, prev_done, tid, stacks >>,
           halt' # "exit", handler' \in {"idle", "schedule"},
           NEW label, label # "create_insert", Goto(label) \/ UNCHANGED pc,
           \A t \in Threads \ {running} : arg'[t] = arg[t],
           pc[running] = "create_insert" => UNCHANGED arg
    PROVE  CallStep
BY DEF CallStep, Goto, HeadInv, TypeOK

LEMMA LiveStep ==
    ASSUME RetryInQuantum, HeadInv, Live, [Next]_vars, ~ScheduleStep, ~CreateTcb
    PROVE  CallStep
<1>1. ASSUME NEW m, MutexInit(m) \/ MutexDestroy(m) PROVE CallStep
    BY <1>1 DEF MutexInit, MutexDestroy, schedVars, CallStep, Live
<1>2. CASE Tick \/ Compute \/ Halted \/ UNCHANGED vars
    BY <1>2 DEF Tick, Compute, Halted, vars, schedVars, pthreadVars, CallStep, Live
<1>3. CASE Raise
    <2>1. PICK label \in DOMAIN AfterRaise : Goto(AfterRaise[label])
        BY <1>3 DEF Raise
    <2>2. AfterRaise[label] # "create_insert"
        BY DEF AfterRaise
    <2>3. handler = "idle" /\ handler' = "schedule" /\ halt' = "none" /\ UNCHANGED arg
          /\ UNCHANGED << running, prev_done, tid, stacks >>
        BY <1>3 DEF Raise, Running
    <2>4. QED
        BY <2>1, <2>2, <2>3, GotoCallStep
<1>4. CASE CreateInsert \/ ExitWake \/ ExitDone \/ JoinWait \/ JoinBlock
    <2>1. /\ handler = "idle" /\ UNCHANGED << running, prev_done, tid, stacks, handler, arg >>
          /\ halt' # "exit"
        BY <1>4 DEF CreateInsert, ExitWake, ExitDone, JoinWait, JoinBlock, Running, LibraryFrame,
           pthreadVars
    <2>2. \E label : label # "create_insert" /\ (Goto(label) \/ UNCHANGED pc)
        BY <1>4 DEF CreateInsert, ExitWake, ExitDone, JoinWait, JoinBlock, pthreadVars
    <2>3. QED
        BY <2>1, <2>2, GotoCallStep
<1>5. ASSUME NEW target \in Threads, Join(target) PROVE CallStep
    <2>1. /\ handler = "idle" /\ UNCHANGED << running, prev_done, tid, stacks, handler >>
          /\ halt' # "exit" /\ pc[running] = "user"
        BY <1>5 DEF Join, Calls, Running, LibraryFrame
    <2>2. /\ \E label : label # "create_insert" /\ (Goto(label) \/ UNCHANGED pc)
          /\ \A t \in Threads \ {running} : arg'[t] = arg[t]
        BY <1>5 DEF Join, HeadInv, TypeOK
    <2>3. QED
        BY <2>1, <2>2, GotoCallStep
<1>6. CASE LockBoost \/ LockBoostMove
    <2>1. /\ handler = "idle" /\ UNCHANGED << running, prev_done, tid, stacks, handler, arg >>
          /\ halt' # "exit" /\ Goto("lock_yield")
        BY <1>6 DEF LockBoost, LockBoostMove, LockBoostPriority, Running, LibraryFrame
    <2>2. QED
        BY <2>1, GotoCallStep
<1>7. CASE PlainCall
    <2>1. /\ handler = "idle" /\ UNCHANGED << running, prev_done, tid, stacks, handler >>
          /\ halt' # "exit" /\ pc[running] # "create_insert"
        BY <1>7 DEF PlainCall, Exit, JoinDone, CreatePut, Yield, LockYield, Lock, LockTry,
           LockHoist, LockOwner, LockAdjust, LockExit, Unlock, UnlockRestore, Calls, Running,
           LibraryFrame, Return
    <2>2. \E label : label # "create_insert" /\ (Goto(label) \/ UNCHANGED pc)
        BY <1>7 DEF PlainCall, Exit, JoinDone, CreatePut, Yield, LockYield, Lock, LockTry,
           LockHoist, LockOwner, LockAdjust, LockExit, Unlock, UnlockRestore, Return, AfterHoist
    <2>3. \A t \in Threads \ {running} : arg'[t] = arg[t]
        BY <1>7 DEF PlainCall, Exit, JoinDone, CreatePut, Yield, LockYield, Lock, LockTry,
           LockHoist, LockOwner, LockAdjust, LockExit, Unlock, UnlockRestore, Return, HeadInv, TypeOK
    <2>4. QED
        BY <2>1, <2>2, <2>3, GotoCallStep
<1>8. ~FirstCreate
    BY DEF FirstCreate, Live
<1>9. QED
    BY <1>1, <1>2, <1>3, <1>4, <1>5, <1>6, <1>7, <1>8, QuietRetry
    DEF Next, LibraryStep, UserCall, PlainCall

\* Before the first create, and when the process is over, nothing else moves.
LEMMA DeadStep ==
    ASSUME RetryInQuantum, HeadInv, ~Live, [Next]_vars
    PROVE  FirstCreate \/ UNCHANGED << schedVars, tid, pc, arg >>
<1>1. ASSUME NEW label, label # "user" PROVE ~Running(label)
    BY <1>1, InLibrary
<1>2. \A call : ~Calls(call)
    BY DEF Calls, Running, Live
<1>3. ~Tick /\ ~ScheduleStep
    BY DEF Tick, ScheduleStep, Schedule, KeepRunning, Requeue, Leave, Entry, FreeGarbage,
       Maintenance, MaintainNextQueue, MaintainKeep, MaintainMove, MaintainEnd, Scanning,
       Dispatch, Teardown, HeadInv, BeforeFirstCreate, Live
<1>4. ~LibraryStep
    <2>1. ~Raise
        BY <1>1 DEF Raise, AfterRaise
    <2>2. QED
        BY <1>1, <2>1, QuietRetry DEF LibraryStep, CreateInsert, CreatePut, ExitWake, ExitDone, JoinWait,
           JoinBlock, JoinDone, LockBoost, LockBoostMove, LockBoostPriority, LockYield, LockTry,
           LockHoist, LockOwner, LockAdjust, LockExit, UnlockRestore
<1>5. CASE UserCall
    BY <1>2, <1>5 DEF UserCall, Compute, CreateTcb, Yield, Exit, Join, Lock, Unlock, MutexInit,
       MutexDestroy, vars, schedVars, pthreadVars
<1>6. QED
    BY <1>3, <1>4, <1>5 DEF Next, Halted, vars, schedVars, pthreadVars

-----------------------------------------------------------------------------
(* Stacks *)

\* The thread whose stack waits to be freed is done and off the CPU.
StackInv ==
    /\ tid = 0 => prev_done = NoThread
    /\ StacksReclaimed
    /\ Live /\ prev_done # NoThread => tcb[prev_done].status = "DONE" /\ ~OnCpu(prev_done)

\* A step that frees no stack and switches no thread.
LEMMA StackFrame ==
    ASSUME HeadInv, StackInv, Live, StatusKept, UNCHANGED << prev_done, tid, stacks >>,
           \A t : OnCpu(t)' <=> OnCpu(t)
    PROVE  StackInv'
<1>1. tid # 0 /\ prev_done \in Threads \cup {NoThread} /\ 1 .. tid \subseteq Threads
    BY SchedulerAssumption DEF Live, HeadInv, TypeOK, Threads
<1>2. StacksReclaimed'
    BY <1>1 DEF StackInv, StacksReclaimed, StatusKept
<1>3. QED
    BY <1>1, <1>2 DEF StackInv, StatusKept

\* The handler frees the stack of prev_done, and puts down a thread that ended.
LEMMA EntryStacks ==
    ASSUME HeadInv, StackInv, TcbsKept, UNCHANGED tid, KeepRunning \/ Requeue \/ Leave
    PROVE  StackInv'
<1>1. /\ Live /\ handler = "schedule" /\ running' = running /\ stacks' = stacks \ {prev_done}
      /\ Current = running /\ running \in Threads
    BY CurrentIsRunning DEF KeepRunning, Requeue, Leave, Entry, HeadInv, BeforeFirstCreate, Live
<1>2. tid # 0 /\ 1 .. tid \subseteq Threads
    BY <1>1, SchedulerAssumption DEF Live, HeadInv, TypeOK, Threads
<1>3. \A t \in Threads : tcb'[t].status = tcb[t].status
    BY DEF TcbsKept, TcbKept
<1>4. \A t : OnCpu(t)' => OnCpu(t)
    BY <1>1 DEF OnCpu
<1>5. \A t \in 1 .. tid : t # Main /\ t \notin stacks' => tcb[t].status = "DONE" /\ ~OnCpu(t)
    <2> SUFFICES ASSUME NEW t \in 1 .. tid, t # Main, t \notin stacks'
                 PROVE  tcb[t].status = "DONE" /\ ~OnCpu(t)
        OBVIOUS
    <2>1. CASE t \notin stacks
        BY <1>1, <2>1 DEF StackInv, StacksReclaimed
    <2>2. CASE t = prev_done
        BY <1>1, <1>2, <2>2 DEF StackInv, NoThread
    <2>3. QED
        BY <1>1, <2>1, <2>2
<1>6. \A t \in 1 .. tid : t # Main /\ t \in stacks' /\ tcb[t].status = "DONE" => OnCpu(t)
    BY <1>1 DEF StackInv, StacksReclaimed
<1>7. CASE KeepRunning \/ Requeue
    <2>1. tcb[running].status # "DONE" /\ prev_done' = NoThread
        BY <1>1, <1>7 DEF KeepRunning, Requeue
    <2>2. \A t \in 1 .. tid : t # Main /\ t \in stacks' => tcb[t].status # "DONE"
        BY <1>6, <2>1 DEF OnCpu
    <2>3. QED
        BY <1>2, <1>3, <1>4, <1>5, <2>1, <2>2 DEF StackInv, StacksReclaimed
<1>8. CASE Leave
    <2>1. prev_done' = IF /\ tcb[running].status = "DONE"
                          /\ Release = "asst2" => running # Main
                       THEN running ELSE NoThread
        BY <1>1, <1>8 DEF Leave
    <2>2. \A t : ~OnCpu(t)'
        BY <1>8 DEF Leave, NextPhase, OnCpu
    <2>3. prev_done' # NoThread => prev_done' = running /\ tcb[running].status = "DONE"
        BY <2>1
    <2>4. \A t \in 1 .. tid : t # Main /\ t \in stacks' /\ tcb[t].status = "DONE" => t = prev_done'
        BY <1>6, <2>1 DEF OnCpu
    <2>5. StacksReclaimed'
        BY <1>2, <1>3, <1>5, <2>2, <2>4 DEF StacksReclaimed
    <2>6. QED
        BY <1>1, <1>2, <1>3, <2>2, <2>3, <2>5 DEF StackInv
<1>9. QED
    BY <1>7, <1>8

LEMMA DispatchStacks ==
    ASSUME HeadInv, JoinInv, StackInv, UNCHANGED tid, Dispatch
    PROVE  StackInv'
<1>1. Live /\ handler = "dispatch" /\ UNCHANGED << tcb, prev_done, stacks >>
    BY DEF Dispatch, HeadInv, BeforeFirstCreate, Live
<1>2. PICK prio \in Prios : ready_q[prio] # << >> /\ running' = ready_q[prio][1]
    BY DEF Dispatch, OccupiedQueues
<1>3. ready_q[prio] \in Seq(Threads) /\ 1 \in DOMAIN ready_q[prio]
    BY <1>2, EmptySeq, LenProperties DEF HeadInv, TypeOK
<1>4. running' \in Threads /\ IsIn(ready_q, running')
    BY <1>2, <1>3, ElementOfSeq, LenProperties DEF IsIn
<1>5. tcb[running'].status = "READY"
    BY <1>1, <1>4 DEF JoinInv, RunInv, QueueInv, CanRun, OnCpu
<1>6. \A t : ~OnCpu(t) /\ (tcb[t].status = "DONE" => ~OnCpu(t)')
    BY <1>1, <1>5 DEF OnCpu
<1>7. QED
    BY <1>1, <1>6 DEF StackInv, StacksReclaimed, Live

LEMMA StackInvStep ==
    ASSUME RetryInQuantum, HeadInv, UnbornInv, SectionInv, JoinInv, StackInv, [Next]_vars
    PROVE  StackInv'
<1>1. CASE ~Live
    <2>1. CASE FirstCreate
        <3>1. /\ tid' = 2 /\ stacks' = {1} /\ prev_done' = NoThread
              /\ tcb'[1].status = "READY"
            BY <2>1, Constants DEF FirstCreate, StackInv, FreshTcb
        <3>2. QED
            BY <3>1 DEF StackInv, StacksReclaimed, Main
    <2>2. CASE UNCHANGED << schedVars, tid, pc, arg >>
        BY <1>1, <2>2 DEF schedVars, StackInv, StacksReclaimed, Live
    <2>3. QED
        BY <1>1, <2>1, <2>2, DeadStep
<1>2. CASE Live /\ ScheduleStep
    <2>1. TcbsKept /\ UNCHANGED tid /\ StatusKept
        BY <1>2, HandlerKeepsTcbs, SameStatus DEF ScheduleStep, HeadInv, pthreadVars
    <2>2. CASE FreeGarbage \/ Teardown
        BY <1>2, <2>1, <2>2 DEF FreeGarbage, Teardown, StackInv, StacksReclaimed, Live
    <2>3. CASE Maintenance
        <3>1. /\ handler = "maintain" /\ handler' \in {"maintain", "dispatch"}
              /\ UNCHANGED << prev_done, stacks >>
            BY <2>3 DEF Maintenance, MaintainNextQueue, MaintainKeep, MaintainMove, MaintainEnd,
               Scanning
        <3>2. QED
            BY <1>2, <2>1, <3>1, StackFrame DEF OnCpu
    <2>4. QED
        BY <1>2, <2>1, <2>2, <2>3, EntryStacks, DispatchStacks DEF ScheduleStep, Schedule
<1>3. CASE Live /\ CreateTcb
    <2> DEFINE n == tid + 1
    <2>1. /\ n \in Threads /\ n # running /\ tid' = n /\ tid # 0 /\ tid \in Nat
          /\ tcb[n].status = "UNBORN" /\ tcb'[n].status = "READY"
          /\ \A t \in Threads \ {n} : tcb'[t] = tcb[t]
        BY <1>3, CreatedTcb DEF Live, HeadInv, TypeOK
    <2>2. stacks' = stacks \cup {n} /\ UNCHANGED << prev_done, running, handler >>
        BY <1>3 DEF CreateTcb, LibraryFrame
    <2> HIDE DEF n
    <2>3. prev_done \in Threads \cup {NoThread} /\ prev_done # n
        BY <1>3, <2>1, Constants DEF StackInv, HeadInv, TypeOK
    <2>4. \A t \in 1 .. tid' : t = n \/ (t # n /\ t \in Threads /\ t \in 1 .. tid)
        BY <2>1, SchedulerAssumption DEF HeadInv, TypeOK, Threads, n
    <2>5. StacksReclaimed'
        BY <1>3, <2>1, <2>2, <2>4 DEF StackInv, StacksReclaimed, OnCpu
    <2>6. QED
        BY <1>3, <2>1, <2>2, <2>3, <2>5, Constants DEF StackInv, OnCpu, NoThread
<1>4. CASE Live /\ ~ScheduleStep /\ ~CreateTcb
    <2>1. CallStep /\ StatusKept
        BY <1>4, LiveStep, StatusStep
    <2>2. \A t : OnCpu(t)' <=> OnCpu(t)
        BY <2>1 DEF CallStep, OnCpu
    <2>3. QED
        BY <1>4, <2>1, <2>2, StackFrame DEF CallStep
<1>5. QED
    BY <1>1, <1>2, <1>3, <1>4

-----------------------------------------------------------------------------
(* The end of the process *)

\* The threads created are born; a thread that creates one is ready, and the one
\* it is about to insert has not moved.
CreatedInv ==
    Live =>
        /\ \A t \in 1 .. tid : tcb[t].status # "UNBORN"
        /\ \A t \in Threads : pc[t] = "create_insert" => tcb[t].status = "READY"
        /\ \A t \in Threads : Pending(t) => pc[t] = "user"

LEMMA CreatedInvStep ==
    ASSUME RetryInQuantum, HeadInv, UnbornInv, SectionInv, JoinInv, CreatedInv, [Next]_vars
    PROVE  CreatedInv'
<1>0. tid \in Nat /\ 1 .. tid \subseteq Threads /\ running \in Threads /\ pc \in [Threads -> Labels]
    BY SchedulerAssumption DEF HeadInv, TypeOK, Threads
<1>1. CASE ~Live
    <2>1. CASE FirstCreate
        <3>1. /\ tid = 0 /\ tid' = 2 /\ pc[Main] = "user" /\ pc' = [pc EXCEPT ![1] = "user"]
              /\ tcb'[1].status = "READY" /\ tcb'[Main].status = "READY"
            BY <2>1, Constants DEF FirstCreate, FreshTcb, HeadInv, BeforeFirstCreate
        <3>2. \A t \in Threads : pc'[t] # "create_insert"
            BY <1>0, <3>1, Constants DEF UnbornInv, Threads
        <3>3. \A t \in 1 .. tid' : tcb'[t].status = "READY"
            BY <3>1 DEF Main
        <3>4. QED
            BY <3>2, <3>3 DEF CreatedInv, Pending
    <2>2. QED
        BY <1>1, <2>1, DeadStep DEF schedVars, CreatedInv, Live
<1>2. CASE Live /\ (ScheduleStep \/ CallStep)
    <2>1. UNCHANGED tid /\ StatusKept
        BY <1>2, StatusStep DEF ScheduleStep, CallStep, pthreadVars
    <2>2. /\ \A t \in Threads :
                pc'[t] = "create_insert" => pc[t] = "create_insert" /\ arg'[t] = arg[t]
          /\ \A t \in Threads : pc'[t] = pc[t] \/ (t = running /\ handler = "idle")
        BY <1>2 DEF ScheduleStep, CallStep, pthreadVars
    <2>3. \A t \in Threads : Pending(t)' => Pending(t)
        BY <2>2 DEF Pending
    <2>4. handler = "idle" => ~Pending(running)
        BY <1>2, RunningQueued
    <2>5. \A t \in Threads : Pending(t)' => pc'[t] = "user"
        BY <1>2, <2>2, <2>3, <2>4 DEF CreatedInv
    <2>6. QED
        BY <1>0, <1>2, <2>1, <2>2, <2>5 DEF CreatedInv, StatusKept
<1>3. CASE Live /\ CreateTcb
    <2> DEFINE n == tid + 1
    <2>1. /\ n \in Threads /\ n # running /\ tid' = n
          /\ tcb[n].status = "UNBORN" /\ tcb'[n].status = "READY"
          /\ \A t \in Threads \ {n} : tcb'[t] = tcb[t]
        BY <1>3, CreatedTcb
    <2>2. /\ pc' = [pc EXCEPT ![running] = "create_insert", ![n] = "user"]
          /\ arg' = [arg EXCEPT ![running] = n]
          /\ pc[running] = "user" /\ handler = "idle"
        BY <1>3 DEF CreateTcb, Calls, Running
    <2>3. \A t \in 1 .. tid' : t = n \/ (t # n /\ t \in 1 .. tid)
        BY <1>0, <2>1
    <2> HIDE DEF n
    <2>4. /\ pc'[running] = "create_insert" /\ pc'[n] = "user" /\ arg'[running] = n
          /\ \A t \in Threads \ {running, n} : pc'[t] = pc[t] /\ arg'[t] = arg[t]
        BY <1>0, <2>1, <2>2 DEF HeadInv, TypeOK
    <2>5. tcb[running].status = "READY" /\ ~Pending(running)
        BY <1>3, <2>2, RunningQueued DEF JoinInv, RunInv, StopInv
    <2>6. \A t \in Threads : Pending(t)' => t = n \/ (Pending(t) /\ t # running)
        BY <2>4, <2>5 DEF Pending
    <2>7. QED
        BY <1>0, <1>3, <2>1, <2>3, <2>4, <2>5, <2>6 DEF CreatedInv
<1>4. QED
    BY <1>1, <1>2, <1>3, LiveStep

\* With every queue empty, no thread is ready, or about to be inserted.
LEMMA TeardownStuck ==
    ASSUME HeadInv, UnbornInv, JoinInv, CreatedInv, Teardown
    PROVE  \A t \in 1 .. tid :
              \/ tcb[t].status = "DONE"
              \/ tcb[t].status = "BLOCKED" /\ \A w \in Waiting(t) : tcb[w[1]].status = "BLOCKED"
<1>1. /\ Live /\ handler = "dispatch" /\ \A prio \in Prios : ready_q[prio] = << >>
      /\ tid \in Nat /\ 1 .. tid \subseteq Threads /\ tcb \in [Threads -> TcbType]
    <2>1. handler = "dispatch" /\ halt = "none" /\ \A prio \in Prios : ready_q[prio] = << >>
        BY DEF Teardown, OccupiedQueues
    <2>2. tid # 0
        BY <2>1 DEF HeadInv, BeforeFirstCreate
    <2>3. tid \in 0 .. MaxThreads /\ tcb \in [Threads -> TcbType]
        BY DEF HeadInv, TypeOK
    <2>4. QED
        BY <2>1, <2>2, <2>3, SchedulerAssumption DEF Live, Threads
<1>2. \A t : ~IsIn(ready_q, t)
    BY <1>1 DEF IsIn
<1>3. \A t \in Threads : tcb[t].status = "READY" => Pending(t)
    BY <1>1, <1>2 DEF JoinInv, RunInv, QueueInv, CanRun
<1>4. \A t \in Threads : pc[t] # "create_insert"
    BY <1>1, <1>3 DEF CreatedInv
<1>5. \A t \in Threads : tcb[t].status # "READY"
    BY <1>3, <1>4 DEF Pending
<1>6. \A t \in 1 .. tid : tcb[t].status \in {"BLOCKED", "DONE"}
    BY <1>1, <1>5 DEF CreatedInv, TcbType
<1>7. ASSUME NEW t \in Threads, NEW w \in Waiting(t)
      PROVE  tcb[w[1]].status = "BLOCKED"
    <2>1. PICK u \in Threads : w[1] = u /\ tcb[u].waited_on # << >>
        BY <1>7 DEF Waiting
    <2>2. u \in 1 .. tid
        BY <1>1, <2>1 DEF JoinInv, BornInv, Born, UnbornInv, Live, Threads, Main
    <2>3. tcb[u].status # "DONE"
        BY <1>1, <2>1 DEF JoinInv, RunInv, WaitInv
    <2>4. QED
        BY <1>6, <2>1, <2>2, <2>3
<1>8. QED
    BY <1>1, <1>6, <1>7

LEMMA TeardownStep ==
    ASSUME RetryInQuantum, HeadInv, UnbornInv, SectionInv, JoinInv, CreatedInv,
           TeardownOnlyWhenStuck, [Next]_vars
    PROVE  TeardownOnlyWhenStuck'
<1>1. CASE Live /\ Teardown /\ ScheduleStep
    BY <1>1, TeardownStuck
    DEF TeardownOnlyWhenStuck, Teardown, ScheduleStep, pthreadVars, Waiting
<1>2. CASE Live /\ ScheduleStep /\ ~Teardown
    <2>1. halt' # "exit"
        BY <1>2 DEF ScheduleStep, Schedule, KeepRunning, Requeue, Leave, Entry, FreeGarbage,
           Maintenance, MaintainNextQueue, MaintainKeep, MaintainMove, MaintainEnd, Dispatch, Live
    <2>2. QED
        BY <2>1 DEF TeardownOnlyWhenStuck
<1>3. CASE Live /\ (CreateTcb \/ CallStep)
    BY <1>3 DEF CreateTcb, CallStep, Live, TeardownOnlyWhenStuck
<1>4. CASE ~Live
    <2>1. CASE FirstCreate
        BY <2>1 DEF FirstCreate, Running, TeardownOnlyWhenStuck
    <2>2. CASE UNCHANGED << schedVars, tid, pc, arg >>
        BY <2>2 DEF schedVars, TeardownOnlyWhenStuck, Waiting
    <2>3. QED
        BY <1>4, <2>1, <2>2, DeadStep
<1>5. QED
    BY <1>1, <1>2, <1>3, <1>4, LiveStep

-----------------------------------------------------------------------------
(* The properties *)

LEMMA EndInvInit == Init => StackInv /\ CreatedInv /\ TeardownOnlyWhenStuck
BY DEF Init, StackInv, StacksReclaimed, CreatedInv, TeardownOnlyWhenStuck, Live

LEMMA EndInvariant ==
    RetryInQuantum /\ Spec => [](StackInv /\ TeardownOnlyWhenStuck)
<1>1. Init => UnbornInv
    BY DEF Init, UnbornInv
<1>2. ASSUME RetryInQuantum PROVE Spec => [](StackInv /\ TeardownOnlyWhenStuck)
    <2>1. UnbornInv /\ HeadInv /\ [Next]_vars => UnbornInv'
        BY UnbornStep DEF HeadInv
    <2>2. /\ HeadInv /\ UnbornInv /\ SectionInv /\ JoinInv /\ [Next]_vars
          /\ StackInv /\ CreatedInv /\ TeardownOnlyWhenStuck
          => (StackInv /\ CreatedInv /\ TeardownOnlyWhenStuck)'
        BY <1>2, StackInvStep, CreatedInvStep, TeardownStep
    <2>3. Spec => [](HeadInv /\ SectionInv /\ JoinInv)
        BY <1>2, JoinInvariant
    <2>4. QED
        BY <1>1, <2>1, <2>2, <2>3, EndInvInit, PTL DEF Spec
<1>3. QED
    BY <1>2

\* A stack is freed when its thread is done and off the CPU, and at most one
\* finished thread's stack waits for it.
THEOREM StacksFreedAfterUse == RetryInQuantum /\ Spec => []StacksReclaimed
<1>1. StackInv => StacksReclaimed
    BY DEF StackInv
<1>2. QED
    BY <1>1, EndInvariant, PTL

\* The handler calls exit(0) only when every thread is done, or blocked on threads
\* that are blocked too.
THEOREM ExitOnlyWhenStuck == RetryInQuantum /\ Spec => []TeardownOnlyWhenStuck
BY EndInvariant, PTL

================================================================================
