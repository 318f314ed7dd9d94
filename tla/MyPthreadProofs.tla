---------------------------- MODULE MyPthreadProofs ----------------------------
(***************************************************************************)
(* What TLAPS proves of MyPthread for every number of threads, queues and  *)
(* mutexes, both releases, and every client: the type invariant, mutual    *)
(* exclusion, and that MyPthread implements Mutex: every step of the       *)
(* library is an Initialise, an Acquire, a Relinquish or a Destroy of the  *)
(* mutex it is about, or leaves the owners alone.  Where the timer calls   *)
(* take effect: a critical section is not left through the alarm, and a    *)
(* thread is switched to with the alarm armed.  And where a lock waiter    *)
(* tries again in one quantum: the head of ready_q[curr_prio] is the       *)
(* running thread, and acq_locks, which the handler reads to spare the     *)
(* holders of mutexes, counts the mutexes they hold.                       *)
(***************************************************************************)
EXTENDS MyPthread, TLAPS, SequenceTheorems, FiniteSetTheorems

\* The labels of the lock loop are told apart by name.
USE DEF BoostLabels, WaiterLabels, OwnerLabels, LockLabels

ReadyQType == [Prios -> Seq(Threads)]

-----------------------------------------------------------------------------
(* The list operations *)

\* A sequence with a length has elements.
LEMMA LongIsNotEmpty ==
    ASSUME NEW S, NEW s \in Seq(S), Len(s) >= 1
    PROVE  s # << >>
<1>1. Len(<< >>) = 0
    BY EmptySeq
<1>2. ASSUME s = << >> PROVE FALSE
    BY <1>1, <1>2
<1>3. QED
    BY <1>2

\* insert_ready_q leaves well-formed queues, whichever release clamps what.
LEMMA InsertType ==
    ASSUME NEW q \in ReadyQType, NEW t \in Threads, NEW prio \in Nat
    PROVE  insert_ready_q(q, t, prio) \in ReadyQType
<1>1. \A p \in Prios : Append(q[p], t) \in Seq(Threads)
    BY AppendProperties DEF ReadyQType
<1>2. QED
    BY <1>1, SchedulerAssumption DEF insert_ready_q, ReadyQType, Prios

\* A thread is inserted behind the head of a queue, never in front of it.
LEMMA InsertKeepsHead ==
    ASSUME NEW q \in ReadyQType, NEW t \in Threads, NEW prio \in Nat,
           NEW c \in Prios, q[c] # << >>
    PROVE  /\ insert_ready_q(q, t, prio)[c] # << >>
           /\ insert_ready_q(q, t, prio)[c][1] = q[c][1]
<1>1. q[c] \in Seq(Threads) /\ Len(q[c]) \in Nat \ {0}
    BY EmptySeq DEF ReadyQType
<1>2. Append(q[c], t) # << >> /\ Append(q[c], t)[1] = q[c][1]
    BY <1>1, AppendProperties
<1>3. insert_ready_q(q, t, prio)[c] = q[c] \/ insert_ready_q(q, t, prio)[c] = Append(q[c], t)
    BY DEF insert_ready_q, ReadyQType
<1>4. QED
    BY <1>2, <1>3

\* Every position of a queue is still one after an insertion.
LEMMA InsertKeepsPositions ==
    ASSUME NEW q \in ReadyQType, NEW t \in Threads, NEW prio \in Nat,
           NEW c \in Prios, NEW k \in 1 .. Len(q[c])
    PROVE  k \in 1 .. Len(insert_ready_q(q, t, prio)[c])
<1>1. q[c] \in Seq(Threads) /\ Len(q[c]) \in Nat
    BY LenProperties DEF ReadyQType
<1>2. Len(Append(q[c], t)) = Len(q[c]) + 1
    BY <1>1, AppendProperties
<1>3. insert_ready_q(q, t, prio)[c] = q[c] \/ insert_ready_q(q, t, prio)[c] = Append(q[c], t)
    BY DEF insert_ready_q, ReadyQType
<1>4. QED
    BY <1>1, <1>2, <1>3

\* Unlinking a node leaves well-formed queues.
LEMMA UnlinkType ==
    ASSUME NEW q \in ReadyQType, NEW prio \in Prios, NEW k \in 1 .. Len(q[prio])
    PROVE  Unlink(q, prio, k) \in ReadyQType
<1>1. q[prio] \in Seq(Threads) /\ Len(q[prio]) \in Nat
    BY LenProperties DEF ReadyQType
<1>2. \A i \in 1 .. Len(q[prio]) : q[prio][i] \in Threads
    BY <1>1, ElementOfSeq
<1>3. SubSeq(q[prio], 1, k - 1) \in Seq(Threads)
    BY <1>1, <1>2, SubSeqProperties
<1>4. SubSeq(q[prio], k + 1, Len(q[prio])) \in Seq(Threads)
    BY <1>1, <1>2, SubSeqProperties
<1>5. SubSeq(q[prio], 1, k - 1) \o SubSeq(q[prio], k + 1, Len(q[prio])) \in Seq(Threads)
    BY <1>3, <1>4, ConcatProperties
<1>6. QED
    BY <1>5 DEF Unlink, ReadyQType

\* Unlinking a node that is not the head of a queue leaves its head there.
LEMMA UnlinkKeepsHead ==
    ASSUME NEW q \in ReadyQType, NEW prio \in Prios, NEW k \in 1 .. Len(q[prio]),
           NEW c \in Prios, q[c] # << >>, c # prio \/ k # 1
    PROVE  Unlink(q, prio, k)[c] # << >> /\ Unlink(q, prio, k)[c][1] = q[c][1]
<1>1. CASE c # prio
    BY <1>1 DEF Unlink, ReadyQType
<1>2. CASE c = prio
    <2> DEFINE s == q[c]
               front == SubSeq(s, 1, k - 1)
               back == SubSeq(s, k + 1, Len(s))
    <2>1. s \in Seq(Threads) /\ Len(s) \in Nat /\ k \in 2 .. Len(s)
        BY <1>2, LenProperties DEF ReadyQType
    <2>2. \A i \in 1 .. Len(s) : s[i] \in Threads
        BY <2>1, ElementOfSeq
    <2>3. front \in Seq(Threads) /\ Len(front) = k - 1 /\ front[1] = s[1]
        BY <2>1, <2>2, SubSeqProperties
    <2>4. back \in Seq(Threads) /\ Len(back) \in Nat
        BY <2>1, <2>2, SubSeqProperties, LenProperties
    <2>5. front \o back \in Seq(Threads) /\ Len(front \o back) >= 1 /\ (front \o back)[1] = s[1]
        BY <2>1, <2>3, <2>4, ConcatProperties
    <2>6. front \o back # << >>
        BY <2>5, LongIsNotEmpty
    <2>7. Unlink(q, prio, k)[c] = front \o back
        BY <1>2 DEF Unlink, ReadyQType
    <2>8. QED
        BY <2>5, <2>6, <2>7
<1>3. QED
    BY <1>1, <1>2

-----------------------------------------------------------------------------
(* The inductive invariant *)

\* Until the first my_pthread_create, main computes undisturbed.
BeforeFirstCreate ==
    tid = 0 => /\ ~timer.armed
               /\ handler = "idle"
               /\ running = Main
               /\ pc[Main] = "user"
               /\ curr_prio = 0

\* A call that puts a thread in a queue or a list has one to put there; and a lock
\* waiter boosts another thread than itself, so it does not unlink its own node.
CallHasThread ==
    \A t \in Threads :
        /\ pc[t] \in {"create_insert", "create_put", "join_wait", "lock_look", "lock_weigh",
                     "lock_boost"} \cup BoostLabels => arg[t] \in Threads
        /\ pc[t] \in {"lock_boost"} \cup BoostLabels => arg[t] # t

HeadInv == TypeOK /\ CurrentIsHead /\ BeforeFirstCreate /\ CallHasThread

\* Main is a thread, and 0 is a queue.
LEMMA Constants ==
    /\ Main \in Threads /\ 1 \in Threads /\ NoThread \notin Threads
    /\ 0 \in Prios /\ NUM_QUEUES - 1 \in Prios /\ Prios \subseteq Nat
BY SchedulerAssumption DEF Main, NoThread, Threads, Prios

\* The invariant holds initially.
LEMMA HeadInvInit == Init => HeadInv
BY Constants, SchedulerAssumption DEF Init, HeadInv, TypeOK, CurrentIsHead, BeforeFirstCreate,
    CallHasThread, Live, FreshTcb, FreshMutex, TcbType, MutexType, Labels, Threads,
    TimerType, NoThread, Main, Prios, INT8_MAX

\* Assigning a field of a tcb a value of the field's type.
LEMMA TcbFields ==
    ASSUME NEW r \in TcbType
    PROVE  /\ \A s \in {"UNBORN", "READY", "BLOCKED", "DONE"} : [r EXCEPT !.status = s] \in TcbType
           /\ \A n \in Nat : [r EXCEPT !.priority = n] \in TcbType
           /\ \A c \in Int : [r EXCEPT !.cycles_left = c] \in TcbType
           /\ \A c \in Int : [r EXCEPT !.acq_locks = c] \in TcbType
           /\ \A b \in BOOLEAN : [r EXCEPT !.ran_since = b] \in TcbType
           /\ \A w \in Seq(Threads) : [r EXCEPT !.waited_on = w] \in TcbType
           /\ \A c \in Int, n \in Nat :
                 [r EXCEPT !.cycles_left = c, !.priority = n] \in TcbType
           /\ \A a, c \in Int, n \in Nat :
                 [r EXCEPT !.acq_locks = a, !.priority = n, !.cycles_left = c] \in TcbType
BY DEF TcbType

\* The same, in the function of all tcbs.
LEMMA TcbUpdates ==
    ASSUME NEW f \in [Threads -> TcbType], NEW t \in Threads
    PROVE  /\ \A s \in {"UNBORN", "READY", "BLOCKED", "DONE"} :
                [f EXCEPT ![t].status = s] \in [Threads -> TcbType]
           /\ \A n \in Nat : [f EXCEPT ![t].priority = n] \in [Threads -> TcbType]
           /\ \A c \in Int : [f EXCEPT ![t].cycles_left = c] \in [Threads -> TcbType]
           /\ \A c \in Int : [f EXCEPT ![t].acq_locks = c] \in [Threads -> TcbType]
           /\ \A b \in BOOLEAN : [f EXCEPT ![t].ran_since = b] \in [Threads -> TcbType]
           /\ \A w \in Seq(Threads) : [f EXCEPT ![t].waited_on = w] \in [Threads -> TcbType]
           /\ \A r \in TcbType : [f EXCEPT ![t] = r] \in [Threads -> TcbType]
BY TcbFields

\* Assigning a field of a mutex a value of the field's type.
LEMMA MutexFields ==
    ASSUME NEW r \in MutexType
    PROVE  /\ \A b \in BOOLEAN : [r EXCEPT !.locked = b] \in MutexType
           /\ \A t \in Threads : [r EXCEPT !.owner = t] \in MutexType
           /\ \A n \in Nat : [r EXCEPT !.hoisted_priority = n] \in MutexType
           /\ \A n \in Nat : [r EXCEPT !.holding_thread_priority = n] \in MutexType
           /\ \A n, o \in Nat : [r EXCEPT !.hoisted_priority = n,
                                          !.holding_thread_priority = o] \in MutexType
BY DEF MutexType

\* The same, in the function of all mutexes.
LEMMA MutexUpdates ==
    ASSUME NEW f \in [Mutexes -> MutexType], NEW m \in Mutexes
    PROVE  /\ \A b \in BOOLEAN : [f EXCEPT ![m].locked = b] \in [Mutexes -> MutexType]
           /\ \A t \in Threads : [f EXCEPT ![m].owner = t] \in [Mutexes -> MutexType]
           /\ \A n \in Nat : [f EXCEPT ![m].hoisted_priority = n] \in [Mutexes -> MutexType]
           /\ \A n \in Nat :
                 [f EXCEPT ![m].holding_thread_priority = n] \in [Mutexes -> MutexType]
           /\ \A n, o \in Nat :
                 [f EXCEPT ![m] = [@ EXCEPT !.hoisted_priority = n,
                                            !.holding_thread_priority = o]]
                    \in [Mutexes -> MutexType]
           /\ \A r \in MutexType : [f EXCEPT ![m] = r] \in [Mutexes -> MutexType]
BY MutexFields

\* Pausing and resuming the timer leaves a timer.
LEMMA TimerOps ==
    ASSUME NEW tm \in TimerType
    PROVE  /\ enter_scheduler(tm) \in TimerType
           /\ \A value \in BOOLEAN : exit_scheduler(tm, value) \in TimerType
           /\ Alloc(tm) \in TimerType
           /\ tm.armed \in BOOLEAN /\ tm.pause_dump \in BOOLEAN /\ tm.in_scheduler \in BOOLEAN
BY DEF enter_scheduler, exit_scheduler, Alloc, TimerType

\* The running thread is the current one wherever the library looks for it.
LEMMA CurrentIsRunning ==
    ASSUME HeadInv, Live, handler \in {"idle", "schedule"}
    PROVE  /\ Current = running /\ running \in Threads
           /\ tcb[running] \in TcbType
           /\ ready_q[curr_prio] \in Seq(Threads) /\ ready_q[curr_prio] # << >>
BY DEF HeadInv, TypeOK, CurrentIsHead

\* A thread inside the library has a scheduler.
LEMMA InLibrary ==
    ASSUME HeadInv, NEW label, label # "user", Running(label)
    PROVE  Live
BY DEF HeadInv, BeforeFirstCreate, Running, Live

\* A step that leaves the queues and the CPU alone leaves the head there too.
LEMMA LibraryKeepsHead ==
    ASSUME HeadInv, Live, handler = "idle", UNCHANGED << ready_q, curr_prio, running >>
    PROVE  CurrentIsHead'
BY CurrentIsRunning DEF CurrentIsHead, Current

\* An insertion does not touch the head of the current queue.
LEMMA InsertionKeepsHead ==
    ASSUME HeadInv, Live, handler = "idle", UNCHANGED << curr_prio, running >>,
           NEW t \in Threads, NEW prio \in Nat, ready_q' = insert_ready_q(ready_q, t, prio)
    PROVE  ready_q' \in ReadyQType /\ CurrentIsHead'
<1>1. ready_q \in ReadyQType /\ curr_prio \in Prios
    BY DEF HeadInv, TypeOK, ReadyQType
<1>2. ready_q[curr_prio] # << >> /\ Current = running
    BY CurrentIsRunning
<1>3. ready_q' \in ReadyQType
    BY <1>1, InsertType
<1>4. ready_q'[curr_prio] # << >> /\ ready_q'[curr_prio][1] = running
    BY <1>1, <1>2, InsertKeepsHead DEF Current
<1>5. QED
    BY <1>3, <1>4 DEF CurrentIsHead, Current

\* The steps of my_pthread_create after create_tcb.
LEMMA CreateKeepsHeadInv ==
    ASSUME HeadInv, CreateInsert \/ CreatePut
    PROVE  HeadInv'
<1> USE DEF HeadInv, TypeOK, BeforeFirstCreate, CallHasThread, Live, Running, Goto, lockVars
<1>1. Live /\ handler = "idle"
    BY InLibrary DEF CreateInsert, CreatePut
<1>2. running \in Threads
    OBVIOUS
<1>3. CASE CreateInsert
    <2>1. arg[running] \in Threads /\ 0 \in Nat
        BY <1>2, <1>3 DEF CreateInsert
    <2>2. ready_q' \in ReadyQType /\ CurrentIsHead'
        BY <1>1, <1>3, <2>1, InsertionKeepsHead DEF CreateInsert, LibraryFrame
    <2>3. timer' \in TimerType
        BY <1>3, TimerOps DEF CreateInsert
    <2>4. QED
        BY <1>2, <1>3, <2>2, <2>3 DEF CreateInsert, LibraryFrame, Labels, ReadyQType
<1>4. CASE CreatePut
    <2>1. timer' \in TimerType
        BY <1>4, TimerOps DEF CreatePut
    <2>2. CurrentIsHead'
        BY <1>1, <1>4, LibraryKeepsHead DEF CreatePut, LibraryFrame
    <2>3. QED
        BY <1>2, <1>4, <2>1, <2>2 DEF CreatePut, Return, LibraryFrame, Labels
<1>5. QED
    BY <1>3, <1>4

\* The steps of my_pthread_exit after its entry.
LEMMA ExitKeepsHeadInv ==
    ASSUME HeadInv, ExitWake \/ ExitDone
    PROVE  HeadInv'
<1> USE DEF HeadInv, TypeOK, BeforeFirstCreate, CallHasThread, Live, Running, Goto,
            lockVars, pthreadVars
<1>1. Live /\ handler = "idle"
    BY InLibrary DEF ExitWake, ExitDone
<1>2. Current = running /\ running \in Threads /\ tcb[running] \in TcbType
    BY <1>1, CurrentIsRunning
<1>3. timer' \in TimerType
    BY TimerOps DEF ExitWake, ExitDone
<1>4. CASE ExitWake
    <2> DEFINE list == tcb[running].waited_on
               waiter == list[1]
               unlisted == [tcb EXCEPT ![running].waited_on = Tail(@)]
    <2>1. list \in Seq(Threads) /\ list # << >>
        BY <1>2, <1>4 DEF ExitWake, TcbType
    <2>2. Len(list) \in Nat \ {0}
        BY <2>1, EmptySeq
    <2>3. waiter \in Threads /\ Tail(list) \in Seq(Threads)
        BY <2>1, <2>2, ElementOfSeq, HeadTailProperties
    <2>4. tcb[waiter].priority \in Nat
        BY <2>3 DEF TcbType
    <2>5. unlisted \in [Threads -> TcbType]
        BY <1>2, <2>3, TcbUpdates
    <2>6. tcb' = [unlisted EXCEPT ![waiter].status = "READY"]
        BY <1>2, <1>4 DEF ExitWake
    <2>7. tcb' \in [Threads -> TcbType]
        BY <2>3, <2>5, <2>6, TcbUpdates
    <2>8. ready_q' = insert_ready_q(ready_q, waiter, tcb[waiter].priority)
        BY <1>2, <1>4 DEF ExitWake
    <2>9. ready_q' \in ReadyQType /\ CurrentIsHead'
        BY <1>1, <1>4, <2>3, <2>4, <2>8, InsertionKeepsHead DEF ExitWake, LibraryFrame
    <2>10. halt' \in {"none", "abort"}
        BY <1>1, <1>4 DEF ExitWake
    <2>11. QED
        BY <1>3, <1>4, <2>7, <2>9, <2>10 DEF ExitWake, LibraryFrame, ReadyQType
<1>5. CASE ExitDone
    <2>1. tcb' \in [Threads -> TcbType]
        BY <1>2, <1>5, TcbUpdates DEF ExitDone
    <2>2. CurrentIsHead'
        BY <1>1, <1>5, LibraryKeepsHead DEF ExitDone, LibraryFrame
    <2>3. QED
        BY <1>2, <1>3, <1>5, <2>1, <2>2 DEF ExitDone, LibraryFrame, Labels
<1>6. QED
    BY <1>4, <1>5

\* The steps of my_pthread_join after its entry.
LEMMA JoinKeepsHeadInv ==
    ASSUME HeadInv, JoinWait \/ JoinBlock \/ JoinDone
    PROVE  HeadInv'
<1> USE DEF HeadInv, TypeOK, BeforeFirstCreate, CallHasThread, Live, Running, Goto, lockVars
<1>1. Live /\ handler = "idle"
    BY InLibrary DEF JoinWait, JoinBlock, JoinDone
<1>2. Current = running /\ running \in Threads /\ tcb[running] \in TcbType
    BY <1>1, CurrentIsRunning
<1>3. CurrentIsHead'
    BY <1>1, LibraryKeepsHead DEF JoinWait, JoinBlock, JoinDone, LibraryFrame
<1>4. CASE JoinWait
    <2> DEFINE target == arg[running]
               list == tcb[target].waited_on
    <2>1. timer' \in TimerType
        BY <1>4, TimerOps DEF JoinWait
    <2>2. tcb' = [tcb EXCEPT ![target].waited_on = << running >> \o list]
        BY <1>2, <1>4 DEF JoinWait
    <2>3. target \in Threads /\ list \in Seq(Threads) /\ << running >> \in Seq(Threads)
        BY <1>2, <1>4 DEF JoinWait, TcbType
    <2>4. << running >> \o list \in Seq(Threads)
        BY <2>3, ConcatProperties
    <2>5. tcb' \in [Threads -> TcbType]
        BY <2>2, <2>3, <2>4, TcbUpdates
    <2>6. QED
        BY <1>2, <1>3, <1>4, <2>1, <2>5 DEF JoinWait, LibraryFrame, Labels
<1>5. CASE JoinBlock
    <2>1. tcb' \in [Threads -> TcbType]
        BY <1>2, <1>5, TcbUpdates DEF JoinBlock
    <2>2. QED
        BY <1>2, <1>3, <1>5, <2>1 DEF JoinBlock, LibraryFrame, Labels
<1>6. CASE JoinDone
    BY <1>2, <1>3, <1>6 DEF JoinDone, Return, LibraryFrame, Labels
<1>7. QED
    BY <1>4, <1>5, <1>6

\* The steps of my_pthread_mutex_lock that try for the mutex and, once it is
\* taken, adjust priorities.
LEMMA LockKeepsHeadInv ==
    ASSUME HeadInv, NEW m \in Mutexes,
           LockTry(m) \/ LockHoist(m) \/ LockOwner(m) \/ LockAdjust(m) \/ LockExit(m)
    PROVE  HeadInv'
<1> USE DEF HeadInv, TypeOK, BeforeFirstCreate, CallHasThread, Live, Running, Goto, lockVars
<1>1. Live /\ handler = "idle"
    BY InLibrary DEF LockTry, LockHoist, LockOwner, LockAdjust, LockExit
<1>2. /\ Current = running /\ Current \in Threads /\ tcb[Current] \in TcbType
      /\ tcb[Current].priority \in Nat /\ tcb[Current].cycles_left \in Int
      /\ tcb[Current].acq_locks \in Int
    BY <1>1, CurrentIsRunning DEF TcbType
<1>3. CurrentIsHead'
    BY <1>1, LibraryKeepsHead
    DEF LockTry, LockHoist, LockOwner, LockAdjust, LockExit, LibraryFrame
<1>4. /\ mutex[m] \in MutexType /\ mutex[m].hoisted_priority \in Nat
      /\ mutex[m].owner \in Threads \cup {NoThread}
    BY DEF MutexType
<1>5. CASE LockTry(m)
    <2>1. mutex' \in [Mutexes -> MutexType]
        BY <1>5, MutexUpdates DEF LockTry
    <2>2. QED
        BY <1>2, <1>3, <1>5, <2>1 DEF LockTry, LibraryFrame, Labels
<1>6. CASE LockHoist(m)
    <2> DEFINE holder == mutex[m].owner
    <2>1. mutex' \in [Mutexes -> MutexType]
        <3>1. \/ mutex' = mutex
              \/ mutex' = [mutex EXCEPT ![m].hoisted_priority = tcb[Current].priority]
            BY <1>6 DEF LockHoist
        <3>2. [mutex EXCEPT ![m].hoisted_priority = tcb[Current].priority]
                 \in [Mutexes -> MutexType]
            BY <1>2, MutexUpdates
        <3>3. QED
            BY <3>1, <3>2
    <2>2. holder \in all_threads /\ AfterHoist(holder) = "lock_boost" => holder # running
        BY <1>2 DEF AfterHoist
    <2>3. AfterHoist(holder) \in {"lock_try", "lock_boost", "lock_yield"}
        BY DEF AfterHoist
    <2>4. CASE arg' = [arg EXCEPT ![running] = holder] /\ holder \in all_threads
               /\ pc' = [pc EXCEPT ![running] = AfterHoist(holder)] /\ halt' = halt
        BY <1>2, <1>3, <1>4, <1>6, <2>1, <2>2, <2>3, <2>4 DEF LockHoist, LibraryFrame, Labels
    <2>5. CASE UNCHANGED << arg, pc >> /\ halt' = "crash"
        BY <1>2, <1>3, <1>6, <2>1, <2>5 DEF LockHoist, LibraryFrame
    <2>6. CASE UNCHANGED << arg, halt >> /\ pc' = [pc EXCEPT ![running] = "lock_yield"]
        BY <1>2, <1>3, <1>6, <2>1, <2>6 DEF LockHoist, LibraryFrame, Labels
    <2>7. QED
        BY <1>6, <2>4, <2>5, <2>6 DEF LockHoist
<1>7. CASE LockOwner(m)
    <2>1. mutex' \in [Mutexes -> MutexType]
        BY <1>2, <1>7, MutexUpdates DEF LockOwner
    <2>2. QED
        BY <1>2, <1>3, <1>7, <2>1 DEF LockOwner, LibraryFrame, Labels
<1>8. CASE LockAdjust(m)
    <2> DEFINE own == tcb[Current].priority
               hoisted == Least(mutex[m].hoisted_priority, own)
               cycles == tcb[Current].cycles_left + hoisted - own
               lent == [tcb[Current] EXCEPT !.cycles_left = cycles, !.priority = hoisted]
    <2>1. hoisted \in Nat /\ own \in Nat /\ cycles \in Int
        BY <1>2, <1>4 DEF Least
    <2>2. curr_prio \in Nat /\ INT8_MAX \in Nat
        BY Constants DEF INT8_MAX
    <2>3. tcb' = tcb \/ tcb' = [tcb EXCEPT ![Current] = lent]
        BY <1>2, <1>8 DEF LockAdjust
    <2>4. \/ mutex' = [mutex EXCEPT ![m] = [@ EXCEPT !.hoisted_priority = INT8_MAX,
                                                     !.holding_thread_priority = curr_prio]]
          \/ mutex' = [mutex EXCEPT ![m] = [@ EXCEPT !.hoisted_priority = hoisted,
                                                     !.holding_thread_priority = own]]
          \/ mutex' = [mutex EXCEPT ![m].hoisted_priority = hoisted]
        BY <1>2, <1>8 DEF LockAdjust
    <2>5. lent \in TcbType
        <3> HIDE DEF hoisted, cycles
        <3>1. QED
            BY <1>2, <2>1, TcbFields
    <2> HIDE DEF own, hoisted, lent
    <2>6. tcb' \in [Threads -> TcbType]
        <3>1. [tcb EXCEPT ![Current] = lent] \in [Threads -> TcbType]
            BY <1>2, <2>5, TcbUpdates
        <3>2. QED
            BY <2>3, <3>1
    <2>7. mutex' \in [Mutexes -> MutexType]
        <3>1. [mutex EXCEPT ![m] = [@ EXCEPT !.hoisted_priority = INT8_MAX,
                                             !.holding_thread_priority = curr_prio]]
                 \in [Mutexes -> MutexType]
            BY <2>2, MutexUpdates
        <3>2. [mutex EXCEPT ![m] = [@ EXCEPT !.hoisted_priority = hoisted,
                                             !.holding_thread_priority = own]]
                 \in [Mutexes -> MutexType]
            BY <2>1, MutexUpdates
        <3>3. [mutex EXCEPT ![m].hoisted_priority = hoisted] \in [Mutexes -> MutexType]
            BY <2>1, MutexUpdates
        <3>4. QED
            BY <2>4, <3>1, <3>2, <3>3
    <2>8. QED
        BY <1>2, <1>3, <1>8, <2>6, <2>7 DEF LockAdjust, LibraryFrame, Labels
<1>9. CASE LockExit(m)
    <2>1. tcb' = [tcb EXCEPT ![Current].acq_locks = tcb[Current].acq_locks + 1]
          /\ tcb[Current].acq_locks + 1 \in Int
        BY <1>2, <1>9 DEF LockExit
    <2>2. tcb' \in [Threads -> TcbType]
        BY <1>2, <2>1, TcbUpdates
    <2>3. timer' \in TimerType
        BY <1>9, TimerOps DEF LockExit
    <2>4. QED
        BY <1>2, <1>3, <1>9, <2>2, <2>3 DEF LockExit, Return, LibraryFrame, Labels
<1>10. QED
    BY <1>5, <1>6, <1>7, <1>7, <1>8, <1>9

\* The yield of a lock waiter.
LEMMA LockYieldKeepsHeadInv ==
    ASSUME HeadInv, LockYield
    PROVE  HeadInv'
<1> USE DEF HeadInv, TypeOK, BeforeFirstCreate, CallHasThread, Live, Running, Goto, lockVars
<1>1. Live /\ handler = "idle"
    BY InLibrary DEF LockYield
<1>2. Current = running /\ Current \in Threads
    BY <1>1, CurrentIsRunning
<1>3. tcb' = [tcb EXCEPT ![Current].cycles_left = -1] /\ -1 \in Int
    BY DEF LockYield
<1>4. tcb' \in [Threads -> TcbType]
    BY <1>2, <1>3, TcbUpdates
<1>5. timer' \in TimerType
    BY TimerOps DEF LockYield
<1>6. CurrentIsHead'
    BY <1>1, LibraryKeepsHead DEF LockYield, LibraryFrame
<1>7. QED
    BY <1>2, <1>4, <1>5, <1>6 DEF LockYield, LibraryFrame, Labels

\* A boost moves the holder's node, never the waiter's: the head stays.
LEMMA BoostKeepsHeadInv ==
    ASSUME HeadInv, LockBoost \/ LockBoostMove
    PROVE  HeadInv'
<1> USE DEF HeadInv, TypeOK, BeforeFirstCreate, CallHasThread, Live, Running, Goto,
            lockVars, pthreadVars
<1>1. Live /\ handler = "idle" /\ pc[running] = "lock_boost"
    BY InLibrary DEF LockBoost, LockBoostMove, LockBoostPriority
<1>2. /\ Current = running /\ running \in Threads /\ tcb[running] \in TcbType
      /\ tcb[running].priority \in Nat /\ ready_q[curr_prio] # << >>
    BY <1>1, CurrentIsRunning DEF TcbType
<1>3. Boosted \in Threads /\ Boosted # running
    BY <1>1, <1>2 DEF Boosted
<1>4. ASSUME LockBoostPriority PROVE tcb' \in [Threads -> TcbType]
    <2>1. tcb' = [tcb EXCEPT ![Boosted].priority = tcb[running].priority]
        BY <1>2, <1>4 DEF LockBoostPriority
    <2>2. QED
        BY <1>2, <1>3, <2>1, TcbUpdates
<1>5. CASE LockBoost
    <2>1. CurrentIsHead'
        BY <1>1, <1>5, LibraryKeepsHead DEF LockBoost, LockBoostPriority, LibraryFrame
    <2>2. QED
        BY <1>2, <1>4, <1>5, <2>1 DEF LockBoost, LockBoostPriority, LibraryFrame, Labels
<1>6. CASE LockBoostMove
    <2> DEFINE prio == tcb[Boosted].priority
               to == tcb[running].priority
               longer == insert_ready_q(ready_q, Boosted, to)
    <2>1. ready_q \in ReadyQType /\ curr_prio \in Prios /\ prio \in Prios
        <3>1. prio \in Nat /\ prio < NUM_QUEUES
            BY <1>3, <1>6 DEF LockBoostMove, BoostedQueued, TcbType
        <3>2. QED
            BY <3>1, SchedulerAssumption DEF ReadyQType, Prios
    <2>2. PICK k \in DOMAIN ready_q[prio] :
              ready_q[prio][k] = Boosted /\ ready_q' = Unlink(longer, prio, k)
        BY <1>2, <1>6 DEF LockBoostMove
    <2>3. k \in 1 .. Len(ready_q[prio]) /\ Len(ready_q[prio]) \in Nat
        BY <2>1, LenProperties DEF ReadyQType
    <2>4. longer \in ReadyQType
        BY <1>2, <1>3, <2>1, InsertType
    <2>5. longer[curr_prio] # << >> /\ longer[curr_prio][1] = running
        BY <1>2, <1>3, <2>1, InsertKeepsHead DEF Current
    <2>6. k \in 1 .. Len(longer[prio])
        BY <1>2, <1>3, <2>1, <2>3, InsertKeepsPositions
    <2>7. curr_prio # prio \/ k # 1
        BY <1>2, <1>3, <2>2 DEF Current
    <2>8. ready_q' \in ReadyQType
        BY <2>1, <2>2, <2>4, <2>6, UnlinkType
    <2>9. ready_q'[curr_prio] # << >> /\ ready_q'[curr_prio][1] = running
        <3> HIDE DEF prio, longer
        <3>1. Unlink(longer, prio, k)[curr_prio] # << >>
              /\ Unlink(longer, prio, k)[curr_prio][1] = longer[curr_prio][1]
            BY <2>1, <2>4, <2>5, <2>6, <2>7, UnlinkKeepsHead
        <3>2. QED
            BY <2>2, <2>5, <3>1
    <2>10. CurrentIsHead'
        BY <1>6, <2>9 DEF LockBoostMove, LockBoostPriority, LibraryFrame, CurrentIsHead, Current
    <2>11. timer' \in TimerType /\ halt' \in {"none", "abort", "error"}
        BY <1>1, <1>6, TimerOps DEF LockBoostMove
    <2>12. QED
        BY <1>2, <1>4, <1>6, <2>8, <2>10, <2>11
        DEF LockBoostMove, LockBoostPriority, LibraryFrame, Labels, ReadyQType
<1>7. QED
    BY <1>5, <1>6

\* The running thread goes from one label of a set to another.
Stays(labels) == pc[running] \in labels /\ \E label \in labels : Goto(label)

\* The statements of the lock loop: a waiter stays one until the exchange gives it
\* the mutex, and then it stays an owner.  Nothing else moves.
LEMMA RetryFrame ==
    ASSUME RetryStep
    PROVE  /\ halt = "none" /\ handler = "idle" /\ Interruptible
           /\ LibraryFrame
           /\ UNCHANGED << stacks, handler, tid, all_threads, mtx, inited, holds >>
           /\ \/ /\ UNCHANGED << ready_q, tcb, timer, pc, arg, old_prio, mutex >>
                 /\ halt' = "undefined"
              \/ Stays(WaiterLabels)
              \/ Stays(OwnerLabels)
<1> USE DEF Stays, Statement, Running
<1>1. CASE \E m \in Mutexes : RetryTest(m)
    BY <1>1 DEF RetryTest
<1>2. CASE \E m \in Mutexes : RetryStore(m)
    BY <1>2 DEF RetryStore
<1>3. CASE \E m \in Mutexes : RetryThread(m)
    BY <1>3 DEF RetryThread
<1>4. CASE \E m \in Mutexes : RetryFind(m)
    BY <1>4 DEF RetryFind
<1>5. CASE RetrySave \/ RetrySearch \/ RetryInsert \/ RetryUnlink
    BY <1>5 DEF RetrySave, RetrySearch, RetryInsert, RetryUnlink
<1>6. CASE Torn \/ Revive
    BY <1>6 DEF Torn, Revive, LibraryFrame, pthreadVars
<1>7. QED
    BY <1>1, <1>2, <1>3, <1>4, <1>5, <1>6 DEF RetryStep

\* A statement preserves the invariant if what it assigns has its type, the head
\* stays, and the thread it leaves in a local variable is one the next statement
\* can use.
LEMMA StatementKeepsHeadInv ==
    ASSUME HeadInv, NEW from \in LockLabels, NEW to \in LockLabels, Statement(from, to),
           ready_q' \in ReadyQType, tcb' \in [Threads -> TcbType], timer' \in TimerType,
           halt' \in {"none", "abort", "error", "crash", "undefined"},
           arg' \in [Threads -> Threads \cup {NoThread}],
           old_prio' \in [Threads -> Nat], mutex' \in [Mutexes -> MutexType],
           CurrentIsHead',
           \A t \in Threads : t # running => arg'[t] = arg[t],
           to \in {"lock_look", "lock_weigh", "lock_boost"} \cup BoostLabels =>
                arg'[running] \in Threads,
           to \in {"lock_boost"} \cup BoostLabels => arg'[running] # running
    PROVE  HeadInv'
<1>1. /\ Goto(to) /\ halt = "none" /\ handler = "idle" /\ Interruptible
      /\ LibraryFrame /\ UNCHANGED << stacks, handler, tid, all_threads, mtx, inited, holds >>
    BY DEF Statement, Running
<1>2. running \in Threads /\ pc \in [Threads -> Labels] /\ to \in Labels
    BY DEF HeadInv, TypeOK, Labels
<1>3. pc' = [pc EXCEPT ![running] = to]
    BY <1>1 DEF Goto
<1>4. TypeOK'
    BY <1>1, <1>2, <1>3 DEF HeadInv, TypeOK, LibraryFrame, ReadyQType
<1>5. tid # 0 /\ tid' = tid
    BY <1>1 DEF HeadInv, BeforeFirstCreate, Interruptible
<1>6. BeforeFirstCreate'
    BY <1>5 DEF BeforeFirstCreate
<1>7. CallHasThread'
    <2>1. \A t \in Threads : t # running => pc'[t] = pc[t] /\ arg'[t] = arg[t]
        BY <1>2, <1>3
    <2>2. pc'[running] = to
        BY <1>2, <1>3
    <2>3. QED
        BY <2>1, <2>2 DEF HeadInv, CallHasThread
<1>8. QED
    BY <1>4, <1>6, <1>7 DEF HeadInv

\* What a statement of the loop finds.
LEMMA RetryFinds ==
    ASSUME HeadInv, RetryStep
    PROVE  /\ Live /\ handler = "idle" /\ halt = "none"
           /\ Current = running /\ running \in Threads /\ tcb[running] \in TcbType
           /\ Own \in Nat /\ ready_q[curr_prio] # << >>
           /\ UNCHANGED ready_q => CurrentIsHead'
           /\ pc[running] \in {"lock_look", "lock_weigh"} \cup BoostLabels => Boosted \in Threads
           /\ pc[running] \in BoostLabels => Boosted # running
           /\ ready_q \in ReadyQType /\ tcb \in [Threads -> TcbType] /\ timer \in TimerType
           /\ arg \in [Threads -> Threads \cup {NoThread}]
           /\ old_prio \in [Threads -> Nat] /\ mutex \in [Mutexes -> MutexType]
           /\ curr_prio \in Prios
<1>1. Live /\ handler = "idle" /\ halt = "none" /\ UNCHANGED << curr_prio, running >>
    BY RetryFrame DEF Interruptible, HeadInv, BeforeFirstCreate, Live, LibraryFrame
<1>2. /\ Current = running /\ running \in Threads /\ tcb[running] \in TcbType
      /\ ready_q[curr_prio] # << >>
    BY <1>1, CurrentIsRunning
<1>3. Own \in Nat
    BY <1>2 DEF Own, TcbType
<1>4. UNCHANGED ready_q => CurrentIsHead'
    BY <1>1, LibraryKeepsHead
<1>5. QED
    BY <1>1, <1>2, <1>3, <1>4 DEF HeadInv, CallHasThread, TypeOK, Boosted, ReadyQType

\* A statement that only tests something: the holder has been weighed against the
\* waiter, and is another thread, when the boost begins.
LEMMA TestKeepsHeadInv ==
    ASSUME HeadInv, NEW m \in Mutexes, RetryTest(m)
    PROVE  HeadInv'
<1>1. RetryStep
    BY DEF RetryStep
<1>2. /\ Own = tcb[running].priority
      /\ tcb[Boosted].priority > Own => Boosted # running
    BY <1>1, RetryFinds DEF Own
<1>3. PICK from \in LockLabels, to \in LockLabels :
          /\ Statement(from, to)
          /\ to \in {"lock_look", "lock_boost"} \cup BoostLabels =>
                from = "lock_weigh" /\ tcb[Boosted].priority > Own
          /\ to = "lock_weigh" => from = "lock_look"
    BY DEF RetryTest
<1>4. pc[running] = from /\ UNCHANGED << ready_q, tcb, timer, halt, arg, old_prio, mutex >>
    BY <1>3 DEF RetryTest, Statement, Running
<1>5. /\ to \in {"lock_look", "lock_weigh", "lock_boost"} \cup BoostLabels =>
            arg'[running] \in Threads
      /\ to \in {"lock_boost"} \cup BoostLabels => arg'[running] # running
    BY <1>1, <1>2, <1>3, <1>4, RetryFinds DEF Boosted
<1>6. QED
    BY <1>1, <1>3, <1>4, <1>5, RetryFinds, StatementKeepsHeadInv

\* A statement that stores into the mutex.
LEMMA StoreKeepsHeadInv ==
    ASSUME HeadInv, NEW m \in Mutexes, RetryStore(m)
    PROVE  HeadInv'
<1>1. RetryStep
    BY DEF RetryStep
<1>2. Own \in Nat /\ curr_prio \in Nat /\ INT8_MAX \in Nat
    BY <1>1, RetryFinds, Constants DEF INT8_MAX
<1>3. PICK from \in LockLabels, to \in LockLabels :
          Statement(from, to) /\ to \notin {"lock_look", "lock_weigh", "lock_boost"} \cup BoostLabels
    BY DEF RetryStore
<1>4. UNCHANGED << ready_q, tcb, timer, halt, arg, old_prio >>
    BY DEF RetryStore
<1>5. PICK n \in Nat : \/ mutex' = [mutex EXCEPT ![m].hoisted_priority = n]
                      \/ mutex' = [mutex EXCEPT ![m].holding_thread_priority = n]
    BY <1>2 DEF RetryStore
<1>6. mutex' \in [Mutexes -> MutexType]
    <2>1. mutex \in [Mutexes -> MutexType]
        BY <1>1, RetryFinds
    <2>2. /\ [mutex EXCEPT ![m].hoisted_priority = n] \in [Mutexes -> MutexType]
          /\ [mutex EXCEPT ![m].holding_thread_priority = n] \in [Mutexes -> MutexType]
        BY <2>1, MutexUpdates
    <2>3. QED
        BY <1>5, <2>2
<1>7. QED
    BY <1>1, <1>3, <1>4, <1>6, RetryFinds, StatementKeepsHeadInv

\* A statement that stores into a tcb.
LEMMA ThreadStoreKeepsHeadInv ==
    ASSUME HeadInv, NEW m \in Mutexes, RetryThread(m)
    PROVE  HeadInv'
<1>1. RetryStep
    BY DEF RetryStep
<1>2. mutex[m].hoisted_priority \in Nat /\ tcb[running].cycles_left \in Int
    BY <1>1, RetryFinds DEF MutexType, TcbType
<1>3. PICK from \in LockLabels, to \in LockLabels :
          /\ Statement(from, to)
          /\ to \in {"lock_look", "lock_weigh", "lock_boost"} \cup BoostLabels => from \in BoostLabels
    BY DEF RetryThread
<1>4. UNCHANGED << ready_q, timer, halt, arg, old_prio, mutex >> /\ pc[running] = from
    BY <1>3 DEF RetryThread, Statement, Running
<1>5. tcb' \in [Threads -> TcbType]
    <2>1. CASE tcb' = [tcb EXCEPT ![Boosted].priority = Own] /\ pc[running] \in BoostLabels
        BY <1>1, <2>1, RetryFinds, TcbUpdates
    <2>2. CASE tcb' = [tcb EXCEPT ![Current].cycles_left =
                           tcb[Current].cycles_left + mutex[m].hoisted_priority - Own]
        <3>1. tcb[running].cycles_left + mutex[m].hoisted_priority - Own \in Int
            BY <1>1, <1>2, RetryFinds
        <3>2. QED
            BY <1>1, <2>2, <3>1, RetryFinds, TcbUpdates
    <2>3. CASE tcb' = [tcb EXCEPT ![Current].priority = mutex[m].hoisted_priority]
        BY <1>1, <1>2, <2>3, RetryFinds, TcbUpdates
    <2>4. QED
        BY <2>1, <2>2, <2>3 DEF RetryThread, Statement, Running
<1>6. QED
    BY <1>1, <1>3, <1>4, <1>5, RetryFinds, StatementKeepsHeadInv DEF Boosted

\* The look-up of the owner, the copy of its priority, and the search for it.
LEMMA LookupKeepsHeadInv ==
    ASSUME HeadInv, RetrySave \/ RetrySearch \/ \E m \in Mutexes : RetryFind(m)
    PROVE  HeadInv'
<1>1. RetryStep
    BY DEF RetryStep
<1>2. CASE \E m \in Mutexes : RetryFind(m)
    <2>1. PICK m \in Mutexes : RetryFind(m)
        BY <1>2
    <2>2. mutex[m].owner \in Threads \cup {NoThread} /\ all_threads \subseteq Threads
        BY <1>1, RetryFinds DEF MutexType, HeadInv, TypeOK
    <2>3. PICK to \in {"lock_look", "lock_find"} :
              Statement("lock_find", to) /\ (to = "lock_look" => mutex[m].owner \in Threads)
        BY <2>1, <2>2 DEF RetryFind
    <2>4. /\ arg' = [arg EXCEPT ![running] = mutex[m].owner] /\ halt' \in {halt, "crash"}
          /\ UNCHANGED << ready_q, tcb, timer, old_prio, mutex >>
        BY <2>1 DEF RetryFind
    <2>5. QED
        BY <1>1, <2>2, <2>3, <2>4, RetryFinds, StatementKeepsHeadInv
<1>3. CASE RetrySave
    <2>1. /\ Statement("lock_save", "lock_store") /\ pc[running] = "lock_save"
          /\ old_prio' = [old_prio EXCEPT ![running] = tcb[Boosted].priority]
          /\ UNCHANGED << ready_q, tcb, timer, halt, arg, mutex >>
        BY <1>3 DEF RetrySave, Statement, Running
    <2>2. Boosted \in Threads /\ Boosted # running
        BY <1>1, <2>1, RetryFinds
    <2>3. old_prio' \in [Threads -> Nat]
        BY <1>1, <2>1, <2>2, RetryFinds DEF TcbType
    <2>4. QED
        BY <1>1, <2>1, <2>2, <2>3, RetryFinds, StatementKeepsHeadInv DEF Boosted
<1>4. CASE RetrySearch
    <2>1. PICK to \in {"lock_insert", "lock_yield"} : Statement("lock_search", to)
        BY <1>4 DEF RetrySearch
    <2>2. /\ halt' \in {halt, "crash"} /\ pc[running] = "lock_search"
          /\ UNCHANGED << ready_q, tcb, timer, arg, old_prio, mutex >>
        BY <1>4, <2>1 DEF RetrySearch, Statement, Running
    <2>3. QED
        BY <1>1, <2>1, <2>2, RetryFinds, StatementKeepsHeadInv DEF Boosted
<1>5. QED
    BY <1>2, <1>3, <1>4

\* The holder's node is inserted, and its old node unlinked, behind the head: a
\* waiter boosts another thread than itself.
LEMMA SurgeryKeepsHeadInv ==
    ASSUME HeadInv, RetryInsert \/ RetryUnlink
    PROVE  HeadInv'
<1>1. RetryStep
    BY DEF RetryStep
<1>2. /\ pc[running] \in BoostLabels /\ timer' = Alloc(timer)
      /\ UNCHANGED << tcb, arg, old_prio, mutex >>
    BY DEF RetryInsert, RetryUnlink, Statement, Running
<1>3. Boosted \in Threads /\ Boosted # running /\ timer' \in TimerType
    BY <1>1, <1>2, RetryFinds, TimerOps
<1>4. CASE RetryInsert
    <2>1. /\ Statement("lock_insert", "lock_unlink") /\ halt' \in {halt, "abort"}
          /\ ready_q' = insert_ready_q(ready_q, Boosted, Own)
          /\ UNCHANGED << curr_prio, running >>
        BY <1>4 DEF RetryInsert, Statement, LibraryFrame
    <2>2. ready_q' \in ReadyQType /\ CurrentIsHead'
        BY <1>1, <1>3, <2>1, RetryFinds, InsertionKeepsHead
    <2>3. QED
        BY <1>1, <1>2, <1>3, <2>1, <2>2, RetryFinds, StatementKeepsHeadInv DEF Boosted
<1>5. CASE RetryUnlink
    <2>1. /\ Statement("lock_unlink", "lock_yield") /\ halt' \in {halt, "error", "undefined"}
          /\ UNCHANGED << curr_prio, running >>
        BY <1>5 DEF RetryUnlink, Statement, LibraryFrame
    <2>2. ready_q' \in ReadyQType /\ CurrentIsHead'
        <3>1. CASE UNCHANGED ready_q
            BY <1>1, <3>1, RetryFinds
        <3>2. CASE ~UNCHANGED ready_q
            <4> DEFINE prio == old_prio[running]
            <4>1. PICK k \in DOMAIN ready_q[prio] :
                      ready_q[prio][k] = Boosted /\ ready_q' = Unlink(ready_q, prio, k)
                BY <1>5, <3>2 DEF RetryUnlink, OldQueue
            <4>2. prio \in Prios
                BY <1>1, <3>2, <4>1, RetryFinds DEF Unlink, ReadyQType
            <4>3. k \in 1 .. Len(ready_q[prio])
                BY <1>1, <4>1, <4>2, RetryFinds, LenProperties DEF ReadyQType
            <4>4. curr_prio # prio \/ k # 1
                BY <1>1, <1>3, <4>1, RetryFinds DEF Current
            <4>5. ready_q' \in ReadyQType
                BY <1>1, <4>1, <4>2, <4>3, RetryFinds, UnlinkType
            <4>6. ready_q'[curr_prio] # << >> /\ ready_q'[curr_prio][1] = running
                BY <1>1, <4>1, <4>2, <4>3, <4>4, RetryFinds, UnlinkKeepsHead DEF Current
            <4>7. QED
                BY <2>1, <4>5, <4>6 DEF CurrentIsHead, Current
        <3>3. QED
            BY <3>1, <3>2
    <2>3. QED
        BY <1>1, <1>2, <1>3, <2>1, <2>2, RetryFinds, StatementKeepsHeadInv
<1>6. QED
    BY <1>4, <1>5

\* The interruption of a look-up or of the surgery ends the behaviour.
LEMMA TornKeepsHeadInv ==
    ASSUME HeadInv, Torn \/ Revive
    PROVE  HeadInv'
<1>1. /\ halt' = "undefined"
      /\ UNCHANGED << ready_q, curr_prio, tcb, running, should_maintain, timer, prev_done,
                      stacks, handler, scan, pthreadVars >>
    BY DEF Torn, Revive
<1>2. TypeOK' /\ CallHasThread' /\ BeforeFirstCreate'
    BY <1>1 DEF HeadInv, TypeOK, CallHasThread, BeforeFirstCreate, pthreadVars
<1>3. CurrentIsHead'
    BY <1>1 DEF CurrentIsHead, Live
<1>4. QED
    BY <1>2, <1>3 DEF HeadInv

LEMMA RetryKeepsHeadInv ==
    ASSUME HeadInv, RetryStep
    PROVE  HeadInv'
BY TestKeepsHeadInv, StoreKeepsHeadInv, ThreadStoreKeepsHeadInv, LookupKeepsHeadInv,
   SurgeryKeepsHeadInv, TornKeepsHeadInv DEF RetryStep

\* The second step of my_pthread_mutex_unlock.
LEMMA UnlockKeepsHeadInv ==
    ASSUME HeadInv, NEW m \in Mutexes, UnlockRestore(m)
    PROVE  HeadInv'
<1> USE DEF HeadInv, TypeOK, BeforeFirstCreate, CallHasThread, Live, Running, Goto, lockVars
<1>1. Live /\ handler = "idle"
    BY InLibrary DEF UnlockRestore
<1>2. /\ Current = running /\ Current \in Threads /\ tcb[Current] \in TcbType
      /\ tcb[Current].cycles_left \in Int /\ tcb[Current].acq_locks \in Int
    BY <1>1, CurrentIsRunning DEF TcbType
<1> DEFINE hoisted == mutex[m].hoisted_priority
           before == mutex[m].holding_thread_priority
           left == tcb[Current].cycles_left - (before - hoisted)
           locks == tcb[Current].acq_locks - 1
           cycles == IF left < 0 THEN 0 ELSE left
           restored == [tcb[Current] EXCEPT !.acq_locks = locks, !.priority = before,
                                            !.cycles_left = cycles]
<1>3. before \in Nat /\ locks \in Int /\ cycles \in Int
    BY <1>2 DEF MutexType
<1>4. \/ tcb' = [tcb EXCEPT ![Current] = restored]
      \/ tcb' = [tcb EXCEPT ![Current].acq_locks = locks]
    BY <1>2 DEF UnlockRestore
<1>5. restored \in TcbType
    <2> HIDE DEF before, locks, cycles
    <2>1. QED
        BY <1>2, <1>3, TcbFields
<1> HIDE DEF locks, restored
<1>6. tcb' \in [Threads -> TcbType]
    <2>1. [tcb EXCEPT ![Current] = restored] \in [Threads -> TcbType]
        BY <1>2, <1>5, TcbUpdates
    <2>2. [tcb EXCEPT ![Current].acq_locks = locks] \in [Threads -> TcbType]
        BY <1>2, <1>3, TcbUpdates
    <2>3. QED
        BY <1>4, <2>1, <2>2
<1>7. timer' \in TimerType
    BY TimerOps DEF UnlockRestore
<1>8. CurrentIsHead'
    BY <1>1, LibraryKeepsHead DEF UnlockRestore, LibraryFrame
<1>9. QED
    BY <1>2, <1>6, <1>7, <1>8 DEF UnlockRestore, Return, LibraryFrame, Labels

\* The alarm and raise(): the handler starts, the queues are as they were.
LEMMA TriggerKeepsHeadInv ==
    ASSUME HeadInv, Tick \/ Raise
    PROVE  HeadInv'
<1> USE DEF HeadInv, TypeOK, BeforeFirstCreate, CallHasThread, Live, Running, Goto, lockVars
<1>1. Live /\ handler = "idle"
    BY InLibrary DEF Tick, Raise, AfterRaise
<1>2. running \in Threads
    OBVIOUS
<1>3. CurrentIsHead'
    BY <1>1, LibraryKeepsHead DEF Tick, Raise, pthreadVars
<1>4. CASE Tick
    BY <1>1, <1>3, <1>4 DEF Tick, pthreadVars
<1>5. CASE Raise
    BY <1>1, <1>2, <1>3, <1>5 DEF Raise, AfterRaise, Labels
<1>6. QED
    BY <1>4, <1>5

\* The first my_pthread_create leaves main at the head of queue 0, running.
LEMMA FirstCreateKeepsHeadInv ==
    ASSUME HeadInv, FirstCreate
    PROVE  HeadInv'
<1> USE DEF HeadInv, TypeOK, BeforeFirstCreate, CallHasThread, Live, Running, lockVars
<1>1. handler = "idle" /\ running = Main /\ curr_prio = 0 /\ tid = 0
    BY DEF FirstCreate
<1>2. FreshTcb("READY") \in TcbType
    BY DEF FreshTcb, TcbType
<1>3. tcb' \in [Threads -> TcbType]
    BY <1>2 DEF FirstCreate
<1>4. << Main, 1 >> \in Seq(Threads) /\ << Main, 1 >> # << >> /\ << Main, 1 >>[1] = Main
    BY Constants
<1>5. ready_q' \in [Prios -> Seq(Threads)] /\ ready_q'[0] = << Main, 1 >>
    BY <1>4, Constants DEF FirstCreate
<1>6. CurrentIsHead'
    BY <1>1, <1>4, <1>5 DEF FirstCreate, CurrentIsHead, Current
<1>7. timer' \in TimerType
    BY DEF FirstCreate, TimerType
<1>8. tid' \in 1 .. MaxThreads /\ should_maintain' \in Nat /\ {1, Main} \subseteq Threads
    BY Constants, SchedulerAssumption DEF FirstCreate
<1>9. QED
    BY <1>1, <1>3, <1>5, <1>6, <1>7, <1>8 DEF FirstCreate, Labels

\* create_tcb, and the entries of yield, exit and join.
LEMMA CallKeepsHeadInv ==
    ASSUME HeadInv, CreateTcb \/ Yield \/ Exit \/ \E target \in Threads : Join(target)
    PROVE  HeadInv'
<1> USE DEF HeadInv, TypeOK, BeforeFirstCreate, CallHasThread, Live, Running, Goto, lockVars
<1>1. Live /\ handler = "idle"
    BY DEF CreateTcb, Yield, Exit, Join, Calls
<1>2. Current = running /\ Current \in Threads /\ tcb[Current] \in TcbType
    BY <1>1, CurrentIsRunning
<1>3. CurrentIsHead'
    BY <1>1, LibraryKeepsHead DEF CreateTcb, Yield, Exit, Join, LibraryFrame
<1>4. timer' \in TimerType
    BY TimerOps DEF CreateTcb, Yield, Exit, Join
<1>5. CASE CreateTcb
    <2>1. tid + 1 \in Threads /\ tid' = tid + 1 /\ tid' \in 1 .. MaxThreads
        BY <1>5, SchedulerAssumption DEF CreateTcb, Threads
    <2>2. FreshTcb("READY") \in TcbType
        BY DEF FreshTcb, TcbType
    <2>3. tcb' \in [Threads -> TcbType]
        BY <1>5, <2>1, <2>2, TcbUpdates DEF CreateTcb
    <2>4. CallHasThread'
        <3>1. /\ pc' = [pc EXCEPT ![running] = "create_insert", ![tid + 1] = "user"]
              /\ arg' = [arg EXCEPT ![running] = tid + 1] /\ pc[running] = "user"
            BY <1>5 DEF CreateTcb, Calls
        <3>2. /\ \A t \in Threads \ {running, tid + 1} : pc'[t] = pc[t] /\ arg'[t] = arg[t]
              /\ pc'[running] \in {"create_insert", "user"} /\ arg'[running] \in Threads
              /\ pc'[tid + 1] \in {"create_insert", "user"}
              /\ pc'[tid + 1] = "create_insert" => running = tid + 1
            BY <1>2, <2>1, <3>1
        <3>3. QED
            BY <3>2
    <2> HIDE DEF CallHasThread
    <2>5. pc' \in [Threads -> Labels] /\ arg' \in [Threads -> Threads \cup {NoThread}]
        BY <1>2, <1>5, <2>1 DEF CreateTcb, Labels
    <2>6. stacks' \subseteq Threads
        BY <1>5, <2>1 DEF CreateTcb
    <2>7. BeforeFirstCreate'
        BY <2>1
    <2> HIDE DEF BeforeFirstCreate
    <2>8. TypeOK'
        <3>1. UNCHANGED << ready_q, curr_prio, running, should_maintain, prev_done, handler,
                           scan, halt, all_threads, mtx, lockVars >>
            BY <1>5 DEF CreateTcb, LibraryFrame
        <3>2. QED
            BY <1>4, <2>1, <2>3, <2>5, <2>6, <3>1
    <2>9. QED
        BY <1>3, <2>4, <2>7, <2>8
<1>6. CASE Yield
    <2>1. tcb' = [tcb EXCEPT ![Current].cycles_left = -1] /\ -1 \in Int
        BY <1>6 DEF Yield
    <2>2. tcb' \in [Threads -> TcbType]
        BY <1>2, <2>1, TcbUpdates
    <2>3. QED
        BY <1>1, <1>2, <1>3, <1>4, <1>6, <2>2 DEF Yield, LibraryFrame, Labels
<1>7. CASE Exit
    BY <1>1, <1>2, <1>3, <1>4, <1>7 DEF Exit, LibraryFrame, Labels
<1>8. ASSUME NEW target \in Threads, Join(target)
      PROVE  HeadInv'
    <2>1. CASE UNCHANGED << pc, arg >>
        BY <1>1, <1>2, <1>3, <1>4, <1>8, <2>1 DEF Join, LibraryFrame
    <2>2. CASE arg' = [arg EXCEPT ![running] = target] /\ (Goto("join_wait") \/ Goto("join_done"))
        <3>1. CallHasThread'
            <4>1. /\ \A t \in Threads \ {running} : pc'[t] = pc[t] /\ arg'[t] = arg[t]
                  /\ pc'[running] \in {"join_wait", "join_done"} /\ arg'[running] = target
                BY <1>2, <2>2
            <4>2. QED
                BY <4>1
        <3> HIDE DEF CallHasThread
        <3>2. pc' \in [Threads -> Labels] /\ arg' \in [Threads -> Threads \cup {NoThread}]
            BY <1>2, <1>8, <2>2 DEF Labels
        <3>3. QED
            BY <1>1, <1>2, <1>3, <1>4, <1>8, <3>1, <3>2 DEF Join, LibraryFrame
    <2>3. QED
        BY <1>8, <2>1, <2>2 DEF Join
<1>9. QED
    BY <1>5, <1>6, <1>7, <1>8

\* mutex_init, mutex_destroy, and the first steps of lock and unlock.
LEMMA MutexCallKeepsHeadInv ==
    ASSUME HeadInv, NEW m \in Mutexes, MutexInit(m) \/ MutexDestroy(m) \/ Lock(m) \/ Unlock(m)
    PROVE  HeadInv'
<1> USE DEF HeadInv, TypeOK, BeforeFirstCreate, CallHasThread, Live, Running, Goto
<1>1. FreshMutex \in MutexType
    BY DEF FreshMutex, MutexType, INT8_MAX
<1>2. CASE MutexInit(m)
    <2>1. mutex' \in [Mutexes -> MutexType]
        BY <1>1, <1>2, MutexUpdates DEF MutexInit
    <2>2. CurrentIsHead'
        BY <1>2 DEF MutexInit, schedVars, CurrentIsHead, Current
    <2>3. QED
        BY <1>2, <2>1, <2>2 DEF MutexInit, schedVars
<1>3. CASE MutexDestroy(m)
    <2>1. mutex' \in [Mutexes -> MutexType]
        BY <1>3, MutexUpdates DEF MutexDestroy
    <2>2. CurrentIsHead'
        BY <1>3 DEF MutexDestroy, schedVars, CurrentIsHead, Current
    <2>3. QED
        BY <1>3, <2>1, <2>2 DEF MutexDestroy, schedVars
<1>4. CASE Lock(m) \/ Unlock(m)
    <2>1. Live /\ handler = "idle"
        BY <1>4 DEF Lock, Unlock, Calls
    <2>2. CurrentIsHead'
        BY <1>4, <2>1, LibraryKeepsHead DEF Lock, Unlock, LibraryFrame
    <2>3. timer' \in TimerType
        BY <1>4, TimerOps DEF Lock, Unlock
    <2>4. CASE Lock(m)
        BY <2>1, <2>2, <2>3, <2>4 DEF Lock, LibraryFrame, lockVars, Labels
    <2>5. CASE Unlock(m)
        <3>1. mutex' \in [Mutexes -> MutexType]
            BY <2>5, MutexUpdates DEF Unlock
        <3>2. QED
            BY <2>1, <2>2, <2>3, <2>5, <3>1 DEF Unlock, LibraryFrame, Labels
    <2>6. QED
        BY <1>4, <2>4, <2>5
<1>5. QED
    BY <1>2, <1>3, <1>4

\* The new priority and slice of a requeued thread are numbers.
LEMMA RequeuedType ==
    ASSUME NEW old \in TcbType
    PROVE  Requeued(old) \in TcbType
<1> DEFINE prio == old.priority
           up == prio + 1
           slice == prio + 2
           last == NUM_QUEUES - 1
<1>1. prio \in Nat /\ prio \in Int
    BY DEF TcbType
<1>2. up \in Nat /\ slice \in Int /\ last \in Nat /\ last \in Int
    BY <1>1, SchedulerAssumption
<1>3. \/ Requeued(old) = [old EXCEPT !.cycles_left = prio]
      \/ Requeued(old) = [old EXCEPT !.cycles_left = last, !.priority = last]
      \/ Requeued(old) = [old EXCEPT !.cycles_left = slice, !.priority = up]
    BY DEF Requeued
<1> HIDE DEF prio, up, slice, last
<1>4. [old EXCEPT !.cycles_left = prio] \in TcbType
    BY <1>1, TcbFields
<1>5. [old EXCEPT !.cycles_left = last, !.priority = last] \in TcbType
    BY <1>2, TcbFields
<1>6. [old EXCEPT !.cycles_left = slice, !.priority = up] \in TcbType
    BY <1>2, TcbFields
<1>7. QED
    BY <1>3, <1>4, <1>5, <1>6

\* The handler marks the thread it interrupted as having run.
LEMMA RanFields ==
    ASSUME NEW r \in TcbType
    PROVE  /\ r.priority \in Nat /\ r.cycles_left \in Int
           /\ [r EXCEPT !.ran_since = TRUE] \in TcbType
           /\ \A c \in Int : [r EXCEPT !.cycles_left = c, !.ran_since = TRUE] \in TcbType
<1>1. r.priority \in Nat /\ r.cycles_left \in Int
    BY DEF TcbType
<1>2. [r EXCEPT !.ran_since = TRUE] \in TcbType
    BY DEF TcbType
<1>3. ASSUME NEW c \in Int, NEW b \in BOOLEAN
      PROVE  [r EXCEPT !.cycles_left = c, !.ran_since = b] \in TcbType
    BY DEF TcbType
<1>4. QED
    BY <1>1, <1>2, <1>3

\* The handler's treatment of the thread that was running.
LEMMA EntryKeepsHeadInv ==
    ASSUME HeadInv, UNCHANGED pthreadVars, KeepRunning \/ Requeue \/ Leave
    PROVE  HeadInv'
<1> USE DEF HeadInv, TypeOK, BeforeFirstCreate, CallHasThread, Live, pthreadVars, ReadyQType
<1>1. Live /\ handler = "schedule" /\ Entry
    BY DEF KeepRunning, Requeue, Leave, Entry
<1>2. /\ Current \in Threads /\ tcb[Current] \in TcbType /\ ready_q[curr_prio] # << >>
      /\ tcb[Current].cycles_left \in Int /\ tcb[Current].priority \in Nat
    BY <1>1, CurrentIsRunning DEF TcbType
<1>3. stacks' \subseteq Threads /\ should_maintain' \in Nat /\ timer' \in TimerType
    BY <1>1, TimerOps DEF Entry
<1> DEFINE shorter == [ready_q EXCEPT ![curr_prio] = Tail(@)]
<1>4. shorter \in ReadyQType
    <2>1. Tail(ready_q[curr_prio]) \in Seq(Threads)
        BY <1>2, HeadTailProperties
    <2>2. QED
        BY <2>1
<1>5. NextPhase \in {"maintain", "dispatch"}
    BY DEF NextPhase
<1>6. CASE KeepRunning
    <2> DEFINE cycles == tcb[Current].cycles_left - 1
    <2>1. tcb' = [tcb EXCEPT ![Current] =
                    [tcb[Current] EXCEPT !.cycles_left = cycles, !.ran_since = TRUE]]
        BY <1>6 DEF KeepRunning
    <2>2. cycles \in Int
        BY <1>2
    <2> HIDE DEF cycles
    <2>3. [tcb[Current] EXCEPT !.cycles_left = cycles, !.ran_since = TRUE] \in TcbType
        BY <1>2, <2>2, RanFields
    <2>4. tcb' \in [Threads -> TcbType]
        BY <1>2, <2>1, <2>3, TcbUpdates
    <2>5. CurrentIsHead'
        BY <1>1, <1>6 DEF KeepRunning, Entry, CurrentIsHead, Current
    <2>6. QED
        BY <1>1, <1>3, <1>6, <2>4, <2>5 DEF KeepRunning, Entry
<1>7. CASE Requeue
    <2> DEFINE new == Requeued(tcb[Current])
               marked == [new EXCEPT !.ran_since = TRUE]
    <2>1. new \in TcbType
        BY <1>2, RequeuedType
    <2>2. marked \in TcbType /\ new.priority \in Nat
        BY <2>1, RanFields
    <2>3. /\ tcb' = [tcb EXCEPT ![Current] = marked]
          /\ ready_q' = insert_ready_q(shorter, Current, new.priority)
        BY <1>7 DEF Requeue
    <2> HIDE DEF new, marked, shorter
    <2>4. tcb' \in [Threads -> TcbType]
        BY <1>2, <2>2, <2>3, TcbUpdates
    <2>5. ready_q' \in ReadyQType
        BY <1>2, <1>4, <2>2, <2>3, InsertType
    <2>6. /\ handler' \in {"maintain", "dispatch"} /\ prev_done' = NoThread
          /\ halt' \in {"none", "abort"}
        BY <1>1, <1>5, <1>7 DEF Requeue
    <2>7. QED
        BY <1>1, <1>3, <2>4, <2>5, <2>6 DEF Entry, CurrentIsHead
<1>8. CASE Leave
    <2>1. tcb' \in [Threads -> TcbType]
        BY <1>2, <1>8, TcbUpdates DEF Leave
    <2>2. ready_q' \in ReadyQType
        BY <1>4, <1>8 DEF Leave
    <2>3. /\ handler' \in {"maintain", "dispatch"} /\ halt' = halt
          /\ prev_done' \in Threads \cup {NoThread}
        BY <1>2, <1>5, <1>8 DEF Leave
    <2>4. QED
        BY <1>1, <1>3, <2>1, <2>2, <2>3 DEF Entry, CurrentIsHead
<1>9. QED
    BY <1>6, <1>7, <1>8

\* run_maintenance moves nodes while there is no current thread.
LEMMA MaintenanceKeepsHeadInv ==
    ASSUME HeadInv, UNCHANGED pthreadVars, Maintenance
    PROVE  HeadInv'
<1> USE DEF HeadInv, TypeOK, BeforeFirstCreate, CallHasThread, Live, pthreadVars,
            ReadyQType, CurrentIsHead
<1>1. tid # 0 /\ halt = "none" /\ handler = "maintain"
    BY DEF Maintenance, MaintainNextQueue, MaintainKeep, MaintainMove, MaintainEnd, Scanning
<1>2. scan[2] \in Nat \ {0} /\ scan = << scan[1], scan[2] >>
    OBVIOUS
<1>3. ASSUME NEW queue \in 1 .. NUM_QUEUES - 1, MaintainNextQueue(queue)
      PROVE  HeadInv'
    <2>1. scan' \in (1 .. NUM_QUEUES) \X (Nat \ {0})
        BY <1>3, SchedulerAssumption DEF MaintainNextQueue
    <2>2. QED
        BY <1>1, <1>3, <2>1 DEF MaintainNextQueue
<1>4. ASSUME NEW queue \in 1 .. NUM_QUEUES - 1, MaintainKeep(queue)
      PROVE  HeadInv'
    <2>1. scan' \in (1 .. NUM_QUEUES) \X (Nat \ {0})
        BY <1>2, <1>4, SchedulerAssumption DEF MaintainKeep
    <2>2. QED
        BY <1>1, <1>4, <2>1 DEF MaintainKeep
<1>5. ASSUME NEW queue \in 1 .. NUM_QUEUES - 1, MaintainMove(queue)
      PROVE  HeadInv'
    <2> DEFINE t == ScannedThread
    <2>1. queue \in Prios /\ scan[1] = queue /\ ready_q[queue] \in Seq(Threads)
        BY <1>5, SchedulerAssumption DEF MaintainMove, Scanning, Prios
    <2>2. Len(ready_q[queue]) \in Nat
        BY <2>1, LenProperties
    <2>3. scan[2] \in 1 .. Len(ready_q[queue])
        BY <1>2, <1>5, <2>1, <2>2 DEF MaintainMove, AtListEnd
    <2>4. t \in Threads
        BY <2>1, <2>3, ElementOfSeq DEF ScannedThread
    <2>5. tcb[t].priority \in Nat
        BY <2>4 DEF TcbType
    <2>6. PICK new_prio \in NewPriorities(t, queue) :
              /\ tcb' = [tcb EXCEPT ![t].priority = new_prio]
              /\ ready_q' = Unlink(insert_ready_q(ready_q, t, new_prio), queue, scan[2])
              /\ halt' = IF InsertFails(new_prio) THEN "abort" ELSE halt
        BY <1>5 DEF MaintainMove
    <2>7. new_prio \in Nat
        BY DEF NewPriorities
    <2>8. tcb' \in [Threads -> TcbType]
        BY <2>4, <2>6, <2>7, TcbUpdates
    <2> DEFINE longer == insert_ready_q(ready_q, t, new_prio)
    <2>9. longer \in ReadyQType
        BY <2>4, <2>7, InsertType
    <2>10. scan[2] \in 1 .. Len(longer[queue])
        BY <2>1, <2>2, <2>3, <2>4, AppendProperties DEF insert_ready_q
    <2>11. ready_q' \in ReadyQType
        BY <2>1, <2>6, <2>9, <2>10, UnlinkType
    <2>12. timer' \in TimerType /\ halt' \in {"none", "abort"}
        BY <1>1, <1>5, <2>6, TimerOps DEF MaintainMove
    <2>13. QED
        BY <1>1, <1>5, <2>8, <2>11, <2>12 DEF MaintainMove
<1>6. CASE MaintainEnd
    <2>1. \A t \in Threads : [tcb[t] EXCEPT !.ran_since = FALSE] \in TcbType
        BY TcbFields
    <2>2. tcb' \in [Threads -> TcbType]
        BY <1>6, <2>1 DEF MaintainEnd
    <2>3. should_maintain' \in Nat /\ scan' \in (1 .. NUM_QUEUES) \X (Nat \ {0})
        BY <1>6, SchedulerAssumption DEF MaintainEnd
    <2>4. QED
        BY <1>1, <1>6, <2>2, <2>3 DEF MaintainEnd
<1>7. QED
    BY <1>3, <1>4, <1>5, <1>6 DEF Maintenance

\* The switch makes the head of the queue it chose the running thread; the
\* other ways out of the handler end the process.
LEMMA SwitchKeepsHeadInv ==
    ASSUME HeadInv, UNCHANGED pthreadVars, Dispatch \/ Teardown \/ FreeGarbage
    PROVE  HeadInv'
<1> USE DEF HeadInv, TypeOK, BeforeFirstCreate, CallHasThread, Live, pthreadVars
<1>1. tid # 0
    BY DEF Dispatch, Teardown, FreeGarbage
<1>2. CASE Dispatch
    <2>1. PICK prio \in OccupiedQueues : curr_prio' = prio /\ running' = ready_q[prio][1]
        BY <1>2 DEF Dispatch
    <2>2. prio \in Prios /\ ready_q[prio] \in Seq(Threads) /\ ready_q[prio] # << >>
        BY <2>1 DEF OccupiedQueues
    <2>3. Len(ready_q[prio]) \in Nat \ {0}
        BY <2>2, EmptySeq
    <2>4. running' \in Threads
        BY <2>1, <2>2, <2>3, ElementOfSeq
    <2>5. CurrentIsHead'
        BY <1>2, <2>1, <2>2 DEF Dispatch, CurrentIsHead, Current
    <2>6. timer' \in TimerType
        BY <1>2 DEF Dispatch, Rearm, exit_scheduler, TimerType
    <2>7. QED
        BY <1>1, <1>2, <2>1, <2>2, <2>4, <2>5, <2>6 DEF Dispatch
<1>3. CASE Teardown
    <2>1. timer' \in TimerType
        BY <1>3 DEF Teardown, Rearm, exit_scheduler, TimerType
    <2>2. QED
        BY <1>1, <1>3, <2>1 DEF Teardown, CurrentIsHead
<1>4. CASE FreeGarbage
    BY <1>1, <1>4 DEF FreeGarbage, CurrentIsHead
<1>5. QED
    BY <1>2, <1>3, <1>4

\* Every step of the program preserves the invariant.
LEMMA HeadInvStep ==
    ASSUME HeadInv, [Next]_vars
    PROVE  HeadInv'
<1>1. CASE UNCHANGED vars
    BY <1>1 DEF vars, schedVars, pthreadVars, HeadInv, TypeOK, CurrentIsHead, Current,
       BeforeFirstCreate, CallHasThread, Live
<1>2. CASE Tick
    BY <1>2, TriggerKeepsHeadInv
<1>3. CASE ScheduleStep
    BY <1>3, EntryKeepsHeadInv, MaintenanceKeepsHeadInv, SwitchKeepsHeadInv
    DEF ScheduleStep, Schedule
<1>4. CASE LibraryStep
    <2>1. CASE \/ Raise \/ CreateInsert \/ CreatePut \/ ExitWake \/ ExitDone
               \/ JoinWait \/ JoinBlock \/ JoinDone
        BY <2>1, TriggerKeepsHeadInv, CreateKeepsHeadInv, ExitKeepsHeadInv, JoinKeepsHeadInv
    <2>2. CASE LockBoost \/ LockBoostMove
        BY <2>2, BoostKeepsHeadInv
    <2>3. ASSUME NEW m \in Mutexes,
                 \/ LockTry(m) \/ LockHoist(m)
                 \/ LockOwner(m) \/ LockAdjust(m) \/ LockExit(m)
          PROVE  HeadInv'
        BY <2>3, LockKeepsHeadInv
    <2>4. CASE LockYield
        BY <2>4, LockYieldKeepsHeadInv
    <2>5. CASE \E m \in Mutexes : UnlockRestore(m)
        BY <2>5, UnlockKeepsHeadInv
    <2>6. CASE RetryStep
        BY <2>6, RetryKeepsHeadInv
    <2>7. QED
        BY <1>4, <2>1, <2>2, <2>3, <2>4, <2>5, <2>6 DEF LibraryStep
<1>5. CASE UserCall
    BY <1>1, <1>5, FirstCreateKeepsHeadInv, CallKeepsHeadInv, MutexCallKeepsHeadInv
    DEF UserCall, Compute
<1>6. CASE Halted
    BY <1>1, <1>6 DEF Halted
<1>7. QED
    BY <1>1, <1>2, <1>3, <1>4, <1>5, <1>6 DEF Next

\* Every reachable state satisfies the invariant.
LEMMA HeadInvariant == Spec => []HeadInv
<1>1. Init => HeadInv
    BY HeadInvInit
<1>2. HeadInv /\ [Next]_vars => HeadInv'
    BY HeadInvStep
<1>3. QED
    BY <1>1, <1>2, PTL DEF Spec

\* Every variable keeps to its type, in every execution of the library.
THEOREM TypeCorrect == Spec => []TypeOK
<1>1. HeadInv => TypeOK
    BY DEF HeadInv
<1>2. QED
    BY <1>1, HeadInvariant, PTL

\* Where a lock waiter's quantum covers its next try, so that no list surgery is
\* interrupted, the library never mistakes another thread for the one that runs:
\* get_head(ready_q[curr_prio]) is the running thread.
THEOREM HeadIsRunning == RetryInQuantum /\ Spec => []CurrentIsHead
<1>1. HeadInv => CurrentIsHead
    BY DEF HeadInv
<1>2. QED
    BY <1>1, HeadInvariant, PTL

-----------------------------------------------------------------------------
(* Mutual exclusion *)

\* The thread is on its way to the exchange on the lock word.
Trying(t, m) ==
    /\ pc[t] \in WaiterLabels \cup {"raise_retry"}
    /\ mtx[t] = m

\* An owned mutex is locked and not destroyed, and has one owner; and a thread
\* can only be trying for a mutex that somebody destroyed if its lock word is set,
\* so it never gets it.
LockInv ==
    \A m \in Mutexes : \A t \in Threads :
        /\ Owns(t, m) => mutex[m].locked = TRUE /\ m \in inited
        /\ \A u \in Threads : Owns(t, m) /\ Owns(u, m) => t = u
        /\ Trying(t, m) => m \in inited \/ mutex[m].locked = TRUE

\* Nobody has or wants a mutex at first.
LEMMA LockInvInit == Init => LockInv
BY DEF Init, LockInv, Owns, Trying

\* A step that changes no mutex, and gives no thread one, preserves it.
LEMMA LockFrame ==
    ASSUME LockInv, UNCHANGED << mutex, inited >>,
           \A t \in Threads, m \in Mutexes :
              (Owns(t, m)' => Owns(t, m)) /\ (Trying(t, m)' => Trying(t, m))
    PROVE  LockInv'
BY DEF LockInv

\* The same, told by what the step does to the running thread's label.
LEMMA LabelFrame ==
    ASSUME LockInv, TypeOK, UNCHANGED << mutex, inited, holds >>,
           NEW label \in Labels \ (LockLabels \cup {"raise_retry"}),
           pc' = [pc EXCEPT ![running] = label],
           \A t \in Threads : t # running => mtx'[t] = mtx[t]
    PROVE  LockInv'
<1>1. \A t \in Threads, m \in Mutexes :
          (Owns(t, m)' => Owns(t, m)) /\ (Trying(t, m)' => Trying(t, m))
    BY DEF TypeOK, Owns, Trying, LockLabels, Labels
<1>2. QED
    BY <1>1, LockFrame

\* The handler and the alarm leave the mutexes alone.
LEMMA HandlerKeepsLockInv ==
    ASSUME LockInv, Tick \/ ScheduleStep
    PROVE  LockInv'
BY LockFrame DEF Tick, ScheduleStep, pthreadVars, Owns, Trying

\* raise(SIGALRM) sends a lock waiter back to the exchange, and nobody else there.
LEMMA RaiseKeepsLockInv ==
    ASSUME LockInv, TypeOK, Raise
    PROVE  LockInv'
BY LockFrame DEF Raise, Running, Goto, AfterRaise, lockVars, Owns, Trying, TypeOK

\* The calls that have nothing to do with mutexes.
LEMMA OtherCallsKeepLockInv ==
    ASSUME LockInv, TypeOK,
           \/ FirstCreate \/ CreateTcb \/ CreateInsert \/ CreatePut
           \/ Yield \/ Exit \/ ExitWake \/ ExitDone
           \/ JoinWait \/ JoinBlock \/ JoinDone
    PROVE  LockInv'
<1> USE DEF Goto, Return, lockVars, pthreadVars, Labels, LockLabels
<1>1. CASE FirstCreate \/ CreateTcb
    <2>1. /\ UNCHANGED << mutex, inited, mtx, holds >>
          /\ \A t \in Threads : pc'[t] \in {pc[t], "user", "create_insert"}
        BY <1>1 DEF FirstCreate, CreateTcb, TypeOK
    <2>2. QED
        BY <2>1, LockFrame DEF Owns, Trying
<1>2. CASE CreateInsert \/ Yield \/ Exit \/ ExitDone \/ JoinWait \/ JoinBlock
    BY <1>2, LabelFrame DEF CreateInsert, Yield, Exit, ExitDone, JoinWait, JoinBlock, LibraryFrame
<1>3. CASE CreatePut \/ JoinDone
    BY <1>3, LabelFrame DEF CreatePut, JoinDone, LibraryFrame, TypeOK
<1>4. CASE ExitWake
    BY <1>4, LockFrame DEF ExitWake, Owns, Trying
<1>5. QED
    BY <1>1, <1>2, <1>3, <1>4

\* The entry of my_pthread_join.
LEMMA JoinKeepsLockInv ==
    ASSUME LockInv, TypeOK, NEW target \in Threads, Join(target)
    PROVE  LockInv'
<1>1. CASE UNCHANGED pc
    BY <1>1, LockFrame DEF Join, lockVars, Owns, Trying
<1>2. CASE Goto("join_wait") \/ Goto("join_done")
    BY <1>2, LabelFrame DEF Join, Goto, lockVars, Labels, LockLabels
<1>3. QED
    BY <1>1, <1>2 DEF Join

\* mutex_init and mutex_destroy: an initialised mutex is new to everybody, and a
\* destroyed one had no owner.
LEMMA InitDestroyKeepLockInv ==
    ASSUME LockInv, TypeOK, NEW m \in Mutexes, MutexInit(m) \/ MutexDestroy(m)
    PROVE  LockInv'
<1> USE DEF LockInv, Owns, Trying, TypeOK, MutexType
<1>1. CASE MutexInit(m)
    BY <1>1 DEF MutexInit, FreshMutex
<1>2. CASE MutexDestroy(m)
    BY <1>2 DEF MutexDestroy
<1>3. QED
    BY <1>1, <1>2

\* Adjusting priorities does not touch the lock word.
LEMMA AdjustKeepsLocked ==
    ASSUME TypeOK, NEW m \in Mutexes, LockAdjust(m), NEW n \in Mutexes
    PROVE  mutex'[n].locked = mutex[n].locked
<1>1. PICK hoisted, before :
         \/ mutex' = [mutex EXCEPT ![m] = [mutex[m] EXCEPT !.hoisted_priority = hoisted,
                                                          !.holding_thread_priority = before]]
         \/ mutex' = [mutex EXCEPT ![m].hoisted_priority = hoisted]
    BY DEF LockAdjust
<1>2. mutex \in [Mutexes -> MutexType]
    BY DEF TypeOK
<1>3. CASE n # m
    BY <1>1, <1>2, <1>3
<1>4. CASE n = m
    <2>1. \/ mutex'[m] = [mutex[m] EXCEPT !.hoisted_priority = hoisted,
                                          !.holding_thread_priority = before]
          \/ mutex'[m] = [mutex[m] EXCEPT !.hoisted_priority = hoisted]
        BY <1>1, <1>2
    <2>2. mutex[m] \in MutexType
        BY <1>2
    <2>3. \A r \in MutexType :
             /\ [r EXCEPT !.hoisted_priority = hoisted].locked = r.locked
             /\ [r EXCEPT !.hoisted_priority = hoisted,
                          !.holding_thread_priority = before].locked = r.locked
        BY DEF MutexType
    <2>4. QED
        BY <1>4, <2>1, <2>2, <2>3
<1>5. QED
    BY <1>3, <1>4

\* my_pthread_mutex_lock: only the exchange takes a mutex, and only a free one.
LEMMA LockKeepsLockInv ==
    ASSUME LockInv, TypeOK, NEW m \in Mutexes,
           \/ Lock(m) \/ LockTry(m) \/ LockHoist(m)
           \/ LockOwner(m) \/ LockAdjust(m) \/ LockExit(m)
    PROVE  LockInv'
<1> USE DEF LockInv, Owns, Trying, TypeOK, MutexType, Running, Goto, lockVars
<1>1. CASE Lock(m)
    BY <1>1 DEF Lock, Calls
<1>2. CASE LockTry(m)
    BY <1>2 DEF LockTry
<1>3. CASE LockHoist(m)
    <2>1. /\ \A n \in Mutexes : mutex'[n].locked = mutex[n].locked
          /\ UNCHANGED << inited, mtx, holds >> /\ pc[running] = "lock_hoist"
        BY <1>3 DEF LockHoist
    <2>2. UNCHANGED pc \/ \E label \in {"lock_try", "lock_boost", "lock_yield"} :
                                pc' = [pc EXCEPT ![running] = label]
        BY <1>3 DEF LockHoist, AfterHoist
    <2>3. QED
        BY <2>1, <2>2
<1>4. CASE LockOwner(m)
    BY <1>4 DEF LockOwner
<1>5. CASE LockAdjust(m)
    <2>1. \A n \in Mutexes : mutex'[n].locked = mutex[n].locked
        BY <1>5, AdjustKeepsLocked
    <2>2. UNCHANGED << mtx, inited, holds >> /\ pc[running] = "lock_adjust"
          /\ pc' = [pc EXCEPT ![running] = "lock_exit"]
        BY <1>5 DEF LockAdjust
    <2>3. QED
        BY <2>1, <2>2
<1>6. CASE LockExit(m)
    BY <1>6 DEF LockExit, Return
<1>7. QED
    BY <1>1, <1>2, <1>3, <1>4, <1>5, <1>6

\* The steps of a waiter, which stays one.
LEMMA WaiterKeepsLockInv ==
    ASSUME LockInv, TypeOK,
           LockBoost \/ LockBoostMove \/ LockYield
    PROVE  LockInv'
BY LockFrame
DEF LockBoost, LockBoostMove, LockBoostPriority, LockYield, Running, Goto,
    lockVars, pthreadVars, Owns, Trying, TypeOK

\* The statements of the loop do not touch a lock word.
LEMMA RetryKeepsLocked ==
    ASSUME TypeOK, RetryStep, NEW n \in Mutexes
    PROVE  mutex'[n].locked = mutex[n].locked
<1> USE DEF TypeOK, MutexType
<1>1. CASE \E m \in Mutexes : RetryStore(m)
    <2>0. PICK m \in Mutexes : RetryStore(m)
        BY <1>1
    <2>1. PICK x : \/ mutex' = [mutex EXCEPT ![m].hoisted_priority = x]
                   \/ mutex' = [mutex EXCEPT ![m].holding_thread_priority = x]
        BY <2>0 DEF RetryStore
    <2>2. \A r \in MutexType : /\ [r EXCEPT !.hoisted_priority = x].locked = r.locked
                             /\ [r EXCEPT !.holding_thread_priority = x].locked = r.locked
        OBVIOUS
    <2>3. mutex'[n] \in {mutex[n], [mutex[n] EXCEPT !.hoisted_priority = x],
                         [mutex[n] EXCEPT !.holding_thread_priority = x]}
        BY <2>1
    <2>4. QED
        BY <2>2, <2>3
<1>2. CASE mutex' = mutex
    BY <1>2
<1>3. QED
    BY <1>1, <1>2 DEF RetryStep, RetryTest, RetryThread, RetryFind, RetrySave, RetrySearch,
       RetryInsert, RetryUnlink, Torn, Revive, pthreadVars

\* Nor do they give or take a mutex.
LEMMA RetryKeepsOwners ==
    ASSUME TypeOK, RetryStep
    PROVE  \A t \in Threads, m \in Mutexes :
              (Owns(t, m)' <=> Owns(t, m)) /\ (Trying(t, m)' <=> Trying(t, m))
<1>1. UNCHANGED << mtx, holds >> /\ (UNCHANGED pc \/ Stays(WaiterLabels) \/ Stays(OwnerLabels))
    BY RetryFrame
<1>2. QED
    BY <1>1 DEF Stays, Goto, Owns, Trying, TypeOK

LEMMA RetryKeepsLockInv ==
    ASSUME LockInv, TypeOK, RetryStep
    PROVE  LockInv'
<1>1. UNCHANGED inited /\ \A m \in Mutexes : mutex'[m].locked = mutex[m].locked
    BY RetryFrame, RetryKeepsLocked
<1>2. QED
    BY <1>1, RetryKeepsOwners DEF LockInv

\* my_pthread_mutex_unlock: the only owner gives the mutex up.
LEMMA UnlockKeepsLockInv ==
    ASSUME LockInv, TypeOK, NEW m \in Mutexes, Unlock(m) \/ UnlockRestore(m)
    PROVE  LockInv'
<1>1. CASE Unlock(m)
    BY <1>1 DEF Unlock, Calls, Running, Goto, LockInv, Owns, Trying, TypeOK, MutexType
<1>2. CASE UnlockRestore(m)
    BY <1>2, LabelFrame DEF UnlockRestore, Return, Goto, lockVars, Labels, LockLabels, TypeOK
<1>3. QED
    BY <1>1, <1>2

\* Every step of the program preserves it.
LEMMA LockInvStep ==
    ASSUME LockInv, TypeOK, [Next]_vars
    PROVE  LockInv'
<1>1. CASE UNCHANGED vars
    BY <1>1, LockFrame DEF vars, pthreadVars, Owns, Trying
<1>2. CASE Tick \/ ScheduleStep
    BY <1>2, HandlerKeepsLockInv
<1>3. CASE LibraryStep
    <2>1. CASE Raise
        BY <2>1, RaiseKeepsLockInv
    <2>2. CASE \/ CreateInsert \/ CreatePut \/ ExitWake \/ ExitDone
               \/ JoinWait \/ JoinBlock \/ JoinDone
        BY <2>2, OtherCallsKeepLockInv
    <2>3. CASE LockBoost \/ LockBoostMove \/ LockYield
        BY <2>3, WaiterKeepsLockInv
    <2>4. CASE \E m \in Mutexes : LockTry(m) \/ LockHoist(m)
                                  \/ LockOwner(m) \/ LockAdjust(m) \/ LockExit(m)
        BY <2>4, LockKeepsLockInv
    <2>5. CASE \E m \in Mutexes : UnlockRestore(m)
        BY <2>5, UnlockKeepsLockInv
    <2>6. CASE RetryStep
        BY <2>6, RetryKeepsLockInv
    <2>7. QED
        BY <1>3, <2>1, <2>2, <2>3, <2>4, <2>5, <2>6 DEF LibraryStep
<1>4. CASE UserCall
    <2>1. CASE FirstCreate \/ CreateTcb \/ Yield \/ Exit
        BY <2>1, OtherCallsKeepLockInv
    <2>2. CASE \E target \in Threads : Join(target)
        BY <2>2, JoinKeepsLockInv
    <2>3. CASE \E m \in Mutexes : MutexInit(m) \/ MutexDestroy(m)
        BY <2>3, InitDestroyKeepLockInv
    <2>4. CASE \E m \in Mutexes : Lock(m)
        BY <2>4, LockKeepsLockInv
    <2>5. CASE \E m \in Mutexes : Unlock(m)
        BY <2>5, UnlockKeepsLockInv
    <2>6. QED
        BY <1>1, <1>4, <2>1, <2>2, <2>3, <2>4, <2>5 DEF UserCall, Compute
<1>5. CASE Halted
    BY <1>1, <1>5 DEF Halted
<1>6. QED
    BY <1>1, <1>2, <1>3, <1>4, <1>5 DEF Next

\* At most one thread has a mutex, from the exchange that takes it to the store
\* that frees it, wherever the alarm interrupts the threads that try for it.
THEOREM LocksExclude == Spec => []MutualExclusion
<1>1. Init => LockInv
    BY LockInvInit
<1>2. TypeOK /\ LockInv /\ [Next]_vars => LockInv'
    BY LockInvStep
<1>3. LockInv => MutualExclusion
    BY DEF LockInv, MutualExclusion
<1>4. QED
    BY <1>1, <1>2, <1>3, TypeCorrect, PTL DEF Spec

-----------------------------------------------------------------------------
(* MyPthread implements Mutex; the invariant that makes it so is LockInv *)

OwnersOf(m) == {t \in Threads : Owns(t, m)}

\* A step that gives and takes no mutex is a stutter of the specification of
\* mutexes.
LEMMA OwnersFrame ==
    ASSUME UNCHANGED inited,
           \A t \in Threads, m \in Mutexes : Owns(t, m)' <=> Owns(t, m)
    PROVE  UNCHANGED Ideal!vars
<1>1. \A m \in Mutexes : OwnersOf(m)' = OwnersOf(m)
    BY DEF OwnersOf
<1>2. QED
    BY <1>1 DEF OwnersOf, Ideal!vars

\* The same, told by the running thread's labels before and after the step.
LEMMA LabelOwnersFrame ==
    ASSUME TypeOK, UNCHANGED << inited, holds >>,
           NEW label \in Labels \ OwnerLabels,
           pc[running] \notin OwnerLabels,
           pc' = [pc EXCEPT ![running] = label],
           \A t \in Threads : t # running => mtx'[t] = mtx[t]
    PROVE  UNCHANGED Ideal!vars
<1>1. \A t \in Threads, m \in Mutexes : Owns(t, m)' <=> Owns(t, m)
    BY DEF TypeOK, Owns, OwnerLabels, Labels
<1>2. QED
    BY <1>1, OwnersFrame

-----------------------------------------------------------------------------
(* Ids not given out yet are ids of threads that have not begun: a new thread *)
(* takes over no label.                                                       *)

UnbornInv ==
    /\ tid # 1
    /\ \A t \in Threads : t > tid /\ t # Main => pc[t] = "unborn"

\* Only the thread on the CPU moves, and it has begun.
LEMMA UnbornFrame ==
    ASSUME UnbornInv, TypeOK, UNCHANGED tid,
           \/ UNCHANGED pc
           \/ pc[running] # "unborn" /\ \E label \in Labels : pc' = [pc EXCEPT ![running] = label]
    PROVE  UnbornInv'
<1>1. \A t \in Threads : pc[t] = "unborn" => pc'[t] = "unborn"
    BY DEF TypeOK
<1>2. QED
    BY <1>1 DEF UnbornInv

\* The id a later my_pthread_create gives out is new, and not main's.
LEMMA NextId ==
    ASSUME UnbornInv, TypeOK, CreateTcb
    PROVE  tid \in Nat \ {0} /\ tid + 1 \in Threads /\ tid + 1 > tid /\ tid + 1 # Main
<1>1. tid \in Nat /\ tid # 0 /\ tid # 1 /\ tid < MaxThreads
    BY SchedulerAssumption DEF CreateTcb, Calls, UnbornInv, TypeOK
<1>2. QED
    BY <1>1, SchedulerAssumption DEF Threads, Main

\* my_pthread_create gives out the next id.
LEMMA CreateKeepsUnborn ==
    ASSUME UnbornInv, TypeOK, FirstCreate \/ CreateTcb
    PROVE  UnbornInv'
<1>1. CASE FirstCreate
    <2>1. tid = 0 /\ tid' = 2 /\ pc' = [pc EXCEPT ![1] = "user"]
        BY <1>1 DEF FirstCreate
    <2>2. \A t \in Threads : t > 2 => t > 0 /\ t # 1 /\ t # Main
        BY DEF Threads, Main
    <2>3. QED
        BY <2>1, <2>2 DEF UnbornInv, TypeOK
<1>2. CASE CreateTcb
    <2>1. pc' = [pc EXCEPT ![running] = "create_insert", ![tid + 1] = "user"]
          /\ tid' = tid + 1 /\ pc[running] = "user"
        BY <1>2 DEF CreateTcb, Calls, Running
    <2>2. \A t \in Threads : t > tid + 1 => t > tid /\ t # tid + 1
        BY <1>2, NextId DEF Threads
    <2>3. \A t \in Threads : t > tid + 1 /\ t # Main => pc'[t] = "unborn"
        BY <2>1, <2>2 DEF UnbornInv, TypeOK
    <2>4. tid' # 1
        BY <1>2, <2>1, NextId
    <2>5. QED
        BY <2>1, <2>3, <2>4 DEF UnbornInv
<1>3. QED
    BY <1>1, <1>2

\* The steps of the calls.
LEMMA LibraryKeepsUnborn ==
    ASSUME UnbornInv, TypeOK, LibraryStep
    PROVE  UnbornInv'
<1> USE DEF Running, Goto, Return, Labels, lockVars, pthreadVars
<1>1. CASE Raise
    <2>1. PICK label \in DOMAIN AfterRaise :
             pc[running] = label /\ pc' = [pc EXCEPT ![running] = AfterRaise[label]]
        BY <1>1 DEF Raise
    <2>2. label # "unborn" /\ AfterRaise[label] \in Labels
        BY DEF AfterRaise
    <2>3. QED
        BY <1>1, <2>1, <2>2, UnbornFrame DEF Raise
<1>2. CASE CreateInsert \/ CreatePut \/ ExitWake \/ ExitDone
    BY <1>2, UnbornFrame DEF CreateInsert, CreatePut, ExitWake, ExitDone
<1>3. CASE JoinWait \/ JoinBlock \/ JoinDone
    BY <1>3, UnbornFrame DEF JoinWait, JoinBlock, JoinDone
<1>4. CASE LockBoost \/ LockBoostMove \/ LockYield
    BY <1>4, UnbornFrame
    DEF LockBoost, LockBoostMove, LockBoostPriority, LockYield
<1>5. CASE \E m \in Mutexes :
              \/ LockTry(m) \/ LockHoist(m)
              \/ LockOwner(m) \/ LockAdjust(m) \/ LockExit(m)
              \/ UnlockRestore(m)
    <2>1. PICK m \in Mutexes : \/ LockTry(m) \/ LockHoist(m)
                               \/ LockOwner(m) \/ LockAdjust(m) \/ LockExit(m)
                               \/ UnlockRestore(m)
        BY <1>5
    <2>2. CASE LockTry(m) \/ LockOwner(m) \/ LockAdjust(m)
        BY <2>2, UnbornFrame DEF LockTry, LockOwner, LockAdjust
    <2>3. CASE LockHoist(m)
        BY <2>3, UnbornFrame DEF LockHoist, AfterHoist
    <2>4. CASE LockExit(m) \/ UnlockRestore(m)
        BY <2>4, UnbornFrame DEF LockExit, UnlockRestore
    <2>5. QED
        BY <2>1, <2>2, <2>3, <2>4
<1>6. CASE RetryStep
    <2>1. UNCHANGED tid /\ (UNCHANGED pc \/ Stays(WaiterLabels) \/ Stays(OwnerLabels))
        BY <1>6, RetryFrame
    <2>2. QED
        BY <2>1, UnbornFrame DEF Stays
<1>7. QED
    BY <1>1, <1>2, <1>3, <1>4, <1>5, <1>6 DEF LibraryStep

\* Every step of the program preserves it.
LEMMA UnbornStep ==
    ASSUME UnbornInv, TypeOK, [Next]_vars
    PROVE  UnbornInv'
<1> USE DEF Running, Calls, Goto, Labels, lockVars, pthreadVars
<1>1. CASE UNCHANGED vars \/ Halted \/ Tick \/ ScheduleStep \/ Compute
    BY <1>1, UnbornFrame DEF vars, Halted, Tick, ScheduleStep, Compute
<1>2. CASE LibraryStep
    BY <1>2, LibraryKeepsUnborn
<1>3. CASE FirstCreate \/ CreateTcb
    BY <1>3, CreateKeepsUnborn
<1>4. CASE Yield \/ Exit \/ \E target \in Threads : Join(target)
    BY <1>4, UnbornFrame DEF Yield, Exit, Join
<1>5. CASE \E m \in Mutexes : MutexInit(m) \/ MutexDestroy(m) \/ Lock(m) \/ Unlock(m)
    BY <1>5, UnbornFrame DEF MutexInit, MutexDestroy, Lock, Unlock
<1>6. QED
    BY <1>1, <1>2, <1>3, <1>4, <1>5 DEF Next, UserCall

-----------------------------------------------------------------------------
(* The steps of the library as steps of Mutex *)

\* The handler and the alarm.
LEMMA HandlerOwners ==
    ASSUME Tick \/ ScheduleStep
    PROVE  UNCHANGED Ideal!vars
BY OwnersFrame DEF Tick, ScheduleStep, pthreadVars, Owns

\* raise(SIGALRM): a thread that comes back from it has no mutex by that.
LEMMA RaiseOwners ==
    ASSUME TypeOK, Raise
    PROVE  UNCHANGED Ideal!vars
BY OwnersFrame DEF Raise, Running, Goto, AfterRaise, lockVars, Owns, TypeOK

\* The calls that have nothing to do with mutexes.
LEMMA OtherCallsOwners ==
    ASSUME TypeOK, UnbornInv,
           \/ FirstCreate \/ CreateTcb \/ CreateInsert \/ CreatePut
           \/ Yield \/ Exit \/ ExitWake \/ ExitDone
           \/ JoinWait \/ JoinBlock \/ JoinDone
    PROVE  UNCHANGED Ideal!vars
<1> USE DEF Goto, Return, Running, lockVars, pthreadVars, Labels, OwnerLabels
<1>1. CASE FirstCreate
    <2>1. pc[1] = "unborn"
        BY <1>1, Constants DEF FirstCreate, UnbornInv, Main
    <2>2. QED
        BY <1>1, <2>1, OwnersFrame, Constants DEF FirstCreate, Owns, TypeOK
<1>2. CASE CreateTcb
    <2>1. tid + 1 \in Threads /\ tid + 1 > tid /\ tid + 1 # Main
        BY <1>2, NextId
    <2>2. pc[tid + 1] = "unborn" /\ pc[running] = "user"
        BY <1>2, <2>1 DEF CreateTcb, Calls, UnbornInv
    <2>3. QED
        BY <1>2, <2>1, <2>2, OwnersFrame DEF CreateTcb, Owns, TypeOK
<1>3. CASE CreateInsert \/ Yield \/ Exit \/ ExitDone \/ JoinWait \/ JoinBlock
    BY <1>3, LabelOwnersFrame
    DEF CreateInsert, Yield, Exit, ExitDone, JoinWait, JoinBlock, Calls, LibraryFrame
<1>4. CASE CreatePut \/ JoinDone
    BY <1>4, LabelOwnersFrame DEF CreatePut, JoinDone, LibraryFrame, TypeOK
<1>5. CASE ExitWake
    BY <1>5, OwnersFrame DEF ExitWake, Owns
<1>6. QED
    BY <1>1, <1>2, <1>3, <1>4, <1>5

\* The entry of my_pthread_join.
LEMMA JoinOwners ==
    ASSUME TypeOK, NEW target \in Threads, Join(target)
    PROVE  UNCHANGED Ideal!vars
<1>1. CASE UNCHANGED pc
    BY <1>1, OwnersFrame DEF Join, lockVars, Owns
<1>2. CASE Goto("join_wait") \/ Goto("join_done")
    BY <1>2, LabelOwnersFrame
    DEF Join, Calls, Running, Goto, lockVars, Labels, OwnerLabels
<1>3. QED
    BY <1>1, <1>2 DEF Join

\* A waiter stays a waiter.
LEMMA WaiterOwners ==
    ASSUME TypeOK, LockBoost \/ LockBoostMove \/ LockYield
    PROVE  UNCHANGED Ideal!vars
BY OwnersFrame
DEF LockBoost, LockBoostMove, LockBoostPriority, LockYield, Running,
    Goto, lockVars, pthreadVars, Owns, TypeOK

\* mutex_init gives a mutex nobody has to everybody; mutex_destroy takes one
\* nobody has, or is refused.
LEMMA InitDestroyOwners ==
    ASSUME LockInv, TypeOK, NEW m \in Mutexes, MutexInit(m) \/ MutexDestroy(m)
    PROVE  Ideal!Initialise(m) \/ Ideal!Destroy(m) \/ UNCHANGED Ideal!vars
<1>1. UNCHANGED << pc, mtx, holds >>
    BY DEF MutexInit, MutexDestroy
<1>2. \A t \in Threads, n \in Mutexes : Owns(t, n)' <=> Owns(t, n)
    BY <1>1 DEF Owns
<1>3. UNCHANGED [n \in Mutexes |-> OwnersOf(n)]
    BY <1>2 DEF OwnersOf
<1>4. CASE MutexInit(m)
    <2>1. OwnersOf(m) = {}
        BY <1>4 DEF MutexInit, LockInv, OwnersOf
    <2>2. QED
        BY <1>3, <1>4, <2>1 DEF MutexInit, Ideal!Initialise, OwnersOf
<1>5. CASE MutexDestroy(m) /\ mutex[m].locked
    BY <1>2, <1>5, OwnersFrame DEF MutexDestroy
<1>6. CASE MutexDestroy(m) /\ ~mutex[m].locked
    <2>1. OwnersOf(m) = {}
        BY <1>6 DEF LockInv, OwnersOf
    <2>2. QED
        BY <1>3, <1>6, <2>1 DEF MutexDestroy, Ideal!Destroy, OwnersOf
<1>7. QED
    BY <1>4, <1>5, <1>6

\* The exchange that finds the lock word clear acquires the mutex; every other
\* step of the call leaves the owners alone.
LEMMA LockOwners ==
    ASSUME LockInv, TypeOK, NEW m \in Mutexes,
           \/ Lock(m) \/ LockTry(m) \/ LockHoist(m)
           \/ LockOwner(m) \/ LockAdjust(m) \/ LockExit(m)
    PROVE  Ideal!Acquire(running, m) \/ UNCHANGED Ideal!vars
<1> USE DEF Owns, TypeOK, Running, Goto, lockVars
<1>1. CASE LockTry(m) /\ ~mutex[m].locked
    <2>1. Trying(running, m)
        BY <1>1 DEF LockTry, Trying
    <2>2. m \in inited /\ OwnersOf(m) = {}
        BY <1>1, <2>1 DEF LockInv, OwnersOf, MutexType
    <2>3. OwnersOf(m)' = {running}
        BY <1>1, <2>2 DEF LockTry, OwnersOf
    <2>4. \A n \in Mutexes : n # m => OwnersOf(n)' = OwnersOf(n)
        BY <1>1 DEF LockTry, OwnersOf
    <2>5. [n \in Mutexes |-> OwnersOf(n)]' = [[n \in Mutexes |-> OwnersOf(n)] EXCEPT ![m] = {running}]
        BY <2>3, <2>4
    <2>6. QED
        BY <1>1, <2>2, <2>5 DEF LockTry, Ideal!Acquire, OwnersOf
<1>2. CASE LockTry(m) /\ mutex[m].locked
    BY <1>2, OwnersFrame DEF LockTry
<1>3. CASE Lock(m)
    BY <1>3, OwnersFrame DEF Lock, Calls
<1>4. CASE LockHoist(m)
    BY <1>4, OwnersFrame DEF LockHoist, AfterHoist
<1>5. CASE LockOwner(m) \/ LockAdjust(m)
    BY <1>5, OwnersFrame DEF LockOwner, LockAdjust
<1>6. CASE LockExit(m)
    BY <1>6, OwnersFrame DEF LockExit, Return
<1>7. QED
    BY <1>1, <1>2, <1>3, <1>4, <1>5, <1>6

\* The store to the lock word releases the mutex.
LEMMA UnlockOwners ==
    ASSUME LockInv, TypeOK, NEW m \in Mutexes, Unlock(m)
    PROVE  Ideal!Relinquish(running, m)
<1> USE DEF Owns, TypeOK, Running, Goto
<1>1. OwnersOf(m) = {running}
    BY DEF Unlock, Calls, LockInv, OwnersOf
<1>2. OwnersOf(m)' = {}
    BY <1>1 DEF Unlock, Calls, OwnersOf
<1>3. \A n \in Mutexes : n # m => OwnersOf(n)' = OwnersOf(n)
    BY DEF Unlock, Calls, OwnersOf
<1>4. [n \in Mutexes |-> OwnersOf(n)]' = [[n \in Mutexes |-> OwnersOf(n)] EXCEPT ![m] = {}]
    BY <1>2, <1>3
<1>5. QED
    BY <1>1, <1>4 DEF Unlock, Ideal!Relinquish, OwnersOf

\* The end of my_pthread_mutex_unlock.
LEMMA RestoreOwners ==
    ASSUME TypeOK, NEW m \in Mutexes, UnlockRestore(m)
    PROVE  UNCHANGED Ideal!vars
BY LabelOwnersFrame
DEF UnlockRestore, Running, Return, Goto, lockVars, Labels, OwnerLabels, TypeOK

\* Every step of the program is a step of the specification of mutexes.
LEMMA IdealStep ==
    ASSUME LockInv, UnbornInv, TypeOK, [Next]_vars
    PROVE  [Ideal!Next]_Ideal!vars
<1>1. CASE UNCHANGED vars
    BY <1>1, OwnersFrame DEF vars, pthreadVars, Owns
<1>2. CASE Tick \/ ScheduleStep
    BY <1>2, HandlerOwners
<1>3. CASE LibraryStep
    <2>1. CASE Raise
        BY <2>1, RaiseOwners
    <2>2. CASE \/ CreateInsert \/ CreatePut \/ ExitWake \/ ExitDone
               \/ JoinWait \/ JoinBlock \/ JoinDone
        BY <2>2, OtherCallsOwners
    <2>3. CASE LockBoost \/ LockBoostMove \/ LockYield
        BY <2>3, WaiterOwners
    <2>4. CASE \E m \in Mutexes : LockTry(m) \/ LockHoist(m)
                                  \/ LockOwner(m) \/ LockAdjust(m) \/ LockExit(m)
        BY <2>4, LockOwners DEF Ideal!Next, TypeOK
    <2>5. CASE \E m \in Mutexes : UnlockRestore(m)
        BY <2>5, RestoreOwners
    <2>6. CASE RetryStep
        BY <2>6, RetryFrame, RetryKeepsOwners, OwnersFrame
    <2>7. QED
        BY <1>3, <2>1, <2>2, <2>3, <2>4, <2>5, <2>6 DEF LibraryStep
<1>4. CASE UserCall
    <2>1. CASE FirstCreate \/ CreateTcb \/ Yield \/ Exit
        BY <2>1, OtherCallsOwners
    <2>2. CASE \E target \in Threads : Join(target)
        BY <2>2, JoinOwners
    <2>3. CASE \E m \in Mutexes : MutexInit(m) \/ MutexDestroy(m)
        BY <2>3, InitDestroyOwners DEF Ideal!Next
    <2>4. CASE \E m \in Mutexes : Lock(m)
        BY <2>4, LockOwners DEF Ideal!Next, TypeOK
    <2>5. CASE \E m \in Mutexes : Unlock(m)
        BY <2>5, UnlockOwners DEF Ideal!Next, TypeOK
    <2>6. QED
        BY <1>1, <1>4, <2>1, <2>2, <2>3, <2>4, <2>5 DEF UserCall, Compute
<1>5. CASE Halted
    BY <1>1, <1>5 DEF Halted
<1>6. QED
    BY <1>1, <1>2, <1>3, <1>4, <1>5 DEF Next

\* The library's mutexes are mutexes: whatever the threads call and wherever the
\* alarm interrupts them, a mutex goes from free to one owner and back, and one
\* that is destroyed is nobody's until it is initialised again.
THEOREM MutexRefinement == Spec => ImplementsMutex
<1>1. Init => Ideal!Init
    BY DEF Init, Ideal!Init, Owns
<1>2. LockInv /\ UnbornInv /\ TypeOK /\ [Next]_vars => [Ideal!Next]_Ideal!vars
    BY IdealStep
<1>3. Init => LockInv /\ UnbornInv
    BY LockInvInit DEF Init, UnbornInv
<1>4. TypeOK /\ LockInv /\ UnbornInv /\ [Next]_vars => LockInv' /\ UnbornInv'
    BY LockInvStep, UnbornStep
<1>5. QED
    BY <1>1, <1>2, <1>3, <1>4, TypeCorrect, PTL DEF Spec, ImplementsMutex, Ideal!Spec

-----------------------------------------------------------------------------
(* Critical sections *)

Preemptible == LockLabels \cup {"unborn", "user", "ended", "create_insert", "join_done"}
Sections == Labels \ Preemptible

\* A thread in a critical section has the CPU, and the alarm is off.
SectionInv ==
    \A t \in Threads : pc[t] \in Sections => t = running /\ handler = "idle" /\ ~timer.armed

\* The allocator leaves the alarm as it finds it.
LEMMA AllocKeepsAlarm ==
    ASSUME TimerCallsWork, NEW tm \in TimerType
    PROVE  /\ Alloc(tm).armed = tm.armed
           /\ Alloc(tm) \in TimerType
BY DEF Alloc, enter_scheduler, exit_scheduler, TimerType

\* enter_scheduler turns it off.
LEMMA EnterStopsAlarm ==
    ASSUME TimerCallsWork, NEW tm \in TimerType
    PROVE  /\ ~enter_scheduler(tm).armed
           /\ enter_scheduler(tm) \in TimerType
BY DEF enter_scheduler, TimerType

\* A step of the running thread that turns the alarm off, or leaves it off, if it
\* leads into a section.
LEMMA SectionGoto ==
    ASSUME SectionInv, TypeOK, Running(pc[running]), UNCHANGED << running, handler >>,
           NEW label \in Labels, Goto(label),
           label \in Sections => ~timer'.armed
    PROVE  SectionInv'
<1>1. \A t \in Threads : t # running => pc'[t] = pc[t] /\ pc[t] \notin Sections
    BY DEF SectionInv, Goto, TypeOK
<1>2. pc'[running] = label /\ handler' = "idle"
    BY DEF Goto, TypeOK, Running
<1>3. QED
    BY <1>1, <1>2 DEF SectionInv

\* Where no thread is in a section, a step that takes none into one.
LEMMA NoSection ==
    ASSUME TypeOK, \A t \in Threads : pc'[t] \notin Sections
    PROVE  SectionInv'
BY DEF SectionInv

LEMMA PreemptibleRunning ==
    ASSUME SectionInv, TypeOK, pc[running] \in Preemptible
    PROVE  \A t \in Threads : pc[t] \notin Sections
BY DEF SectionInv, Sections

LEMMA SectionStep ==
    ASSUME SectionInv, TypeOK, [Next]_vars, TimerCallsWork
    PROVE  SectionInv'
<1> USE DEF Running, Calls, Goto, Return, LibraryFrame, pthreadVars, lockVars
<1>0. timer \in TimerType /\ running \in Threads /\ pc \in [Threads -> Labels]
    BY DEF TypeOK
<1>1. CASE UNCHANGED vars \/ Halted \/ Compute
    BY <1>1 DEF SectionInv, vars, schedVars, Halted, Compute
<1>2. CASE Tick
    <2>1. pc' = pc /\ \A t \in Threads : pc[t] \notin Sections
        BY <1>2 DEF Tick, SectionInv
    <2>2. QED
        BY <2>1, NoSection
<1>3. CASE ScheduleStep
    <2>1. pc' = pc /\ handler # "idle"
        BY <1>3 DEF ScheduleStep, Schedule, KeepRunning, Requeue, Leave, Entry, FreeGarbage,
           Maintenance, MaintainNextQueue, MaintainKeep, MaintainMove, MaintainEnd, Scanning,
           Dispatch, Teardown
    <2>2. QED
        BY <2>1, NoSection DEF SectionInv
<1>4. CASE Raise
    <2>1. PICK label \in DOMAIN AfterRaise : Running(label) /\ pc' = [pc EXCEPT ![running] = AfterRaise[label]]
        BY <1>4 DEF Raise
    <2>2. AfterRaise[label] \in Preemptible
        BY DEF AfterRaise, Preemptible, LockLabels
    <2>3. \A t \in Threads : pc'[t] \notin Sections
        BY <1>0, <2>1, <2>2 DEF Sections, SectionInv
    <2>4. QED
        BY <2>3, NoSection
<1>5. CASE CreateInsert
    <2>1. ~Alloc(enter_scheduler(timer)).armed
        BY <1>0, AllocKeepsAlarm, EnterStopsAlarm
    <2>2. QED
        BY <1>5, <2>1, SectionGoto DEF CreateInsert, Labels
<1>6. CASE CreatePut \/ JoinDone \/ \E m \in Mutexes : UnlockRestore(m)
    <2>1. Goto("user") /\ UNCHANGED << running, handler >> /\ Running(pc[running])
        BY <1>6 DEF CreatePut, JoinDone, UnlockRestore
    <2>2. QED
        BY <2>1, SectionGoto DEF Labels, Sections, Preemptible
<1>7. CASE ExitWake \/ ExitDone \/ JoinWait \/ JoinBlock
    <2>1. pc[running] \in Sections /\ ~timer.armed
        BY <1>0, <1>7 DEF ExitWake, ExitDone, JoinWait, JoinBlock, SectionInv, Sections,
           Preemptible, Labels, LockLabels
    <2>2. ~timer'.armed
        BY <1>0, <1>7, <2>1, AllocKeepsAlarm DEF ExitWake, ExitDone, JoinWait, JoinBlock
    <2>3. UNCHANGED << running, handler >>
        BY <1>7 DEF ExitWake, ExitDone, JoinWait, JoinBlock
    <2>4. CASE ExitWake
        BY <2>2, <2>3, <2>4 DEF ExitWake, SectionInv
    <2>5. CASE ExitDone
        BY <2>2, <2>3, <2>5, SectionGoto DEF ExitDone, Labels
    <2>6. CASE JoinWait
        BY <2>2, <2>3, <2>6, SectionGoto DEF JoinWait, Labels
    <2>7. CASE JoinBlock
        BY <2>2, <2>3, <2>7, SectionGoto DEF JoinBlock, Labels
    <2>8. QED
        BY <1>7, <2>4, <2>5, <2>6, <2>7
<1>8. CASE LockYield \/ Yield \/ Exit
    <2>1. ~timer'.armed
        BY <1>0, <1>8, EnterStopsAlarm DEF LockYield, Yield, Exit
    <2>2. QED
        BY <1>8, <2>1, SectionGoto DEF LockYield, Yield, Exit, Labels
<1>9. CASE LockBoost \/ LockBoostMove \/ \E m \in Mutexes :
               LockTry(m) \/ LockHoist(m) \/ LockOwner(m) \/ LockAdjust(m) \/ LockExit(m)
    <2>1. pc[running] \in LockLabels
        BY <1>9 DEF LockBoost, LockBoostMove, LockBoostPriority, LockTry, LockHoist, LockOwner,
           LockAdjust, LockExit, LockLabels
    <2>2. pc' = pc \/ \E label \in LockLabels \cup {"user"} : Goto(label)
        BY <1>9 DEF LockBoost, LockBoostMove, LockBoostPriority, LockTry, LockHoist, LockOwner,
           LockAdjust, LockExit, LockLabels, AfterHoist
    <2>3. \A t \in Threads : pc'[t] \notin Sections
        BY <1>0, <2>1, <2>2, PreemptibleRunning DEF Sections, Preemptible
    <2>4. QED
        BY <2>3, NoSection
<1>10. CASE FirstCreate \/ CreateTcb
    <2>1. \A t \in Threads : pc[t] \notin Sections
        BY <1>10, PreemptibleRunning DEF FirstCreate, CreateTcb, Preemptible
    <2>2. \A t \in Threads : pc'[t] \in {pc[t], "user", "create_insert"}
        BY <1>0, <1>10 DEF FirstCreate, CreateTcb
    <2>3. QED
        BY <2>1, <2>2, NoSection DEF Sections, Preemptible
<1>11. CASE \E target \in Threads : Join(target)
    <2>1. PICK target \in Threads : Join(target)
        BY <1>11
    <2>2. ~timer'.armed /\ UNCHANGED << running, handler >>
        BY <1>0, <2>1, EnterStopsAlarm DEF Join
    <2>3. CASE UNCHANGED pc
        BY <2>1, <2>2, <2>3 DEF SectionInv
    <2>4. CASE Goto("join_wait") \/ Goto("join_done")
        BY <2>1, <2>2, <2>4, SectionGoto DEF Labels, Join
    <2>5. QED
        BY <2>1, <2>3, <2>4 DEF Join
<1>12. CASE \E m \in Mutexes : MutexInit(m) \/ MutexDestroy(m)
    BY <1>12 DEF MutexInit, MutexDestroy, SectionInv, schedVars
<1>13. CASE \E m \in Mutexes : Lock(m) \/ Unlock(m)
    <2>1. ~timer'.armed
        BY <1>0, <1>13, EnterStopsAlarm DEF Lock, Unlock
    <2>2. QED
        BY <1>13, <2>1, SectionGoto DEF Lock, Unlock, Labels
<1>14. CASE RetryStep
    <2>1. CASE UNCHANGED << pc, timer >>
        BY <1>14, <2>1, RetryFrame DEF SectionInv
    <2>2. CASE Stays(WaiterLabels) \/ Stays(OwnerLabels)
        <3>1. pc[running] \in Preemptible /\ \E label \in LockLabels : Goto(label)
            BY <2>2 DEF Stays, Preemptible
        <3>2. \A t \in Threads : pc'[t] \notin Sections
            BY <1>0, <3>1, PreemptibleRunning DEF Sections, Preemptible
        <3>3. QED
            BY <3>2, NoSection
    <2>3. QED
        BY <1>14, <2>1, <2>2, RetryFrame
<1>15. QED
    BY <1>1, <1>2, <1>3, <1>4, <1>5, <1>6, <1>7, <1>8, <1>9, <1>10, <1>11, <1>12, <1>13, <1>14
    DEF Next, LibraryStep, UserCall

\* Where the timer calls take effect, the library's state is touched with the
\* alarm off, but for the places SectionsExclusive leaves out.
THEOREM AlarmOffInSections == TimerCallsWork /\ Spec => []SectionsExclusive
<1>1. Init => SectionInv
    BY DEF Init, SectionInv, Sections, Preemptible
<1>2. SectionInv /\ TypeOK /\ [Next]_vars /\ TimerCallsWork => SectionInv'
    BY SectionStep
<1>3. SectionInv /\ TypeOK => SectionsExclusive
    BY DEF SectionInv, SectionsExclusive, InCriticalSection, Sections, Preemptible, TypeOK
<1>4. ASSUME TimerCallsWork PROVE Spec => []SectionsExclusive
    <2>1. SectionInv /\ TypeOK /\ [Next]_vars => SectionInv'
        BY <1>2, <1>4
    <2>2. QED
        BY <1>1, <1>3, <2>1, TypeCorrect, PTL DEF Spec
<1>5. QED
    BY <1>4

-----------------------------------------------------------------------------
(* The alarm at a switch *)

\* Where a call is on its way to raise(SIGALRM).
Raising == {"raise_yield", "raise_exit", "raise_join", "raise_retry",
            "exit_wake", "join_wait", "join_block"}

\* The handler finds the alarm armed, or the flag that tells it to arm it: a call
\* that raises the signal has raised the flag, which calls inside it leave up.
AlarmInv ==
    /\ handler # "idle" => timer.armed \/ timer.in_scheduler
    /\ handler = "idle" /\ pc[running] \in Raising => timer.in_scheduler

LEMMA AllocKeepsFlag ==
    ASSUME NEW tm \in TimerType, tm.in_scheduler
    PROVE  Alloc(tm).in_scheduler
BY DEF Alloc, enter_scheduler, exit_scheduler, TimerType

LEMMA EnterRaisesFlag ==
    ASSUME NEW tm \in TimerType
    PROVE  enter_scheduler(tm).in_scheduler
BY DEF enter_scheduler, TimerType

\* A thread that is switched in is not on its way to the signal.
LEMMA SwitchedIn ==
    ASSUME SectionInv, TypeOK, TypeOK', handler # "idle", UNCHANGED pc
    PROVE  pc'[running'] \notin Raising
<1>1. running' \in Threads
    BY DEF TypeOK
<1>2. pc[running'] \notin Sections /\ pc[running'] \in Labels
    BY <1>1 DEF SectionInv, TypeOK
<1>3. QED
    BY <1>2 DEF Sections, Preemptible, Raising, LockLabels

\* The handler arms the alarm when it finds the flag.
LEMMA HandlerAlarm ==
    ASSUME SectionInv, AlarmInv, TypeOK, TypeOK', TimerCallsWork, ScheduleStep
    PROVE  AlarmInv' /\ (running' # running => timer'.armed)
<1>0. timer \in TimerType /\ UNCHANGED pc
    BY DEF TypeOK, ScheduleStep, pthreadVars
<1>1. handler # "idle" /\ (timer.armed \/ timer.in_scheduler)
    BY DEF ScheduleStep, Schedule, KeepRunning, Requeue, Leave, Entry, FreeGarbage, Maintenance,
       MaintainNextQueue, MaintainKeep, MaintainMove, MaintainEnd, Scanning, Dispatch, Teardown,
       AlarmInv
<1>2. CASE KeepRunning \/ Requeue \/ Leave
    <2>1. timer' = Alloc(timer) /\ running' = running
        BY <1>2 DEF KeepRunning, Requeue, Leave, Entry
    <2>2. timer'.armed \/ timer'.in_scheduler
        BY <1>0, <1>1, <2>1, AllocKeepsAlarm, AllocKeepsFlag
    <2>3. QED
        BY <1>0, <1>1, <2>1, <2>2, SwitchedIn DEF AlarmInv
<1>3. CASE FreeGarbage
    BY <1>0, <1>1, <1>3 DEF FreeGarbage, AlarmInv
<1>4. CASE Maintenance
    <2>1. running' = running /\ (timer' = timer \/ timer' = Alloc(timer))
        BY <1>4 DEF Maintenance, MaintainNextQueue, MaintainKeep, MaintainMove, MaintainEnd
    <2>2. timer'.armed \/ timer'.in_scheduler
        BY <1>0, <1>1, <2>1, AllocKeepsAlarm, AllocKeepsFlag
    <2>3. QED
        BY <1>0, <1>1, <2>1, <2>2, SwitchedIn DEF AlarmInv
<1>5. CASE Dispatch \/ Teardown
    <2>1. timer'.armed
        <3>1. Rearm
            BY <1>5 DEF Dispatch, Teardown
        <3>2. QED
            BY <1>0, <1>1, <3>1 DEF Rearm, exit_scheduler, TimerType
    <2>2. QED
        BY <1>0, <1>1, <2>1, SwitchedIn DEF AlarmInv
<1>6. QED
    BY <1>2, <1>3, <1>4, <1>5 DEF ScheduleStep, Schedule

\* A call of the running thread.
LEMMA CallAlarm ==
    ASSUME TypeOK, handler = "idle", UNCHANGED << running, handler >>, NEW label, Goto(label),
           label \in Raising => timer'.in_scheduler
    PROVE  AlarmInv'
<1>1. pc'[running] = label
    BY DEF Goto, TypeOK
<1>2. QED
    BY <1>1 DEF AlarmInv

LEMMA AlarmStep ==
    ASSUME SectionInv, AlarmInv, TypeOK, TypeOK', TimerCallsWork, [Next]_vars
    PROVE  AlarmInv' /\ (running' # running => timer'.armed)
<1> USE DEF Running, Calls, Goto, Return, LibraryFrame, pthreadVars, lockVars
<1>0. timer \in TimerType /\ running \in Threads /\ pc \in [Threads -> Labels]
    BY DEF TypeOK
<1>1. CASE UNCHANGED vars \/ Halted \/ Compute
    BY <1>1 DEF AlarmInv, vars, schedVars, Halted, Compute
<1>2. CASE Tick
    BY <1>2 DEF Tick, AlarmInv
<1>3. CASE ScheduleStep
    BY <1>3, HandlerAlarm
<1>4. CASE Raise
    <2>1. PICK label \in DOMAIN AfterRaise : Running(label)
        BY <1>4 DEF Raise
    <2>2. timer.in_scheduler
        BY <2>1 DEF AfterRaise, AlarmInv, Raising
    <2>3. QED
        BY <1>4, <2>2 DEF Raise, AlarmInv
<1>5. CASE ExitWake \/ ExitDone \/ JoinWait \/ JoinBlock
    <2>1. timer.in_scheduler /\ UNCHANGED << running, handler >> /\ handler = "idle"
        BY <1>5 DEF ExitWake, ExitDone, JoinWait, JoinBlock, AlarmInv, Raising
    <2>2. timer'.in_scheduler
        BY <1>0, <1>5, <2>1, AllocKeepsFlag DEF ExitWake, ExitDone, JoinWait, JoinBlock
    <2>3. QED
        BY <2>1, <2>2 DEF AlarmInv
<1>6. CASE LockYield \/ Yield \/ Exit \/ \E target \in Threads : Join(target)
    <2>1. timer'.in_scheduler
        BY <1>0, <1>6, EnterRaisesFlag DEF LockYield, Yield, Exit, Join
    <2>2. UNCHANGED << running, handler >> /\ handler = "idle"
        BY <1>6 DEF LockYield, Yield, Exit, Join
    <2>3. QED
        BY <2>1, <2>2 DEF AlarmInv
<1>7. CASE \/ CreateInsert \/ CreatePut \/ JoinDone \/ LockBoost \/ LockBoostMove
           \/ \E m \in Mutexes : \/ Lock(m) \/ Unlock(m) \/ LockTry(m) \/ LockHoist(m)
                                 \/ LockOwner(m) \/ LockAdjust(m) \/ LockExit(m)
                                 \/ UnlockRestore(m)
    <2>1. /\ UNCHANGED << running, handler >> /\ handler = "idle"
          /\ pc[running] \notin Raising
          /\ UNCHANGED pc \/ \E label : label \notin Raising /\ Goto(label)
        BY <1>7 DEF CreateInsert, CreatePut, JoinDone, LockBoost, LockBoostMove,
           LockBoostPriority, Lock, Unlock, LockTry, LockHoist, LockOwner, LockAdjust, LockExit,
           UnlockRestore, AfterHoist, Raising
    <2>2. CASE UNCHANGED pc
        BY <2>1, <2>2 DEF AlarmInv
    <2>3. QED
        BY <2>1, <2>2, CallAlarm
<1>8. CASE FirstCreate \/ CreateTcb
    <2>1. /\ UNCHANGED << running, handler >> /\ handler = "idle" /\ pc[running] = "user"
          /\ pc'[running] \in {"user", "create_insert"}
        BY <1>0, <1>8 DEF FirstCreate, CreateTcb
    <2>2. QED
        BY <2>1 DEF AlarmInv, Raising
<1>9. ASSUME NEW m, MutexInit(m) \/ MutexDestroy(m)
      PROVE  AlarmInv' /\ UNCHANGED running
    <2>1. UNCHANGED << running, handler, timer, pc >>
        BY <1>9 DEF MutexInit, MutexDestroy, schedVars
    <2>2. QED
        BY <2>1 DEF AlarmInv
<1>10. CASE RetryStep
    <2>1. /\ UNCHANGED << running, handler >> /\ handler = "idle"
          /\ \/ UNCHANGED << pc, timer >>
             \/ \E label : label \notin Raising /\ Goto(label)
        BY <1>10, RetryFrame DEF Stays, Raising
    <2>2. QED
        BY <2>1, CallAlarm DEF AlarmInv
<1>11. QED
    BY <1>1, <1>2, <1>3, <1>4, <1>5, <1>6, <1>7, <1>8, <1>9, <1>10 DEF Next, LibraryStep, UserCall

\* Where the timer calls take effect, no thread is switched to without the alarm:
\* what takes the CPU from a thread that makes no calls is armed when it begins.
THEOREM SwitchArmsAlarm == TimerCallsWork /\ Spec => ArmedAtSwitch
<1>1. Init => SectionInv /\ AlarmInv
    BY Constants DEF Init, SectionInv, AlarmInv, Sections, Preemptible, Raising
<1>2. ASSUME TimerCallsWork PROVE Spec => ArmedAtSwitch
    <2>1. SectionInv /\ TypeOK /\ [Next]_vars => SectionInv'
        BY <1>2, SectionStep
    <2>2. SectionInv /\ AlarmInv /\ TypeOK /\ TypeOK' /\ [Next]_vars =>
              AlarmInv' /\ [Live /\ running' # running => timer'.armed]_vars
        BY <1>2, AlarmStep
    <2>3. QED
        BY <1>1, <2>1, <2>2, TypeCorrect, PTL DEF Spec, ArmedAtSwitch
<1>3. QED
    BY <1>2

-----------------------------------------------------------------------------
(* acq_locks *)

\* The thread is inside its lock call, and has not got the mutex yet.
Locking(t) == pc[t] \in LockLabels \cup {"raise_retry"}

\* A thread's locks are finitely many and counted; one that locks a mutex does
\* not have it; one that has not begun has none.
CountInv ==
    /\ \A t \in Threads :
          /\ IsFiniteSet(holds[t])
          /\ tcb[t].acq_locks = Cardinality(holds[t]) +
                                (IF pc[t] = "unlock_restore" THEN 1 ELSE 0)
    /\ \A t \in Threads : Locking(t) => mtx[t] \notin holds[t]
    /\ \A t \in Threads : tid = 0 \/ pc[t] = "unborn" => holds[t] = {}

CountsKept == \A t \in Threads : tcb'[t].acq_locks = tcb[t].acq_locks

\* A step that changes no count and no lock.
LEMMA CountFrame ==
    ASSUME CountInv, CountsKept, UNCHANGED holds, tid' = 0 => tid = 0,
           \A t \in Threads :
              /\ (pc'[t] = "unlock_restore") <=> (pc[t] = "unlock_restore")
              /\ Locking(t)' => Locking(t) /\ mtx'[t] = mtx[t]
              /\ pc'[t] = "unborn" => pc[t] = "unborn"
    PROVE  CountInv'
BY DEF CountInv, CountsKept

\* The same, for a step of the running thread alone.
LEMMA CountGoto ==
    ASSUME CountInv, TypeOK, CountsKept, UNCHANGED << holds, tid >>,
           NEW label, Goto(label), label \notin {"unlock_restore", "unborn"},
           pc[running] # "unlock_restore",
           label \in LockLabels \cup {"raise_retry"} => Locking(running) /\ UNCHANGED mtx,
           \A t \in Threads \ {running} : mtx'[t] = mtx[t]
    PROVE  CountInv'
<1>1. pc' = [pc EXCEPT ![running] = label] /\ pc \in [Threads -> Labels]
    BY DEF Goto, TypeOK
<1>2. QED
    BY <1>1, CountFrame DEF Locking

\* What the handler does to a tcb leaves the count alone.
LEMMA RequeueKeepsCount ==
    ASSUME NEW old \in TcbType
    PROVE  Requeued(old).acq_locks = old.acq_locks
BY DEF Requeued, TcbType

\* A step that changes other fields of a tcb.
LEMMA FieldKeepsCount ==
    ASSUME TypeOK, NEW t, NEW c, NEW d,
           \/ tcb' = [tcb EXCEPT ![t].status = c]
           \/ tcb' = [tcb EXCEPT ![t].priority = c]
           \/ tcb' = [tcb EXCEPT ![t].cycles_left = c]
           \/ tcb' = [tcb EXCEPT ![t].ran_since = c]
           \/ tcb' = [tcb EXCEPT ![t] = [tcb[t] EXCEPT !.cycles_left = c, !.ran_since = d]]
           \/ tcb' = [tcb EXCEPT ![t] = [tcb[t] EXCEPT !.cycles_left = c, !.priority = d]]
    PROVE  CountsKept
<1>0. tcb \in [Threads -> TcbType]
    BY DEF TypeOK
<1>1. CASE tcb' = [tcb EXCEPT ![t].status = c]
    BY <1>0, <1>1 DEF CountsKept, TcbType
<1>2. CASE tcb' = [tcb EXCEPT ![t].priority = c]
    BY <1>0, <1>2 DEF CountsKept, TcbType
<1>3. CASE tcb' = [tcb EXCEPT ![t].cycles_left = c]
    BY <1>0, <1>3 DEF CountsKept, TcbType
<1>4. CASE tcb' = [tcb EXCEPT ![t].ran_since = c]
    BY <1>0, <1>4 DEF CountsKept, TcbType
<1>5. CASE tcb' = [tcb EXCEPT ![t] = [tcb[t] EXCEPT !.cycles_left = c, !.ran_since = d]]
    BY <1>0, <1>5 DEF CountsKept, TcbType
<1>6. CASE tcb' = [tcb EXCEPT ![t] = [tcb[t] EXCEPT !.cycles_left = c, !.priority = d]]
    BY <1>0, <1>6 DEF CountsKept, TcbType
<1>7. QED
    BY <1>1, <1>2, <1>3, <1>4, <1>5, <1>6

LEMMA HandlerKeepsCount ==
    ASSUME TypeOK, Schedule
    PROVE  CountsKept
<1>0. tcb \in [Threads -> TcbType]
    BY DEF TypeOK
<1>1. CASE KeepRunning \/ Leave
    <2> DEFINE left == tcb[Current].cycles_left - 1
    <2>1. \/ tcb' = [tcb EXCEPT ![Current] =
                        [tcb[Current] EXCEPT !.cycles_left = left, !.ran_since = TRUE]]
          \/ tcb' = [tcb EXCEPT ![Current].ran_since = TRUE]
        BY <1>1 DEF KeepRunning, Leave
    <2> HIDE DEF left
    <2>2. CASE tcb' = [tcb EXCEPT ![Current].ran_since = TRUE]
        BY <2>2, FieldKeepsCount
    <2>3. CASE tcb' = [tcb EXCEPT ![Current] =
                          [tcb[Current] EXCEPT !.cycles_left = left, !.ran_since = TRUE]]
        BY <1>0, <2>3 DEF CountsKept, TcbType
    <2>4. QED
        BY <2>1, <2>2, <2>3
<1>2. CASE Requeue
    <2> DEFINE new == Requeued(tcb[Current])
    <2>1. tcb' = [tcb EXCEPT ![Current] = [new EXCEPT !.ran_since = TRUE]]
        BY <1>2 DEF Requeue
    <2>2. Current \in Threads => new \in TcbType /\ new.acq_locks = tcb[Current].acq_locks
        BY <1>0, RequeuedType, RequeueKeepsCount
    <2> HIDE DEF new
    <2>3. Current \in Threads => [new EXCEPT !.ran_since = TRUE].acq_locks = tcb[Current].acq_locks
        BY <2>2 DEF TcbType
    <2>4. QED
        BY <1>0, <2>1, <2>3 DEF CountsKept
<1>3. CASE Maintenance
    <2>1. CASE UNCHANGED tcb
        BY <2>1 DEF CountsKept
    <2>2. CASE \E t, prio : tcb' = [tcb EXCEPT ![t].priority = prio]
        BY <2>2, FieldKeepsCount
    <2>3. CASE MaintainEnd
        BY <1>0, <2>3 DEF MaintainEnd, CountsKept, TcbType
    <2>4. QED
        BY <1>3, <2>1, <2>2, <2>3 DEF Maintenance, MaintainNextQueue, MaintainKeep, MaintainMove
<1>4. CASE FreeGarbage \/ Dispatch \/ Teardown
    BY <1>4 DEF FreeGarbage, Dispatch, Teardown, CountsKept
<1>5. QED
    BY <1>1, <1>2, <1>3, <1>4 DEF Schedule

LEMMA CountStep ==
    ASSUME CountInv, HeadInv, UnbornInv, [Next]_vars, RetryInQuantum
    PROVE  CountInv'
<1> USE DEF Running, Calls, Return, LibraryFrame, pthreadVars, lockVars
<1>0. /\ TypeOK /\ tcb \in [Threads -> TcbType] /\ running \in Threads
      /\ pc \in [Threads -> Labels]
    BY DEF HeadInv, TypeOK
<1>1. CASE UNCHANGED vars \/ Halted \/ Compute \/ Tick
    BY <1>1, CountFrame DEF vars, schedVars, Halted, Compute, Tick, CountsKept, Locking
<1>2. CASE ScheduleStep
    BY <1>0, <1>2, CountFrame, HandlerKeepsCount DEF ScheduleStep, Locking
<1>3. CASE Raise
    <2>1. PICK label \in DOMAIN AfterRaise : Running(label) /\ Goto(AfterRaise[label])
        BY <1>3 DEF Raise
    <2>2. CountsKept /\ UNCHANGED << holds, tid, mtx >>
        BY <1>3 DEF Raise, CountsKept
    <2>3. QED
        BY <1>0, <2>1, <2>2, CountGoto DEF AfterRaise, LockLabels, Locking
<1>4. CASE FirstCreate
    <2>1. tid = 0 /\ running = Main /\ pc[Main] = "user"
        BY <1>4 DEF FirstCreate, HeadInv, BeforeFirstCreate
    <2>2. /\ holds' = holds /\ tid' = 2 /\ pc' = [pc EXCEPT ![1] = "user"] /\ mtx' = mtx
          /\ tcb' = [t \in Threads |-> IF t \in {1, Main} THEN FreshTcb("READY") ELSE tcb[t]]
        BY <1>4 DEF FirstCreate
    <2>3. \A t \in Threads : holds[t] = {}
        BY <2>1 DEF CountInv
    <2>4. Main # 1
        BY DEF Main
    <2>5. pc'[1] = "user" /\ pc'[Main] = "user" /\ \A t \in Threads \ {1} : pc'[t] = pc[t]
        BY <1>0, <2>1, <2>2, <2>4, Constants
    <2>6. \A t \in {1, Main} : tcb'[t].acq_locks = 0
        BY <2>2, Constants DEF FreshTcb
    <2>7. \A t \in Threads \ {1, Main} : tcb'[t] = tcb[t]
        BY <2>2
    <2>8. QED
        BY <2>2, <2>3, <2>5, <2>6, <2>7, FS_EmptySet DEF CountInv, Locking, LockLabels
<1>5. CASE CreateTcb
    <2>1. tid # 0 /\ tid + 1 \in Threads /\ pc[tid + 1] = "unborn" /\ pc[running] = "user"
        BY <1>0, <1>5, NextId DEF UnbornInv, CreateTcb
    <2>2. /\ holds' = holds /\ tid' # 0 /\ mtx' = mtx
          /\ tcb' = [tcb EXCEPT ![tid + 1] = FreshTcb("READY")]
          /\ pc' = [pc EXCEPT ![running] = "create_insert", ![tid + 1] = "user"]
        BY <1>0, <1>5, NextId DEF CreateTcb
    <2>3. holds[tid + 1] = {} /\ tcb'[tid + 1].acq_locks = 0
        BY <1>0, <2>1, <2>2 DEF CountInv, FreshTcb
    <2>4. tcb[tid + 1].acq_locks = 0
        BY <2>1, <2>3, FS_EmptySet DEF CountInv
    <2>5. CountsKept
        BY <1>0, <2>2, <2>3, <2>4 DEF CountsKept
    <2>6. QED
        BY <1>0, <2>1, <2>2, <2>5, CountFrame DEF Locking, LockLabels
<1>6. CASE CreateInsert \/ CreatePut \/ JoinDone
    <2>1. CountsKept /\ UNCHANGED << holds, tid >>
        BY <1>6 DEF CreateInsert, CreatePut, JoinDone, CountsKept
    <2>2. pc[running] # "unlock_restore" /\ (Goto("create_put") \/ Goto("user"))
        BY <1>6 DEF CreateInsert, CreatePut, JoinDone
    <2>3. \A t \in Threads \ {running} : mtx'[t] = mtx[t]
        BY <1>0, <1>6 DEF CreateInsert, CreatePut, JoinDone, TypeOK
    <2>4. QED
        BY <1>0, <2>1, <2>2, <2>3, CountGoto DEF LockLabels
<1>7. CASE Yield \/ Exit \/ ExitWake \/ ExitDone \/ JoinWait \/ JoinBlock
    <2>1. CountsKept
        <3>1. CASE Yield
            BY <1>0, <3>1 DEF Yield, CountsKept, TcbType
        <3>2. CASE Exit
            BY <3>2 DEF Exit, CountsKept
        <3>3. CASE ExitWake
            BY <1>0, <3>3 DEF ExitWake, CountsKept, TcbType
        <3>4. CASE ExitDone \/ JoinBlock
            BY <1>0, <3>4, FieldKeepsCount DEF ExitDone, JoinBlock
        <3>5. CASE JoinWait
            BY <1>0, <3>5 DEF JoinWait, CountsKept, TcbType
        <3>6. QED
            BY <1>7, <3>1, <3>2, <3>3, <3>4, <3>5
    <2>2. CASE ExitWake
        BY <2>1, <2>2, CountFrame DEF ExitWake, Locking
    <2>3. QED
        BY <1>0, <1>7, <2>1, <2>2, CountGoto DEF Yield, Exit, ExitDone, JoinWait, JoinBlock,
           LockLabels
<1>8. CASE \E target \in Threads : Join(target)
    <2>1. CountsKept /\ UNCHANGED << holds, tid, mtx >> /\ pc[running] = "user"
        BY <1>8 DEF Join, CountsKept
    <2>2. UNCHANGED pc \/ Goto("join_wait") \/ Goto("join_done")
        BY <1>8 DEF Join
    <2>3. CASE UNCHANGED pc
        BY <2>1, <2>3, CountFrame DEF Locking
    <2>4. QED
        BY <1>0, <2>1, <2>2, <2>3, CountGoto DEF LockLabels
<1>9. CASE \E m \in Mutexes : MutexInit(m) \/ MutexDestroy(m)
    BY <1>9, CountFrame DEF MutexInit, MutexDestroy, schedVars, CountsKept, Locking
<1>10. CASE LockBoost \/ LockBoostMove \/ LockYield
    <2>1. CountsKept
        <3>1. \/ tcb' = [tcb EXCEPT ![Boosted].priority = tcb[Current].priority]
              \/ tcb' = [tcb EXCEPT ![Current].cycles_left = -1]
            BY <1>10 DEF LockBoost, LockBoostMove, LockBoostPriority, LockYield
        <3>2. QED
            BY <1>0, <3>1, FieldKeepsCount
    <2>2. UNCHANGED << holds, tid, mtx >> /\ Locking(running) /\ pc[running] # "unlock_restore"
        BY <1>10 DEF LockBoost, LockBoostMove, LockBoostPriority, LockYield, Locking, LockLabels
    <2>3. Goto("lock_yield") \/ Goto("raise_retry")
        BY <1>10 DEF LockBoost, LockBoostMove, LockBoostPriority, LockYield
    <2>4. QED
        BY <1>0, <2>1, <2>2, <2>3, CountGoto DEF LockLabels
<1>11. CASE \E m \in Mutexes : LockTry(m) \/ LockHoist(m) \/ LockOwner(m) \/ LockAdjust(m)
    <2>1. PICK m \in Mutexes : LockTry(m) \/ LockHoist(m) \/ LockOwner(m) \/ LockAdjust(m)
        BY <1>11
    <2>2. CountsKept
        <3>1. \/ tcb' = tcb
              \/ \E left, prio : tcb' = [tcb EXCEPT ![Current] = [tcb[Current] EXCEPT
                                            !.cycles_left = left, !.priority = prio]]
            BY <2>1 DEF LockTry, LockHoist, LockOwner, LockAdjust
        <3>2. CASE tcb' = tcb
            BY <3>2 DEF CountsKept
        <3>3. ASSUME NEW left, NEW prio,
                     tcb' = [tcb EXCEPT ![Current] = [tcb[Current] EXCEPT
                                !.cycles_left = left, !.priority = prio]]
              PROVE  CountsKept
            BY <1>0, <3>3 DEF CountsKept, TcbType
        <3>4. QED
            BY <3>1, <3>2, <3>3
    <2>3. UNCHANGED << holds, tid, mtx >> /\ Locking(running)
        BY <2>1 DEF LockTry, LockHoist, LockOwner, LockAdjust, Locking, LockLabels
    <2>4. UNCHANGED pc \/ \E label \in LockLabels : Goto(label)
        BY <2>1 DEF LockTry, LockHoist, LockOwner, LockAdjust, AfterHoist, LockLabels
    <2>5. CASE UNCHANGED pc
        BY <2>2, <2>3, <2>5, CountFrame DEF Locking
    <2>6. CASE \E label \in LockLabels : Goto(label)
        BY <1>0, <2>2, <2>3, <2>6, CountGoto DEF LockLabels, Locking
    <2>7. QED
        BY <2>4, <2>5, <2>6
<1>12. CASE \E m \in Mutexes : Lock(m)
    <2>1. PICK m \in Mutexes : Lock(m)
        BY <1>12
    <2>2. /\ holds' = holds /\ tid' = tid /\ tcb' = tcb /\ m \notin holds[running]
          /\ pc' = [pc EXCEPT ![running] = "lock_try"] /\ pc[running] = "user"
          /\ mtx' = [mtx EXCEPT ![running] = m] /\ mtx \in [Threads -> Mutexes \cup {NoMutex}]
        BY <1>0, <2>1 DEF Lock, Goto, TypeOK
    <2>3. QED
        BY <1>0, <2>2 DEF CountInv, Locking, LockLabels
<1>13. CASE \E m \in Mutexes : LockExit(m)
    <2>1. PICK m \in Mutexes : LockExit(m)
        BY <1>13
    <2>2. Current = running
        BY <2>1, InLibrary, CurrentIsRunning DEF LockExit
    <2>3. /\ tcb' = [tcb EXCEPT ![running].acq_locks = @ + 1] /\ tid' = tid
          /\ holds' = [holds EXCEPT ![running] = @ \cup {m}] /\ holds \in [Threads -> SUBSET Mutexes]
          /\ pc[running] = "lock_exit" /\ pc' = [pc EXCEPT ![running] = "user"]
          /\ mtx' = [mtx EXCEPT ![running] = NoMutex] /\ mtx \in [Threads -> Mutexes \cup {NoMutex}]
        BY <1>0, <2>1, <2>2 DEF LockExit, Goto, TypeOK
    <2>4. m \notin holds[running] /\ IsFiniteSet(holds[running])
        BY <1>0, <2>1 DEF CountInv, Locking, LockLabels, LockExit
    <2>5. /\ IsFiniteSet(holds[running] \cup {m})
          /\ Cardinality(holds[running] \cup {m}) = Cardinality(holds[running]) + 1
        BY <2>4, FS_AddElement
    <2>6. tid # 0
        BY <2>1, InLibrary DEF LockExit, Live
    <2>7. \A t \in Threads \ {running} :
              tcb'[t] = tcb[t] /\ holds'[t] = holds[t] /\ pc'[t] = pc[t] /\ mtx'[t] = mtx[t]
        BY <1>0, <2>3
    <2>8. /\ tcb'[running].acq_locks = tcb[running].acq_locks + 1 /\ pc'[running] = "user"
          /\ holds'[running] = holds[running] \cup {m}
        BY <1>0, <2>3 DEF TcbType
    <2>9. tcb[running].acq_locks = Cardinality(holds[running])
        BY <1>0, <2>3, <2>4, FS_CardinalityType DEF CountInv
    <2>10. QED
        BY <1>0, <2>3, <2>5, <2>6, <2>7, <2>8, <2>9, FS_CardinalityType
        DEF CountInv, Locking, LockLabels
<1>14. CASE \E m \in Mutexes : Unlock(m)
    <2>1. PICK m \in Mutexes : Unlock(m)
        BY <1>14
    <2>2. /\ tcb' = tcb /\ tid' = tid /\ tid # 0 /\ m \in holds[running]
          /\ holds' = [holds EXCEPT ![running] = @ \ {m}] /\ holds \in [Threads -> SUBSET Mutexes]
          /\ pc[running] = "user" /\ pc' = [pc EXCEPT ![running] = "unlock_restore"]
          /\ mtx' = [mtx EXCEPT ![running] = m] /\ mtx \in [Threads -> Mutexes \cup {NoMutex}]
        BY <1>0, <2>1 DEF Unlock, Goto, TypeOK
    <2>3. /\ IsFiniteSet(holds[running]) /\ IsFiniteSet(holds[running] \ {m})
          /\ Cardinality(holds[running] \ {m}) = Cardinality(holds[running]) - 1
        BY <1>0, <2>2, FS_RemoveElement DEF CountInv
    <2>4. \A t \in Threads \ {running} :
              holds'[t] = holds[t] /\ pc'[t] = pc[t] /\ mtx'[t] = mtx[t]
        BY <1>0, <2>2
    <2>5. holds'[running] = holds[running] \ {m} /\ pc'[running] = "unlock_restore"
        BY <1>0, <2>2
    <2>6. tcb[running].acq_locks = Cardinality(holds[running])
        BY <1>0, <2>2, <2>3, FS_CardinalityType DEF CountInv
    <2>7. QED
        BY <1>0, <2>2, <2>3, <2>4, <2>5, <2>6, FS_CardinalityType DEF CountInv, Locking, LockLabels
<1>15. CASE \E m \in Mutexes : UnlockRestore(m)
    <2>1. PICK m \in Mutexes : UnlockRestore(m)
        BY <1>15
    <2>2. Current = running
        BY <2>1, InLibrary, CurrentIsRunning DEF UnlockRestore
    <2>3. /\ tid' = tid /\ holds' = holds /\ pc[running] = "unlock_restore"
          /\ pc' = [pc EXCEPT ![running] = "user"]
          /\ mtx' = [mtx EXCEPT ![running] = NoMutex] /\ mtx \in [Threads -> Mutexes \cup {NoMutex}]
        BY <1>0, <2>1 DEF UnlockRestore, Goto, TypeOK
    <2>4. /\ tcb'[running].acq_locks = tcb[running].acq_locks - 1
          /\ \A t \in Threads \ {running} : tcb'[t] = tcb[t]
        BY <1>0, <2>1, <2>2 DEF UnlockRestore, TcbType
    <2>5. tcb[running].acq_locks = Cardinality(holds[running]) + 1
        BY <1>0, <2>3 DEF CountInv
    <2>6. \A t \in Threads \ {running} : pc'[t] = pc[t] /\ mtx'[t] = mtx[t]
        BY <1>0, <2>3
    <2>7. pc'[running] = "user"
        BY <1>0, <2>3
    <2>8. IsFiniteSet(holds[running]) /\ Cardinality(holds[running]) \in Nat
        BY <1>0, FS_CardinalityType DEF CountInv
    <2>9. QED
        BY <1>0, <2>3, <2>4, <2>5, <2>6, <2>7, <2>8 DEF CountInv, Locking, LockLabels
<1>16. ~RetryStep
    BY RetryFrame DEF Interruptible
<1>17. QED
    BY <1>1, <1>2, <1>3, <1>4, <1>5, <1>6, <1>7, <1>8, <1>9, <1>10, <1>11, <1>12, <1>13, <1>14,
       <1>15, <1>16 DEF Next, LibraryStep, UserCall

\* Where a waiter's next try is not interrupted, acq_locks is the number of mutexes
\* a thread has, so that the handler neither ages a holder nor spares a thread that
\* holds nothing.
THEOREM LocksCounted == RetryInQuantum /\ Spec => []LockCount
<1>1. Init => CountInv /\ UnbornInv
    <2>1. Cardinality({}) = 0 /\ IsFiniteSet({})
        BY FS_EmptySet
    <2>2. QED
        BY <2>1 DEF Init, CountInv, UnbornInv, FreshTcb, Locking, LockLabels
<1>2. CountInv => LockCount
    BY DEF CountInv, LockCount
<1>3. ASSUME RetryInQuantum PROVE Spec => []LockCount
    <2>1. CountInv /\ HeadInv /\ UnbornInv /\ [Next]_vars => CountInv' /\ UnbornInv'
        BY <1>3, CountStep, UnbornStep DEF HeadInv
    <2>2. QED
        BY <1>1, <1>2, <2>1, HeadInvariant, PTL DEF Spec
<1>4. QED
    BY <1>3

================================================================================
