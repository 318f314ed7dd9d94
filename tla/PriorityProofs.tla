---------------------------- MODULE PriorityProofs -----------------------------
(***************************************************************************)
(* Where a waiter tries again and yields in one quantum, a queued thread   *)
(* is in the queue of its priority, although calls that hoist a mutex's    *)
(* holder, the handler, and its maintenance of the queues all change       *)
(* priorities; and hoisting does what it is for: the holder of a mutex is  *)
(* no worse than the waiters that yield to it.                             *)
(***************************************************************************)
EXTENDS JoinProofs

USE DEF BoostLabels, WaiterLabels, OwnerLabels, LockLabels

-----------------------------------------------------------------------------
(* The invariant *)

\* The thread on the CPU is in the queue it was in when it was switched in.
PlacedInv ==
    Live => \A prio \in Prios : \A t \in Threads :
        Placed(ready_q, prio, t) => OnCpu(t) \/ prio = QueueFor(tcb[t].priority)

\* A thread that holds a mutex or is about to be hoisted.
Hoistable(t) ==
    \/ \E m \in Mutexes : mutex[m].owner = t
    \/ \E c \in Threads : pc[c] = "lock_boost" /\ arg[c] = t

\* A thread that is about to be inserted has the priority it began with: it has
\* not run, so that it has no mutex for which it could be hoisted.
FreshInv ==
    /\ tid = 0 => \A m \in Mutexes : mutex[m].owner = NoThread
    /\ Live => \A t \in Threads :
          /\ Pending(t) => tcb[t].priority = 0
          /\ Hoistable(t) => tcb[t].status # "UNBORN" /\ ~Pending(t)

LEMMA PlacedIsIn ==
    ASSUME NEW q, NEW t
    PROVE  IsIn(q, t) <=> \E prio \in Prios : Placed(q, prio, t)
BY DEF IsIn, Placed

LEMMA PlacedQueue ==
    ASSUME TypeOK
    PROVE  QueueOfPriority <=> PlacedInv
<1>1. \A prio \in Prios : \A k \in DOMAIN ready_q[prio] : ready_q[prio][k] \in Threads
    BY ElementOfSeq, LenProperties DEF TypeOK
<1>2. \A t \in Threads : Least(tcb[t].priority, NUM_QUEUES - 1) = QueueFor(tcb[t].priority)
    <2>1. \A t \in Threads : tcb[t].priority \in Nat
        BY DEF TypeOK, TcbType
    <2>2. ASSUME NEW prio \in Nat PROVE Least(prio, NUM_QUEUES - 1) = QueueFor(prio)
        BY SchedulerAssumption DEF Least, QueueFor
    <2>3. QED
        BY <2>1, <2>2
<1>3. ASSUME QueueOfPriority, Live, NEW prio \in Prios, NEW t \in Threads,
             Placed(ready_q, prio, t)
      PROVE  OnCpu(t) \/ prio = QueueFor(tcb[t].priority)
    BY <1>2, <1>3 DEF QueueOfPriority, Placed
<1>4. ASSUME PlacedInv, Live, NEW prio \in Prios, NEW k \in DOMAIN ready_q[prio]
      PROVE  \/ OnCpu(ready_q[prio][k])
             \/ prio = Least(tcb[ready_q[prio][k]].priority, NUM_QUEUES - 1)
    <2>1. ready_q[prio][k] \in Threads /\ Placed(ready_q, prio, ready_q[prio][k])
        BY <1>1 DEF Placed
    <2>2. QED
        BY <1>2, <1>4, <2>1 DEF PlacedInv
<1>5. QED
    BY <1>3, <1>4 DEF QueueOfPriority, PlacedInv

-----------------------------------------------------------------------------
(* The handler *)

LEMMA EntryPlaced ==
    ASSUME HeadInv, JoinInv, PlacedInv, UNCHANGED tid, KeepRunning \/ Requeue \/ Leave
    PROVE  PlacedInv'
<1>1. Live /\ handler = "schedule" /\ UNCHANGED running
    BY DEF KeepRunning, Requeue, Leave, Entry, HeadInv, BeforeFirstCreate, Live
<1>2. /\ Current = running /\ running \in Threads /\ ready_q[curr_prio] # << >>
      /\ ready_q \in ReadyQType /\ curr_prio \in Prios
      /\ tcb \in [Threads -> TcbType] /\ tcb[running] \in TcbType
    BY <1>1, CurrentIsRunning DEF HeadInv, TypeOK, ReadyQType
<1> DEFINE shorter == [ready_q EXCEPT ![curr_prio] = Tail(@)]
<1>3. /\ shorter \in ReadyQType
      /\ \A u : IsIn(shorter, u) => u # running
      /\ \A p \in Prios : \A u : Placed(shorter, p, u) => Placed(ready_q, p, u)
    BY <1>1, <1>2, LeaveQueue DEF JoinInv, RunInv, QueueInv, Current
<1> HIDE DEF shorter
<1>4. \A p \in Prios : \A u \in Threads :
          Placed(shorter, p, u) => u # running /\ p = QueueFor(tcb[u].priority)
    BY <1>1, <1>3, PlacedIsIn DEF PlacedInv, OnCpu
<1>5. CASE KeepRunning
    <2> DEFINE left == tcb[running].cycles_left - 1
    <2>1. /\ tcb' = [tcb EXCEPT ![running] =
                        [tcb[running] EXCEPT !.cycles_left = left, !.ran_since = TRUE]]
          /\ UNCHANGED ready_q /\ handler' = "idle"
        BY <1>2, <1>5 DEF KeepRunning
    <2>2. \A t \in Threads \ {running} : tcb'[t] = tcb[t]
        BY <1>2, <2>1
    <2>3. QED
        BY <1>1, <2>1, <2>2 DEF PlacedInv, OnCpu, Placed
<1>6. CASE Requeue
    <2> DEFINE new == Requeued(tcb[running])
    <2>1. /\ tcb' = [tcb EXCEPT ![running] = [new EXCEPT !.ran_since = TRUE]]
          /\ ready_q' = insert_ready_q(shorter, running, new.priority)
        BY <1>2, <1>6 DEF Requeue, shorter
    <2>2. new \in TcbType /\ new.priority \in Nat
        BY <1>2, RequeuedType, RanFields
    <2> HIDE DEF new
    <2>3. /\ tcb'[running].priority = new.priority
          /\ \A t \in Threads \ {running} : tcb'[t] = tcb[t]
        BY <1>2, <2>1, <2>2 DEF TcbType
    <2>4. \A p \in Prios : \A u : Placed(ready_q', p, u) =>
              Placed(shorter, p, u) \/ (u = running /\ p = QueueFor(new.priority))
        BY <1>2, <1>3, <2>1, <2>2, InsertQueued
    <2>5. \A p \in Prios : \A u \in Threads :
              Placed(ready_q', p, u) => p = QueueFor(tcb'[u].priority)
        BY <1>4, <2>3, <2>4
    <2>6. QED
        BY <2>5 DEF PlacedInv, Placed
<1>7. CASE Leave
    <2>1. tcb' = [tcb EXCEPT ![running].ran_since = TRUE] /\ ready_q' = shorter
        BY <1>2, <1>7 DEF Leave, shorter
    <2>2. \A t \in Threads \ {running} : tcb'[t] = tcb[t]
        BY <1>2, <2>1
    <2>3. \A p \in Prios : \A u \in Threads :
              Placed(ready_q', p, u) => p = QueueFor(tcb'[u].priority)
        BY <1>4, <2>1, <2>2
    <2>4. QED
        BY <2>3 DEF PlacedInv, Placed
<1>8. QED
    BY <1>5, <1>6, <1>7

LEMMA MaintenancePlaced ==
    ASSUME HeadInv, JoinInv, PlacedInv, UNCHANGED tid, Maintenance
    PROVE  PlacedInv' /\ \A t \in Threads : Pending(t) => tcb'[t].priority = tcb[t].priority
<1>1. /\ Live /\ handler = "maintain" /\ tcb \in [Threads -> TcbType] /\ ready_q \in ReadyQType
    BY DEF Maintenance, MaintainNextQueue, MaintainKeep, MaintainMove, MaintainEnd, Scanning,
       HeadInv, BeforeFirstCreate, Live, TypeOK, ReadyQType
<1>2. \A prio \in Prios : \A t \in Threads :
          Placed(ready_q, prio, t) => prio = QueueFor(tcb[t].priority)
    BY <1>1 DEF PlacedInv, OnCpu
<1>3. CASE UNCHANGED ready_q /\ \A t \in Threads : tcb'[t].priority = tcb[t].priority
    BY <1>2, <1>3 DEF PlacedInv, Placed
<1>4. ASSUME NEW queue \in 1 .. NUM_QUEUES - 1, MaintainMove(queue)
      PROVE  PlacedInv' /\ \A t \in Threads : Pending(t) => tcb'[t].priority = tcb[t].priority
    <2> DEFINE k == scan[2]
               t == ready_q[queue][k]
    <2>1. queue \in Prios /\ scan[1] = queue /\ k \in Nat \ {0}
        BY <1>4, SchedulerAssumption DEF MaintainMove, Scanning, Prios, HeadInv, TypeOK
    <2>2. ready_q[queue] \in Seq(Threads) /\ Len(ready_q[queue]) \in Nat
        BY <1>1, <2>1, LenProperties DEF ReadyQType
    <2>3. k \in DOMAIN ready_q[queue]
        BY <1>4, <2>1, <2>2, LenProperties DEF MaintainMove, AtListEnd
    <2>4. t \in Threads /\ IsIn(ready_q, t)
        BY <2>1, <2>2, <2>3, ElementOfSeq, LenProperties DEF IsIn
    <2>5. ScannedThread = t
        BY <2>1 DEF ScannedThread
    <2>6. PICK new : /\ new \in NewPriorities(t, queue)
                     /\ tcb' = [tcb EXCEPT ![t].priority = new]
                     /\ ready_q' = Unlink(insert_ready_q(ready_q, t, new), queue, k)
        BY <1>4, <2>5 DEF MaintainMove
    <2>7. new \in Nat
        BY <2>6 DEF NewPriorities
    <2> HIDE DEF k
    <2>8. \A p \in Prios : \A u : Placed(ready_q', p, u) =>
              IF u = t THEN p = QueueFor(new) ELSE Placed(ready_q, p, u)
        BY <1>1, <2>1, <2>3, <2>6, <2>7, MoveNode DEF JoinInv, RunInv, QueueInv
    <2> HIDE DEF t
    <2>9. tcb'[t].priority = new /\ \A u \in Threads \ {t} : tcb'[u] = tcb[u]
        BY <1>1, <2>4, <2>6 DEF TcbType
    <2>10. \A p \in Prios : \A u \in Threads :
               Placed(ready_q', p, u) => p = QueueFor(tcb'[u].priority)
        BY <1>2, <2>8, <2>9
    <2>11. ~Pending(t)
        BY <1>1, <2>4 DEF JoinInv, RunInv, QueueInv
    <2>12. QED
        BY <2>9, <2>10, <2>11 DEF PlacedInv, Placed
<1>5. CASE MaintainEnd
    BY <1>1, <1>3, <1>5 DEF MaintainEnd, TcbType
<1>6. QED
    BY <1>3, <1>4, <1>5 DEF Maintenance, MaintainNextQueue, MaintainKeep

LEMMA SchedulePlaced ==
    ASSUME HeadInv, JoinInv, PlacedInv, Live, ScheduleStep
    PROVE  PlacedInv'
<1>1. UNCHANGED tid
    BY DEF ScheduleStep, pthreadVars
<1>2. CASE FreeGarbage \/ Teardown
    BY <1>2 DEF FreeGarbage, Teardown, PlacedInv, Live
<1>3. CASE Dispatch
    <2>1. handler = "dispatch" /\ UNCHANGED << ready_q, tcb >>
        BY <1>3 DEF Dispatch
    <2>2. QED
        BY <2>1 DEF PlacedInv, Placed, OnCpu
<1>4. QED
    BY <1>1, <1>2, <1>3, EntryPlaced, MaintenancePlaced DEF ScheduleStep, Schedule

\* The thread that is switched out is not one that waits to be inserted.
LEMMA SchedulePending ==
    ASSUME HeadInv, JoinInv, PlacedInv, Live, ScheduleStep, NEW t \in Threads, Pending(t)
    PROVE  tcb'[t].priority = tcb[t].priority
<1>1. tcb \in [Threads -> TcbType] /\ UNCHANGED tid
    BY DEF HeadInv, TypeOK, ScheduleStep, pthreadVars
<1>2. CASE KeepRunning \/ Requeue \/ Leave
    <2>1. handler = "schedule"
        BY <1>2 DEF KeepRunning, Requeue, Leave, Entry
    <2>2. t # Current
        BY <2>1, RunningQueued, CurrentIsRunning
    <2>3. \E r : tcb' = [tcb EXCEPT ![Current] = r]
        BY <1>2 DEF KeepRunning, Requeue, Leave
    <2>4. QED
        BY <1>1, <2>2, <2>3
<1>3. CASE FreeGarbage \/ Dispatch \/ Teardown
    BY <1>3 DEF FreeGarbage, Dispatch, Teardown
<1>4. QED
    BY <1>1, <1>2, <1>3, MaintenancePlaced DEF ScheduleStep, Schedule

-----------------------------------------------------------------------------
(* The calls *)

\* While the handler runs, nothing else does.
LEMMA BusyStep ==
    ASSUME RetryInQuantum, [Next]_vars, ~ScheduleStep, handler # "idle"
    PROVE  UNCHANGED vars
<1>1. \A label : ~Running(label)
    BY DEF Running
<1>2. ~Tick
    BY DEF Tick
<1>3. ~LibraryStep
    BY QuietRetry, <1>1 DEF LibraryStep, Raise, CreateInsert, CreatePut, ExitWake, ExitDone, JoinWait,
       JoinBlock, JoinDone, LockBoost, LockBoostMove, LockBoostPriority, LockYield, LockTry,
       LockHoist, LockOwner, LockAdjust, LockExit, UnlockRestore
<1>4. ~UserCall
    BY <1>1 DEF UserCall, Calls, Compute, FirstCreate, CreateTcb, Yield, Exit, Join, MutexInit,
       MutexDestroy, Lock, Unlock
<1>5. QED
    BY <1>2, <1>3, <1>4 DEF Next, Halted

\* A call changes the numbers of the thread that makes it, but for the creation
\* of a thread and the hoisting of one.
LEMMA OwnPriority ==
    ASSUME RetryInQuantum,
           HeadInv, Live, [Next]_vars, ~ScheduleStep, ~CreateTcb, ~LockBoost, ~LockBoostMove
    PROVE  \A t \in Threads \ {running} : tcb'[t].priority = tcb[t].priority
<1>1. tcb \in [Threads -> TcbType] /\ running \in Threads
    BY DEF HeadInv, TypeOK
<1>2. CASE UNCHANGED tcb
    BY <1>2
<1>3. CASE PlainCall
    <2>1. handler = "idle"
        BY <1>3 DEF PlainCall, Exit, JoinDone, CreatePut, Yield, LockYield, Lock, LockTry,
           LockHoist, LockOwner, LockAdjust, LockExit, Unlock, UnlockRestore, Calls, Running
    <2>2. Current = running
        BY <2>1, CurrentIsRunning
    <2>3. UNCHANGED tcb \/ \E r : tcb' = [tcb EXCEPT ![running] = r]
        BY <1>3, <2>2 DEF PlainCall, Exit, JoinDone, CreatePut, Yield, LockYield, Lock, LockTry,
           LockHoist, LockOwner, LockAdjust, LockExit, Unlock, UnlockRestore
    <2>4. QED
        BY <1>1, <2>3
<1>4. CASE ExitWake \/ ExitDone \/ JoinWait \/ JoinBlock
    <2>1. \/ \E s, w : tcb' = [tcb EXCEPT ![Current].waited_on = s, ![w].status = "READY"]
          \/ \E s, w : tcb' = [tcb EXCEPT ![w].waited_on = s]
          \/ \E w, v : tcb' = [tcb EXCEPT ![w].status = v]
        BY <1>4 DEF ExitWake, ExitDone, JoinWait, JoinBlock
    <2>2. ASSUME NEW s, NEW w, tcb' = [tcb EXCEPT ![w].waited_on = s], NEW t \in Threads
          PROVE  tcb'[t].priority = tcb[t].priority
        BY <1>1, <2>2 DEF TcbType
    <2>3. ASSUME NEW v, NEW w, tcb' = [tcb EXCEPT ![w].status = v], NEW t \in Threads
          PROVE  tcb'[t].priority = tcb[t].priority
        BY <1>1, <2>3 DEF TcbType
    <2>4. ASSUME NEW s, NEW w, tcb' = [tcb EXCEPT ![Current].waited_on = s, ![w].status = "READY"],
                 NEW t \in Threads
          PROVE  tcb'[t].priority = tcb[t].priority
        BY <1>1, <2>4 DEF TcbType
    <2>5. QED
        BY <2>1, <2>2, <2>3, <2>4
<1>5. CASE Tick \/ Raise \/ CreateInsert \/ Compute \/ Halted \/ UNCHANGED vars
    BY <1>2, <1>5 DEF Tick, Raise, CreateInsert, Compute, Halted, vars, schedVars
<1>6. ASSUME NEW t, Join(t) PROVE UNCHANGED tcb
    BY <1>6 DEF Join
<1>7. ASSUME NEW m, MutexInit(m) \/ MutexDestroy(m) PROVE UNCHANGED tcb
    BY <1>7 DEF MutexInit, MutexDestroy, schedVars
<1>8. ~FirstCreate
    BY DEF FirstCreate, Live
<1>9. QED
    BY QuietRetry, <1>2, <1>3, <1>4, <1>5, <1>6, <1>7, <1>8 DEF Next, LibraryStep, UserCall, PlainCall

\* The queues change when a thread is inserted or hoisted.
LEMMA SameQueues ==
    ASSUME RetryInQuantum, Live, [Next]_vars, ~ScheduleStep, ~CreateInsert, ~ExitWake, ~LockBoostMove
    PROVE  UNCHANGED ready_q
<1>1. CASE Tick \/ Raise \/ Compute \/ Halted \/ UNCHANGED vars
    BY <1>1 DEF Tick, Raise, Compute, Halted, vars, schedVars
<1>2. CASE CreateTcb \/ ExitDone \/ JoinWait \/ JoinBlock \/ LockBoost
    BY <1>2 DEF CreateTcb, ExitDone, JoinWait, JoinBlock, LockBoost
<1>3. CASE PlainCall
    BY <1>3 DEF PlainCall, Exit, JoinDone, CreatePut, Yield, LockYield, Lock, LockTry,
       LockHoist, LockOwner, LockAdjust, LockExit, Unlock, UnlockRestore
<1>4. ASSUME NEW t, Join(t) PROVE UNCHANGED ready_q
    BY <1>4 DEF Join
<1>5. ASSUME NEW m, MutexInit(m) \/ MutexDestroy(m) PROVE UNCHANGED ready_q
    BY <1>5 DEF MutexInit, MutexDestroy, schedVars
<1>6. ~FirstCreate
    BY DEF FirstCreate, Live
<1>7. QED
    BY QuietRetry, <1>1, <1>2, <1>3, <1>4, <1>5, <1>6 DEF Next, LibraryStep, UserCall, PlainCall

\* A mutex gets a new owner by the owner's own call.
LEMMA OwnerStep ==
    ASSUME RetryInQuantum, HeadInv, JoinInv, [Next]_vars, NEW m \in Mutexes
    PROVE  \/ mutex'[m].owner \in {mutex[m].owner, NoThread}
           \/ /\ Live /\ mutex'[m].owner = running
              /\ tcb[running].status = "READY" /\ ~Pending(running)
<1>1. mutex \in [Mutexes -> MutexType]
    BY DEF HeadInv, TypeOK
<1>2. CASE UNCHANGED mutex
    BY <1>2
<1>3. ASSUME NEW n \in Mutexes, LockOwner(n)
      PROVE  \/ mutex'[m].owner \in {mutex[m].owner, NoThread}
             \/ /\ Live /\ mutex'[m].owner = running
                /\ tcb[running].status = "READY" /\ ~Pending(running)
    <2>1. /\ Live /\ handler = "idle" /\ pc[running] = "lock_owner"
          /\ mutex' = [mutex EXCEPT ![n].owner = Current]
        BY <1>3, InLibrary DEF LockOwner, Running
    <2>2. Current = running /\ ~Pending(running) /\ tcb[running].status = "READY"
        BY <2>1, CurrentIsRunning, RunningQueued DEF JoinInv, RunInv, StopInv
    <2>3. mutex'[m].owner \in {mutex[m].owner, running}
        BY <1>1, <2>1, <2>2 DEF MutexType
    <2>4. QED
        BY <2>1, <2>2, <2>3
<1>4. ASSUME NEW n \in Mutexes, LockAdjust(n)
      PROVE  mutex'[m].owner = mutex[m].owner
    <2> DEFINE own == tcb[Current].priority
               hoisted == Least(mutex[n].hoisted_priority, own)
               lowered(h, p) == [mutex[n] EXCEPT !.hoisted_priority = h,
                                                 !.holding_thread_priority = p]
    <2>1. \/ mutex' = [mutex EXCEPT ![n] = lowered(INT8_MAX, curr_prio)]
          \/ mutex' = [mutex EXCEPT ![n] = lowered(hoisted, own)]
          \/ mutex' = [mutex EXCEPT ![n].hoisted_priority = hoisted]
        BY <1>4 DEF LockAdjust
    <2>2. \A h, p : lowered(h, p).owner = mutex[n].owner
        BY <1>1 DEF MutexType
    <2> HIDE DEF own, hoisted, lowered
    <2>3. QED
        BY <1>1, <2>1, <2>2 DEF MutexType
<1>5. ASSUME NEW n \in Mutexes, MutexInit(n)
      PROVE  mutex'[m].owner \in {mutex[m].owner, NoThread}
    BY <1>1, <1>5 DEF MutexInit, FreshMutex, MutexType
<1>6. ASSUME NEW n \in Mutexes,
             MutexDestroy(n) \/ LockTry(n) \/ LockHoist(n) \/ Unlock(n)
      PROVE  mutex'[m].owner = mutex[m].owner
    BY <1>1, <1>6 DEF MutexDestroy, LockTry, LockHoist, Unlock, MutexType
<1>7. ASSUME NEW n \in Mutexes, Lock(n) \/ LockExit(n) \/ UnlockRestore(n)
      PROVE  UNCHANGED mutex
    BY <1>7 DEF Lock, LockExit, UnlockRestore, lockVars, Return
<1>8. CASE ScheduleStep \/ Tick \/ Raise \/ Compute \/ Halted \/ UNCHANGED vars
    BY <1>2, <1>8 DEF ScheduleStep, pthreadVars, Tick, Raise, Compute, Halted, vars, lockVars
<1>9. CASE \/ CreateTcb \/ CreateInsert \/ CreatePut \/ ExitWake \/ ExitDone \/ JoinWait
           \/ JoinBlock \/ JoinDone \/ LockBoost \/ LockBoostMove \/ LockYield \/ Yield \/ Exit
           \/ \E t \in Threads : Join(t)
    BY <1>2, <1>9 DEF CreateTcb, CreateInsert, CreatePut, ExitWake, ExitDone, JoinWait, JoinBlock,
       JoinDone, LockBoost, LockBoostMove, LockBoostPriority, LockYield, Yield, Exit, Join,
       lockVars, pthreadVars, Return
<1>10. CASE FirstCreate
    BY <1>2, <1>10 DEF FirstCreate, lockVars
<1>11. QED
    BY QuietRetry, <1>2, <1>3, <1>4, <1>5, <1>6, <1>7, <1>8, <1>9, <1>10 DEF Next, LibraryStep, UserCall

\* A thread goes to hoist the owner of the mutex it waits for.
LEMMA BoostStep ==
    ASSUME RetryInQuantum,
           HeadInv, Live, [Next]_vars, ~CreateTcb, NEW c \in Threads, pc'[c] = "lock_boost"
    PROVE  \/ pc[c] = "lock_boost" /\ arg'[c] = arg[c]
           \/ \E m \in Mutexes : arg'[c] = mutex[m].owner /\ arg'[c] # NoThread
<1>1. /\ pc \in [Threads -> Labels] /\ running \in Threads
      /\ arg \in [Threads -> Threads \cup {NoThread}] /\ all_threads \subseteq Threads
    BY DEF HeadInv, TypeOK
<1>2. CASE UNCHANGED << pc, arg >>
    BY <1>2
<1>3. CASE c # running
    <2>1. UNCHANGED << pc, arg >> \/ CallStep
        BY LiveStep DEF ScheduleStep, pthreadVars
    <2>2. QED
        BY <1>2, <1>3, <2>1 DEF CallStep
<1>4. ASSUME NEW m \in Mutexes, LockHoist(m)
      PROVE  \/ pc[c] = "lock_boost" /\ arg'[c] = arg[c]
             \/ \E n \in Mutexes : arg'[c] = mutex[n].owner /\ arg'[c] # NoThread
    <2>1. CASE c = running
        <3>1. \/ UNCHANGED << pc, arg >>
              \/ Goto("lock_yield")
              \/ arg' = [arg EXCEPT ![running] = mutex[m].owner] /\ mutex[m].owner \in all_threads
            BY <1>4 DEF LockHoist
        <3>2. ~Goto("lock_yield")
            BY <1>1, <2>1 DEF Goto
        <3>3. QED
            BY <1>1, <1>2, <2>1, <3>1, <3>2, Constants
    <2>2. QED
        BY <1>3, <2>1
<1>5. ASSUME c = running PROVE ~\E label : label # "lock_boost" /\ Goto(label)
    BY <1>1, <1>5 DEF Goto
<1>6. CASE c = running /\ ~\E m \in Mutexes : LockHoist(m)
    <2>1. UNCHANGED << pc, arg >> \/ \E label : label # "lock_boost" /\ Goto(label)
        <3>1. CASE ScheduleStep \/ Tick \/ Compute \/ Halted \/ UNCHANGED vars
            BY <3>1 DEF ScheduleStep, pthreadVars, Tick, Compute, Halted, vars
        <3>2. CASE Raise
            BY <3>2 DEF Raise, AfterRaise
        <3>3. CASE \/ CreateInsert \/ CreatePut \/ ExitWake \/ ExitDone \/ JoinWait
                   \/ JoinBlock \/ JoinDone \/ LockBoost \/ LockBoostMove \/ LockYield
                   \/ Yield \/ Exit \/ \E t \in Threads : Join(t)
            BY <3>3 DEF CreateInsert, CreatePut, ExitWake, ExitDone, JoinWait, JoinBlock, JoinDone,
               LockBoost, LockBoostMove, LockBoostPriority, LockYield, Yield, Exit, Join,
               pthreadVars, Return
        <3>4. CASE \E m \in Mutexes : \/ MutexInit(m) \/ MutexDestroy(m) \/ Lock(m) \/ LockTry(m)
                                      \/ LockOwner(m) \/ LockAdjust(m) \/ LockExit(m)
                                      \/ Unlock(m) \/ UnlockRestore(m)
            BY <3>4 DEF MutexInit, MutexDestroy, Lock, LockTry, LockOwner, LockAdjust, LockExit,
               Unlock, UnlockRestore, Return
        <3>5. ~FirstCreate
            BY DEF FirstCreate, Live
        <3>6. QED
            BY QuietRetry, <1>6, <3>1, <3>2, <3>3, <3>4, <3>5 DEF Next, LibraryStep, UserCall
    <2>2. QED
        BY <1>2, <1>5, <1>6, <2>1
<1>7. QED
    BY <1>3, <1>4, <1>6

\* Only the thread that makes a call starts to insert a thread.
LEMMA PendingStep ==
    ASSUME RetryInQuantum, HeadInv, Live, [Next]_vars, ~CreateTcb
    PROVE  \A t : Pending(t)' => Pending(t)
<1>1. CASE ScheduleStep
    BY <1>1 DEF ScheduleStep, pthreadVars, Pending
<1>2. CASE CallStep
    BY <1>2 DEF CallStep, Pending
<1>3. QED
    BY <1>1, <1>2, LiveStep

\* A call that hoists a thread changes the number of that one.
LEMMA BoostPriority ==
    ASSUME HeadInv, LockBoost \/ LockBoostMove
    PROVE  /\ Live /\ handler = "idle" /\ pc[running] = "lock_boost" /\ arg[running] \in Threads
           /\ tcb'[Boosted].priority = tcb[Current].priority
           /\ \A t \in Threads \ {Boosted} : tcb'[t].priority = tcb[t].priority
           /\ UNCHANGED << running, handler, tid >>
<1>1. /\ Live /\ handler = "idle" /\ pc[running] = "lock_boost"
      /\ tcb' = [tcb EXCEPT ![Boosted].priority = tcb[Current].priority]
      /\ UNCHANGED << running, handler, tid >>
    BY InLibrary DEF LockBoost, LockBoostMove, LockBoostPriority, Running, LibraryFrame
<1>2. Boosted \in Threads /\ tcb \in [Threads -> TcbType]
    BY <1>1 DEF HeadInv, TypeOK, CallHasThread, Boosted
<1>3. QED
    BY <1>1, <1>2 DEF TcbType, Boosted

\* A thread becomes hoistable by its own call.
LEMMA HoistableStep ==
    ASSUME RetryInQuantum,
           HeadInv, JoinInv, Live, [Next]_vars, ~CreateTcb, NEW t \in Threads, Hoistable(t)'
    PROVE  Hoistable(t) \/ (tcb[t].status # "UNBORN" /\ ~Pending(t))
<1>1. CASE \E m \in Mutexes : mutex'[m].owner = t
    BY <1>1, OwnerStep, Constants DEF Hoistable
<1>2. CASE \E c \in Threads : pc'[c] = "lock_boost" /\ arg'[c] = t
    BY <1>2, BoostStep DEF Hoistable
<1>3. QED
    BY <1>1, <1>2 DEF Hoistable

-----------------------------------------------------------------------------
(* The invariant is kept *)

LEMMA FreshInvStep ==
    ASSUME RetryInQuantum, HeadInv, UnbornInv, SectionInv, JoinInv, PlacedInv, FreshInv, [Next]_vars
    PROVE  FreshInv'
<1>1. /\ running \in Threads /\ mutex \in [Mutexes -> MutexType]
      /\ \A m \in Mutexes : mutex[m].owner \in Threads \cup {NoThread}
    BY DEF HeadInv, TypeOK, MutexType
<1>2. CASE ~Live
    <2>1. CASE FirstCreate
        <3>1. /\ tid = 0 /\ tid' = 2 /\ UNCHANGED mutex /\ pc' = [pc EXCEPT ![1] = "user"]
              /\ pc[Main] = "user"
            BY <2>1 DEF FirstCreate, Running, HeadInv, BeforeFirstCreate, lockVars
        <3>2. \A t \in Threads : pc'[t] \notin {"create_insert", "lock_boost"}
            <4>1. \A t \in Threads : t # Main => pc[t] = "unborn"
                BY <3>1, Constants DEF UnbornInv, Threads, Main
            <4>2. QED
                BY <3>1, <4>1 DEF HeadInv, TypeOK
        <3>3. \A t \in Threads : ~Pending(t)' /\ ~Hoistable(t)'
            BY <3>1, <3>2, Constants DEF FreshInv, Pending, Hoistable
        <3>4. QED
            BY <3>1, <3>3 DEF FreshInv
    <2>2. CASE UNCHANGED << schedVars, tid, pc, arg >>
        <3>1. ~Live'
            BY <1>2, <2>2 DEF schedVars, Live
        <3>2. tid' = 0 => \A m \in Mutexes : mutex'[m].owner = NoThread
            BY <1>2, <2>2, OwnerStep DEF FreshInv, Live
        <3>3. QED
            BY <3>1, <3>2 DEF FreshInv
    <2>3. QED
        BY <1>2, <2>1, <2>2, DeadStep
<1>3. CASE Live /\ CreateTcb
    <2> DEFINE n == tid + 1
    <2>1. /\ n \in Threads /\ n # running /\ n # 0 /\ tid' = n
          /\ tcb[n].status = "UNBORN" /\ tcb'[n].status = "READY" /\ tcb'[n].priority = 0
          /\ \A t \in Threads \ {n} : tcb'[t] = tcb[t]
        BY <1>3, CreatedTcb DEF CreateTcb, FreshTcb, HeadInv, TypeOK, Live
    <2>2. /\ pc' = [pc EXCEPT ![running] = "create_insert", ![n] = "user"]
          /\ arg' = [arg EXCEPT ![running] = n] /\ UNCHANGED mutex
        BY <1>3 DEF CreateTcb, lockVars
    <2> HIDE DEF n
    <2>3. /\ pc'[running] = "create_insert" /\ pc'[n] = "user" /\ arg'[running] = n
          /\ \A t \in Threads \ {running, n} : pc'[t] = pc[t] /\ arg'[t] = arg[t]
        BY <1>1, <2>1, <2>2 DEF HeadInv, TypeOK
    <2>4. \A t : Pending(t)' => t = n \/ Pending(t)
        BY <2>3 DEF Pending
    <2>5. \A t \in Threads : Pending(t)' => tcb'[t].priority = 0
        BY <1>3, <2>1, <2>4 DEF FreshInv
    <2>6. ASSUME NEW t \in Threads, Hoistable(t)'
          PROVE  tcb'[t].status # "UNBORN" /\ ~Pending(t)'
        <3>1. Hoistable(t)
            BY <2>2, <2>3, <2>6 DEF Hoistable
        <3>2. tcb[t].status # "UNBORN" /\ ~Pending(t) /\ t # n
            BY <1>3, <2>1, <3>1 DEF FreshInv
        <3>3. QED
            BY <2>1, <2>4, <3>2
    <2>7. QED
        BY <2>1, <2>5, <2>6 DEF FreshInv
<1>4. CASE Live /\ ~CreateTcb
    <2>1. StatusKept /\ tid' # 0 /\ \A t : Pending(t)' => Pending(t)
        <3>1. UNCHANGED tid
            BY <1>4, LiveStep DEF CallStep, ScheduleStep, pthreadVars
        <3>2. \A t : Pending(t)' => Pending(t)
            BY <1>4, PendingStep
        <3>3. QED
            BY <1>4, <3>1, <3>2, StatusStep DEF Live
    <2>2. ASSUME NEW t \in Threads, Pending(t)' PROVE tcb'[t].priority = 0
        <3>1. Pending(t) /\ tcb[t].priority = 0
            BY <1>4, <2>1, <2>2 DEF FreshInv
        <3>2. CASE ScheduleStep
            BY <1>4, <3>1, <3>2, SchedulePending
        <3>3. CASE LockBoost \/ LockBoostMove
            <4>1. ~Pending(Boosted)
                BY <1>1, <1>4, <3>3, BoostPriority DEF FreshInv, Boosted, Hoistable
            <4>2. QED
                BY <3>1, <3>3, <4>1, BoostPriority
        <3>4. CASE ~ScheduleStep /\ ~LockBoost /\ ~LockBoostMove
            <4>1. \A u \in Threads \ {running} : tcb'[u].priority = tcb[u].priority
                BY <1>4, <3>4, OwnPriority
            <4>2. CASE t = running /\ handler = "idle"
                BY <1>4, <3>1, <4>2, RunningQueued
            <4>3. CASE handler # "idle"
                <5>1. UNCHANGED tcb
                    BY <3>4, <4>3, BusyStep DEF vars, schedVars
                <5>2. QED
                    BY <3>1, <5>1
            <4>4. QED
                BY <3>1, <4>1, <4>2, <4>3
        <3>5. QED
            BY <3>2, <3>3, <3>4
    <2>3. ASSUME NEW t \in Threads, Hoistable(t)'
          PROVE  tcb'[t].status # "UNBORN" /\ ~Pending(t)'
        <3>1. tcb[t].status # "UNBORN" /\ ~Pending(t)
            BY <1>4, <2>3, HoistableStep DEF FreshInv
        <3>2. QED
            BY <2>1, <3>1 DEF StatusKept
    <2>4. QED
        BY <2>1, <2>2, <2>3 DEF FreshInv
<1>5. QED
    BY <1>2, <1>3, <1>4

\* A hoisted thread moves to the queue of its new priority, unless it is not
\* queued, or on the CPU, or asst1 reads past the queues.
LEMMA BoostPlaced ==
    ASSUME HeadInv, JoinInv, PlacedInv, LockBoost \/ LockBoostMove
    PROVE  PlacedInv'
<1> DEFINE h == Boosted
           old == tcb[h].priority
           new == tcb[Current].priority
<1>1. /\ Live /\ h \in Threads /\ tcb'[h].priority = new /\ old \in Nat /\ new \in Nat
      /\ \A t \in Threads \ {h} : tcb'[t].priority = tcb[t].priority
      /\ ready_q \in ReadyQType
    BY BoostPriority, CurrentIsRunning DEF HeadInv, TypeOK, TcbType, ReadyQType, Boosted
<1>2. \A t : OnCpu(t)' <=> OnCpu(t)
    BY BoostPriority DEF OnCpu
<1>3. CASE LockBoost
    <2>1. UNCHANGED ready_q /\ ~BoostedQueued /\ (BoostPastQueues => ~Live')
        BY <1>3 DEF LockBoost, Live
    <2>2. ASSUME NEW prio \in Prios, Placed(ready_q, prio, h), ~OnCpu(h), ~BoostPastQueues
          PROVE  FALSE
        <3>1. tcb[h].status = "READY"
            BY <1>1, <2>2, PlacedIsIn DEF JoinInv, RunInv, QueueInv, CanRun
        <3>2. old < NUM_QUEUES
            BY <1>1, <2>2, <3>1, SchedulerAssumption DEF BoostPastQueues
        <3>3. prio = old
            BY <1>1, <2>2, <3>2 DEF PlacedInv, QueueFor
        <3>4. QED
            BY <2>1, <2>2, <3>1, <3>2, <3>3 DEF BoostedQueued, Placed
    <2> HIDE DEF h
    <2>3. QED
        BY <1>1, <1>2, <2>1, <2>2 DEF PlacedInv, Placed
<1>4. CASE LockBoostMove
    <2>1. PICK k \in DOMAIN ready_q[old] :
             /\ ready_q[old][k] = h
             /\ ready_q' = Unlink(insert_ready_q(ready_q, h, new), old, k)
        BY <1>4 DEF LockBoostMove
    <2>2. old \in Prios
        <3>1. BoostedQueued
            BY <1>4 DEF LockBoostMove
        <3>2. old < NUM_QUEUES
            BY <3>1 DEF BoostedQueued
        <3>3. QED
            BY <1>1, <3>2, SchedulerAssumption DEF Prios
    <2> HIDE DEF h, old, new
    <2>3. \A p \in Prios : \A u : Placed(ready_q', p, u) =>
              IF u = h THEN p = QueueFor(new) ELSE Placed(ready_q, p, u)
        BY <1>1, <2>1, <2>2, MoveNode DEF JoinInv, RunInv, QueueInv
    <2>4. QED
        BY <1>1, <1>2, <2>3 DEF PlacedInv, Placed
<1>5. QED
    BY <1>3, <1>4

\* A thread that is created or woken goes to the queue of its priority.
LEMMA InsertionPlaced ==
    ASSUME HeadInv, PlacedInv, Live, UNCHANGED << running, handler >>,
           \A t \in Threads : tcb'[t].priority = tcb[t].priority,
           NEW t \in Threads, ready_q' = insert_ready_q(ready_q, t, tcb[t].priority)
    PROVE  PlacedInv'
<1>1. tcb[t].priority \in Nat /\ ready_q \in ReadyQType
    BY DEF HeadInv, TypeOK, TcbType, ReadyQType
<1>2. \A p \in Prios : \A u : Placed(ready_q', p, u) =>
          Placed(ready_q, p, u) \/ (u = t /\ p = QueueFor(tcb[t].priority))
    BY <1>1, InsertQueued
<1>3. QED
    BY <1>2 DEF PlacedInv, Placed, OnCpu

LEMMA WakePlaced ==
    ASSUME HeadInv, JoinInv, PlacedInv, ExitWake
    PROVE  PlacedInv'
<1>1. /\ Live /\ handler = "idle" /\ UNCHANGED << running, handler >> /\ Current = running
      /\ running \in Threads /\ tcb \in [Threads -> TcbType]
    BY InLibrary, CurrentIsRunning DEF ExitWake, Running, LibraryFrame, Live, HeadInv, TypeOK
<1> DEFINE s == tcb[running].waited_on
           w == s[1]
<1>2. /\ s # << >> /\ ready_q' = insert_ready_q(ready_q, w, tcb[w].priority)
      /\ tcb' = [tcb EXCEPT ![running].waited_on = Tail(s), ![w].status = "READY"]
    BY <1>1 DEF ExitWake
<1>3. w \in Threads
    <2>1. s \in Seq(Threads)
        BY <1>1 DEF TcbType
    <2>2. 1 \in DOMAIN s
        BY <1>2, <2>1, EmptySeq, LenProperties
    <2>3. QED
        BY <2>1, <2>2, ElementOfSeq, LenProperties
<1> HIDE DEF s, w
<1>4. \A t \in Threads : tcb'[t].priority = tcb[t].priority
    BY <1>1, <1>2, <1>3 DEF TcbType
<1>5. QED
    BY <1>1, <1>2, <1>3, <1>4, InsertionPlaced

LEMMA FirstPlaced ==
    ASSUME HeadInv, JoinInv, FirstCreate
    PROVE  PlacedInv'
<1>1. /\ tid = 0 /\ ready_q' = [ready_q EXCEPT ![0] = << Main, 1 >>]
      /\ tcb' = [t \in Threads |-> IF t \in {1, Main} THEN FreshTcb("READY") ELSE tcb[t]]
      /\ \A prio \in Prios : ready_q[prio] = << >>
    BY DEF FirstCreate, JoinInv, BornInv
<1>2. tcb'[Main].priority = 0 /\ tcb'[1].priority = 0
    BY <1>1, Constants DEF FreshTcb
<1>3. \A prio \in Prios : \A t \in Threads :
          Placed(ready_q', prio, t) => prio = 0 /\ t \in {Main, 1}
    <2>1. /\ ready_q'[0] = << Main, 1 >> /\ DOMAIN << Main, 1 >> = {1, 2}
          /\ << Main, 1 >>[1] = Main /\ << Main, 1 >>[2] = 1
        BY <1>1, Constants DEF HeadInv, TypeOK
    <2>2. \A prio \in Prios \ {0} : ready_q'[prio] = << >>
        BY <1>1 DEF HeadInv, TypeOK
    <2>3. QED
        BY <2>1, <2>2 DEF Placed
<1>4. QueueFor(0) = 0
    BY SchedulerAssumption DEF QueueFor
<1>5. QED
    BY <1>2, <1>3, <1>4 DEF PlacedInv, Placed

LEMMA PlacedInvStep ==
    ASSUME RetryInQuantum, HeadInv, UnbornInv, SectionInv, JoinInv, PlacedInv, FreshInv, [Next]_vars
    PROVE  PlacedInv'
<1>1. CASE ~Live
    BY <1>1, DeadStep, FirstPlaced DEF schedVars, PlacedInv, Live
<1>2. CASE Live /\ ScheduleStep
    BY <1>2, SchedulePlaced
<1>3. CASE Live /\ CreateTcb
    <2> DEFINE n == tid + 1
    <2>1. /\ n \in Threads /\ n # running /\ tcb[n].status = "UNBORN"
          /\ \A t \in Threads \ {n} : tcb'[t] = tcb[t]
          /\ UNCHANGED << ready_q, running, handler >>
        BY <1>3, CreatedTcb DEF CreateTcb, LibraryFrame
    <2> HIDE DEF n
    <2>2. ~IsIn(ready_q, n)
        BY <1>3, <2>1 DEF JoinInv, RunInv, QueueInv, CanRun, OnCpu
    <2>3. QED
        BY <1>3, <2>1, <2>2, PlacedIsIn DEF PlacedInv, Placed, OnCpu
<1>4. CASE CreateInsert
    <2> DEFINE t == arg[running]
    <2>1. /\ Live /\ pc[running] = "create_insert" /\ running \in Threads /\ t \in Threads
          /\ UNCHANGED << tcb, running, handler >> /\ ready_q' = insert_ready_q(ready_q, t, 0)
        BY <1>4, InLibrary DEF CreateInsert, Running, LibraryFrame, HeadInv, TypeOK, CallHasThread
    <2>2. tcb[t].priority = 0
        BY <2>1 DEF FreshInv, Pending
    <2> HIDE DEF t
    <2>3. QED
        BY <2>1, <2>2, InsertionPlaced
<1>5. CASE ExitWake \/ LockBoost \/ LockBoostMove
    BY <1>5, WakePlaced, BoostPlaced
<1>6. CASE /\ Live /\ ~ScheduleStep /\ ~CreateTcb
           /\ ~CreateInsert /\ ~ExitWake /\ ~LockBoost /\ ~LockBoostMove
    <2>1. UNCHANGED ready_q
        BY <1>6, SameQueues
    <2>2. \A t \in Threads \ {running} : tcb'[t].priority = tcb[t].priority
        BY <1>6, OwnPriority
    <2>3. CASE handler = "idle"
        <3>1. UNCHANGED running /\ handler' \in {"idle", "schedule"}
            BY <1>6, <2>3, LiveStep DEF CallStep
        <3>2. QED
            BY <1>6, <2>1, <2>2, <2>3, <3>1 DEF PlacedInv, Placed, OnCpu
    <2>4. CASE handler # "idle"
        BY <1>6, <2>4, BusyStep DEF vars, schedVars, pthreadVars, PlacedInv, Placed, OnCpu, Live
    <2>5. QED
        BY <2>3, <2>4
<1>7. QED
    BY <1>1, <1>2, <1>3, <1>4, <1>5, <1>6

-----------------------------------------------------------------------------
(* The property *)

LEMMA PlacedInvInit == Init => PlacedInv /\ FreshInv
BY DEF Init, PlacedInv, FreshInv, Live, FreshMutex

\* A queued thread is in the queue of its priority: hoisting, unlocking, aging and
\* maintenance keep the number and the node together, but for the thread that runs,
\* where a waiter tries again in one quantum: the alarm could come between the store
\* of a hoisted thread's number and its move (my_pthread.c:170-187).
THEOREM QueuedByPriority == RetryInQuantum /\ Spec => []QueueOfPriority
<1>1. Init => UnbornInv
    BY DEF Init, UnbornInv
<1>2. ASSUME RetryInQuantum PROVE Spec => []QueueOfPriority
    <2>1. UnbornInv /\ HeadInv /\ [Next]_vars => UnbornInv'
        BY UnbornStep DEF HeadInv
    <2>2. /\ HeadInv /\ UnbornInv /\ SectionInv /\ JoinInv /\ [Next]_vars
          /\ PlacedInv /\ FreshInv
          => (PlacedInv /\ FreshInv)'
        BY <1>2, PlacedInvStep, FreshInvStep
    <2>3. Spec => [](HeadInv /\ SectionInv /\ JoinInv)
        BY <1>2, JoinInvariant
    <2>4. HeadInv /\ PlacedInv => QueueOfPriority
        BY PlacedQueue DEF HeadInv
    <2>5. QED
        BY <1>1, <2>1, <2>2, <2>3, <2>4, PlacedInvInit, PTL DEF Spec
<1>3. QED
    BY <1>2

-----------------------------------------------------------------------------
(* What the steps of the calls do *)

\* Where a step inside a call takes the running thread.
Moves ==
    {<< "raise_yield", "user" >>, << "raise_exit", "ended" >>,
     << "raise_join", "join_done" >>, << "raise_retry", "lock_try" >>,
     << "create_insert", "create_put" >>, << "create_put", "user" >>,
     << "exit_wake", "exit_wake" >>, << "exit_wake", "raise_exit" >>,
     << "join_wait", "join_block" >>, << "join_block", "raise_join" >>, << "join_done", "user" >>,
     << "lock_try", "lock_hoist" >>, << "lock_try", "lock_owner" >>,
     << "lock_hoist", "lock_hoist" >>, << "lock_hoist", "lock_try" >>,
     << "lock_hoist", "lock_boost" >>, << "lock_hoist", "lock_yield" >>,
     << "lock_boost", "lock_yield" >>, << "lock_yield", "raise_retry" >>,
     << "lock_owner", "lock_adjust" >>, << "lock_adjust", "lock_exit" >>,
     << "lock_exit", "user" >>, << "unlock_restore", "user" >>}

Move == << pc[running], pc'[running] >>

OthersStay ==
    \A t \in Threads \ {running} : pc'[t] = pc[t] /\ arg'[t] = arg[t] /\ holds'[t] = holds[t]

LEMMA LibraryMoves ==
    ASSUME RetryInQuantum, TypeOK, LibraryStep
    PROVE  /\ halt = "none" /\ handler = "idle" /\ UNCHANGED << tid, inited, running >>
           /\ Move \in Moves /\ OthersStay
           /\ holds'[running] = holds[running] \/ pc[running] = "lock_exit"
           /\ handler' = IF pc[running] \in DOMAIN AfterRaise THEN "schedule" ELSE "idle"
<1> USE DEF Running, Goto, Return, Move, OthersStay, lockVars, pthreadVars, LibraryFrame
<1>0. /\ running \in Threads /\ pc \in [Threads -> Labels]
      /\ arg \in [Threads -> Threads \cup {NoThread}] /\ holds \in [Threads -> SUBSET Mutexes]
    BY DEF TypeOK
<1>1. CASE Raise
    <2>1. PICK label \in DOMAIN AfterRaise :
             pc[running] = label /\ pc' = [pc EXCEPT ![running] = AfterRaise[label]]
        BY <1>1 DEF Raise
    <2>2. << label, AfterRaise[label] >> \in Moves
        BY DEF AfterRaise, Moves
    <2>3. QED
        BY <1>0, <1>1, <2>1, <2>2 DEF Raise
<1>2. CASE CreateInsert \/ CreatePut
    BY <1>0, <1>2 DEF CreateInsert, CreatePut, Moves, AfterRaise
<1>3. CASE ExitWake \/ ExitDone
    BY <1>0, <1>3 DEF ExitWake, ExitDone, Moves, AfterRaise
<1>4. CASE JoinWait \/ JoinBlock \/ JoinDone
    BY <1>0, <1>4 DEF JoinWait, JoinBlock, JoinDone, Moves, AfterRaise
<1>5. CASE LockBoost \/ LockBoostMove \/ LockYield
    BY <1>0, <1>5 DEF LockBoost, LockBoostMove, LockBoostPriority, LockYield, Moves,
       AfterRaise
<1>6. ASSUME NEW m \in Mutexes, LockTry(m) \/ LockOwner(m) \/ LockAdjust(m)
      PROVE  /\ halt = "none" /\ handler = "idle"
             /\ UNCHANGED << tid, inited, running, handler >>
             /\ Move \in Moves /\ OthersStay
             /\ holds'[running] = holds[running]
    BY <1>0, <1>6 DEF LockTry, LockOwner, LockAdjust, Moves
<1>7. ASSUME NEW m \in Mutexes, LockHoist(m)
      PROVE  /\ halt = "none" /\ handler = "idle"
             /\ UNCHANGED << tid, inited, running, handler >>
             /\ Move \in Moves /\ OthersStay
             /\ holds'[running] = holds[running]
    <2>1. AfterHoist(mutex[m].owner) \in {"lock_try", "lock_boost", "lock_yield"}
        BY DEF AfterHoist
    <2>2. pc' = pc \/ \E label \in {"lock_try", "lock_boost", "lock_yield"} :
                        pc' = [pc EXCEPT ![running] = label]
        BY <1>7, <2>1 DEF LockHoist
    <2>3. Move \in Moves /\ \A t \in Threads \ {running} : pc'[t] = pc[t]
        BY <1>0, <1>7, <2>2 DEF LockHoist, Moves
    <2>4. QED
        BY <1>0, <1>7, <2>3 DEF LockHoist
<1>8. ASSUME NEW m \in Mutexes, LockExit(m) \/ UnlockRestore(m)
      PROVE  /\ halt = "none" /\ handler = "idle"
             /\ UNCHANGED << tid, inited, running, handler >>
             /\ Move \in Moves /\ OthersStay
             /\ holds'[running] = holds[running] \/ pc[running] = "lock_exit"
    BY <1>0, <1>8 DEF LockExit, UnlockRestore, Moves
<1>9. QED
    BY <1>1, <1>2, <1>3, <1>4, <1>5, <1>6, <1>7, <1>8, QuietRetry
    DEF LibraryStep, AfterRaise, LockTry, LockOwner, LockAdjust, LockHoist, LockExit, UnlockRestore

\* Where a call takes its caller.
LEMMA CallMoves ==
    ASSUME TypeOK, UnbornInv, UserCall
    PROVE  /\ handler = "idle" /\ UNCHANGED << running, handler >> /\ pc[running] = "user"
           /\ pc'[running] \in {"user", "create_insert", "raise_yield", "exit_wake", "join_wait",
                                "join_done", "lock_try", "unlock_restore"}
           /\ \A t \in Threads \ {running} :
                 pc'[t] = pc[t] \/ (pc[t] = "unborn" /\ pc'[t] = "user")
<1> USE DEF Calls, Running, Goto, LibraryFrame, lockVars, schedVars
<1>0. running \in Threads /\ pc \in [Threads -> Labels]
    BY DEF TypeOK
<1>1. CASE Compute
    BY <1>1 DEF Compute, vars, pthreadVars
<1>2. CASE FirstCreate
    <2>1. pc[1] = "unborn"
        BY <1>2, Constants DEF FirstCreate, UnbornInv, Main
    <2>2. QED
        BY <1>0, <1>2, <2>1 DEF FirstCreate
<1>3. CASE CreateTcb
    <2>1. tid + 1 \in Threads /\ tid + 1 > tid /\ tid + 1 # Main
        BY <1>3, NextId
    <2>2. pc[tid + 1] = "unborn"
        BY <2>1 DEF UnbornInv
    <2>3. QED
        BY <1>0, <1>3, <2>1, <2>2 DEF CreateTcb
<1>4. CASE Yield \/ Exit
    BY <1>0, <1>4 DEF Yield, Exit
<1>5. ASSUME NEW target \in Threads, Join(target)
      PROVE  /\ handler = "idle" /\ UNCHANGED << running, handler >> /\ pc[running] = "user"
             /\ pc'[running] \in {"user", "join_wait", "join_done"}
             /\ \A t \in Threads \ {running} : pc'[t] = pc[t]
    BY <1>0, <1>5 DEF Join
<1>6. ASSUME NEW m \in Mutexes, MutexInit(m) \/ MutexDestroy(m)
      PROVE  /\ handler = "idle" /\ UNCHANGED << running, handler, pc >> /\ pc[running] = "user"
    BY <1>0, <1>6 DEF MutexInit, MutexDestroy
<1>7. ASSUME NEW m \in Mutexes, Lock(m) \/ Unlock(m)
      PROVE  /\ handler = "idle" /\ UNCHANGED << running, handler >> /\ pc[running] = "user"
             /\ pc'[running] \in {"lock_try", "unlock_restore"}
             /\ \A t \in Threads \ {running} : pc'[t] = pc[t]
    BY <1>0, <1>7 DEF Lock, Unlock
<1>8. QED
    BY <1>1, <1>2, <1>3, <1>4, <1>5, <1>6, <1>7 DEF UserCall

-----------------------------------------------------------------------------
(* A waiter's steps *)

\* What the claim needs besides RetryInQuantum: priorities fit an int8_t, and nobody
\* takes a second mutex.
HoistAssumption ==
    /\ MaxPriority < INT8_MAX /\ NUM_QUEUES <= INT8_MAX
    /\ \A m, n \in Mutexes : m = n

TightLabels == LockLabels \ {"lock_try"}

TightInv == \A t \in Threads : pc[t] \in TightLabels => t = running /\ handler = "idle"

LEMMA TightStep ==
    ASSUME RetryInQuantum, TypeOK, UnbornInv, TightInv, [Next]_vars
    PROVE  TightInv'
<1>0. running \in Threads /\ pc \in [Threads -> Labels]
    BY DEF TypeOK
<1>1. CASE UNCHANGED vars \/ Halted
    BY <1>1 DEF Halted, vars, schedVars, pthreadVars, TightInv
<1>2. CASE Tick \/ ScheduleStep
    <2>1. UNCHANGED pc
        BY <1>2 DEF Tick, ScheduleStep, pthreadVars
    <2>2. handler # "idle" \/ pc[running] \notin LockLabels
        BY <1>2 DEF Tick, ScheduleStep, Schedule, KeepRunning, Requeue, Leave, Entry, FreeGarbage,
           Maintenance, MaintainNextQueue, MaintainKeep, MaintainMove, MaintainEnd, Scanning,
           Dispatch, Teardown
    <2>3. QED
        BY <2>1, <2>2 DEF TightInv, TightLabels
<1>3. CASE LibraryStep
    <2>1. /\ handler = "idle" /\ UNCHANGED running
          /\ Move \in Moves /\ OthersStay
          /\ handler' = IF pc[running] \in DOMAIN AfterRaise THEN "schedule" ELSE "idle"
        BY <1>3, LibraryMoves
    <2>2. \A t \in Threads \ {running} : pc'[t] \notin TightLabels
        BY <2>1 DEF OthersStay, TightInv
    <2>3. pc'[running] \in TightLabels => handler' = "idle"
        BY <2>1 DEF Move, Moves, TightLabels, LockLabels, AfterRaise
    <2>4. QED
        BY <2>1, <2>2, <2>3 DEF TightInv
<1>4. CASE UserCall
    <2>1. /\ handler = "idle" /\ UNCHANGED << running, handler >>
          /\ pc'[running] \in {"user", "create_insert", "raise_yield", "exit_wake", "join_wait",
                               "join_done", "lock_try", "unlock_restore"}
          /\ \A t \in Threads \ {running} :
                pc'[t] = pc[t] \/ (pc[t] = "unborn" /\ pc'[t] = "user")
        BY <1>4, CallMoves
    <2>2. QED
        BY <2>1 DEF TightInv, TightLabels, LockLabels
<1>5. QED
    BY <1>1, <1>2, <1>3, <1>4 DEF Next

-----------------------------------------------------------------------------
(* What the handler does to priorities *)

\* It makes the thread that used its slice up worse, and nobody else.
UsedUp(t) ==
    /\ t = running /\ handler = "schedule" /\ tcb[t].status = "READY"
    /\ tcb[t].cycles_left # -1 /\ tcb[t].acq_locks <= 0

LEMMA HandlerPriorities ==
    ASSUME HeadInv, Live, Schedule, NEW t \in Threads
    PROVE  \/ tcb'[t].priority <= tcb[t].priority
           \/ UsedUp(t) /\ tcb'[t].priority \in {NUM_QUEUES - 1, tcb[t].priority + 1}
<1>0. tcb \in [Threads -> TcbType] /\ tcb[t] \in TcbType /\ tcb[t].priority \in Nat
    BY DEF HeadInv, TypeOK, TcbType
<1>1. CASE UNCHANGED tcb
    BY <1>0, <1>1
<1>2. CASE KeepRunning \/ Leave
    <2> DEFINE left == tcb[Current].cycles_left - 1
    <2>1. \/ tcb' = [tcb EXCEPT ![Current] =
                        [tcb[Current] EXCEPT !.cycles_left = left, !.ran_since = TRUE]]
          \/ tcb' = [tcb EXCEPT ![Current].ran_since = TRUE]
        BY <1>2 DEF KeepRunning, Leave
    <2> HIDE DEF left
    <2>2. tcb'[t].priority = tcb[t].priority
        <3>1. CASE tcb' = [tcb EXCEPT ![Current].ran_since = TRUE]
            BY <1>0, <3>1 DEF TcbType
        <3>2. CASE tcb' = [tcb EXCEPT ![Current] =
                              [tcb[Current] EXCEPT !.cycles_left = left, !.ran_since = TRUE]]
            <4>1. CASE t = Current
                <5>1. tcb'[t] = [tcb[t] EXCEPT !.cycles_left = left, !.ran_since = TRUE]
                    BY <1>0, <3>2, <4>1
                <5>2. QED
                    BY <1>0, <5>1 DEF TcbType
            <4>2. CASE t # Current
                BY <1>0, <3>2, <4>2
            <4>3. QED
                BY <4>1, <4>2
        <3>3. QED
            BY <2>1, <3>1, <3>2
    <2>3. QED
        BY <1>0, <2>2
<1>3. CASE Requeue
    <2> DEFINE old == tcb[running]
               new == Requeued(old)
    <2>1. handler = "schedule" /\ Current = running /\ running \in Threads /\ old \in TcbType
          /\ old.status = "READY"
        BY <1>3, CurrentIsRunning DEF Requeue, Entry
    <2>2. tcb' = [tcb EXCEPT ![running] = [new EXCEPT !.ran_since = TRUE]]
        BY <1>3, <2>1 DEF Requeue
    <2>3. new \in TcbType
        BY <2>1, RequeuedType
    <2>4. \/ new.priority = old.priority
          \/ /\ old.cycles_left # -1 /\ ~(old.acq_locks > 0)
             /\ new.priority \in {NUM_QUEUES - 1, old.priority + 1}
        BY <2>1 DEF Requeued, TcbType
    <2>5. old.acq_locks \in Int
        BY <2>1 DEF TcbType
    <2> HIDE DEF new
    <2>6. [new EXCEPT !.ran_since = TRUE].priority = new.priority
        BY <2>3 DEF TcbType
    <2>7. tcb'[t].priority = IF t = running THEN new.priority ELSE tcb[t].priority
        BY <1>0, <2>1, <2>2, <2>6
    <2>8. CASE t # running
        BY <1>0, <2>7, <2>8
    <2>9. CASE t = running
        BY <1>0, <2>1, <2>4, <2>5, <2>7, <2>9 DEF UsedUp
    <2>10. QED
        BY <2>8, <2>9
<1>4. CASE \E queue \in 1 .. NUM_QUEUES - 1 : MaintainMove(queue)
    <2>1. PICK queue \in 1 .. NUM_QUEUES - 1 : MaintainMove(queue)
        BY <1>4
    <2>2. PICK u, prio : prio \in NewPriorities(u, queue) /\ tcb' = [tcb EXCEPT ![u].priority = prio]
        BY <2>1 DEF MaintainMove
    <2>3. CASE t # u
        BY <1>0, <2>2, <2>3
    <2>4. CASE t = u
        <3>1. tcb'[t].priority = prio
            BY <1>0, <2>2, <2>4 DEF TcbType
        <3>2. queue \in Nat /\ queue + 1 >= 1
            BY SchedulerAssumption
        <3>3. tcb[t].priority \div (queue + 1) <= tcb[t].priority
            BY <1>0, <3>2
        <3>4. prio <= tcb[t].priority
            BY <1>0, <2>2, <2>4, <3>2, <3>3 DEF NewPriorities
        <3>5. QED
            BY <3>1, <3>4
    <2>5. QED
        BY <2>3, <2>4
<1>5. CASE MaintainEnd
    <2>1. tcb'[t].priority = tcb[t].priority
        BY <1>0, <1>5 DEF MaintainEnd, TcbType
    <2>2. QED
        BY <1>0, <2>1
<1>6. QED
    BY <1>1, <1>2, <1>3, <1>4, <1>5
    DEF Schedule, Maintenance, MaintainNextQueue, MaintainKeep, FreeGarbage, Dispatch, Teardown

-----------------------------------------------------------------------------
(* What the claim rests on *)

RaiseLabels == {"raise_yield", "raise_retry", "raise_exit", "raise_join"}

\* Priorities fit the int8_t that a mutex nobody waits for has as its own; the
\* handler finds why it runs in the thread that it interrupts.
BoundInv ==
    /\ \A t \in Threads : tcb[t].priority <= INT8_MAX
    /\ \A m \in Mutexes : mutex[m].holding_thread_priority <= INT8_MAX
    /\ \A t \in Threads :
          /\ pc[t] \in {"raise_yield", "raise_retry"} => tcb[t].cycles_left = -1
          /\ pc[t] \in {"raise_exit", "raise_join"} => tcb[t].status # "READY"
    /\ handler = "schedule" =>
          \/ tcb[running].status # "READY"
          \/ tcb[running].cycles_left = -1
          \/ tcb[running].priority <= MaxPriority

\* A mutex names its holder; a waiter that is about to boost it has lent the mutex
\* its priority; and a thread that gives a mutex back does not have it any more.
OwnerInv ==
    \A t \in Threads :
        /\ \A m \in Mutexes :
              m \in holds[t] \/ (pc[t] \in {"lock_adjust", "lock_exit"} /\ mtx[t] = m) =>
                  mutex[m].owner = t
        /\ pc[t] = "lock_boost" =>
              /\ mtx[t] \in Mutexes
              /\ arg[t] = mutex[mtx[t]].owner
              /\ mutex[mtx[t]].hoisted_priority = tcb[t].priority
        /\ pc[t] = "unlock_restore" => mtx[t] \notin holds[t]

Boosting(h, m) == pc[running] = "lock_boost" /\ mtx[running] = m /\ arg[running] = h

Holder(h, m) == m \in holds[h] \/ (pc[h] = "lock_exit" /\ mtx[h] = m)

\* The holder is no worse than the mutex says, unless a waiter is about to boost it.
HoistInv ==
    Live => \A h \in Threads, m \in Mutexes :
        tcb[h].status # "DONE" /\ Holder(h, m)
        => tcb[h].priority <= mutex[m].hoisted_priority \/ Boosting(h, m)

-----------------------------------------------------------------------------
(* Steps that do not touch what a waiter lends *)

PrioritiesKept == \A t \in Threads : tcb'[t].priority = tcb[t].priority

LoansKept ==
    \A m \in Mutexes :
        /\ mutex'[m].owner = mutex[m].owner
        /\ mutex'[m].hoisted_priority = mutex[m].hoisted_priority
        /\ mutex'[m].holding_thread_priority = mutex[m].holding_thread_priority

LoanLabels == {"lock_boost", "lock_adjust", "lock_exit", "unlock_restore"}

\* Threads stay where they are, or the running one goes on to code that has nothing
\* to do with loans.
LabelsQuiet ==
    \A t \in Threads :
        \/ pc'[t] = pc[t] /\ mtx'[t] = mtx[t] /\ arg'[t] = arg[t]
        \/ t = running /\ pc[t] # "lock_boost" /\ pc'[t] \notin LoanLabels

Quiet ==
    /\ PrioritiesKept /\ LoansKept /\ LabelsQuiet
    /\ UNCHANGED << holds, running, tid >>
    /\ halt' = "none" => halt = "none"

QuietStep ==
    \/ Tick \/ Raise \/ Compute \/ Halted \/ UNCHANGED vars
    \/ CreateInsert \/ CreatePut \/ Yield \/ Exit \/ ExitWake \/ ExitDone
    \/ JoinWait \/ JoinBlock \/ JoinDone \/ LockYield
    \/ \E target \in Threads : Join(target)
    \/ \E m \in Mutexes : LockTry(m) \/ Lock(m) \/ MutexDestroy(m)

LEMMA FieldKeepsPriority ==
    ASSUME TypeOK, NEW t, NEW c, NEW u,
           \/ tcb' = [tcb EXCEPT ![t].status = c]
           \/ tcb' = [tcb EXCEPT ![t].cycles_left = c]
           \/ tcb' = [tcb EXCEPT ![t].acq_locks = c]
           \/ tcb' = [tcb EXCEPT ![t].waited_on = c]
           \/ tcb' = [tcb EXCEPT ![t].waited_on = c, ![u].status = "READY"]
    PROVE  PrioritiesKept
<1>0. tcb \in [Threads -> TcbType]
    BY DEF TypeOK
<1>1. CASE tcb' = [tcb EXCEPT ![t].status = c]
    BY <1>0, <1>1 DEF PrioritiesKept, TcbType
<1>2. CASE tcb' = [tcb EXCEPT ![t].cycles_left = c]
    BY <1>0, <1>2 DEF PrioritiesKept, TcbType
<1>3. CASE tcb' = [tcb EXCEPT ![t].acq_locks = c]
    BY <1>0, <1>3 DEF PrioritiesKept, TcbType
<1>4. CASE tcb' = [tcb EXCEPT ![t].waited_on = c]
    BY <1>0, <1>4 DEF PrioritiesKept, TcbType
<1>5. CASE tcb' = [tcb EXCEPT ![t].waited_on = c, ![u].status = "READY"]
    <2>1. SUFFICES ASSUME NEW v \in Threads PROVE tcb'[v].priority = tcb[v].priority
        BY DEF PrioritiesKept
    <2>2. CASE t = u /\ u = v
        BY <1>0, <1>5, <2>1, <2>2 DEF TcbType
    <2>3. CASE t # u /\ u = v
        BY <1>0, <1>5, <2>1, <2>3 DEF TcbType
    <2>4. CASE u # v /\ t = v
        BY <1>0, <1>5, <2>1, <2>4 DEF TcbType
    <2>5. CASE u # v /\ t # v
        BY <1>0, <1>5, <2>1, <2>5 DEF TcbType
    <2>6. QED
        BY <2>2, <2>3, <2>4, <2>5
<1>6. QED
    BY <1>1, <1>2, <1>3, <1>4, <1>5

LEMMA QuietPriorities ==
    ASSUME TypeOK, QuietStep
    PROVE  PrioritiesKept
<1>1. CASE UNCHANGED tcb
    BY <1>1 DEF PrioritiesKept
<1>2. CASE \E t, c :
              \/ tcb' = [tcb EXCEPT ![t].status = c]
              \/ tcb' = [tcb EXCEPT ![t].cycles_left = c]
              \/ tcb' = [tcb EXCEPT ![t].waited_on = c]
    BY <1>2, FieldKeepsPriority
<1>3. CASE Tick \/ Raise \/ Compute \/ Halted \/ UNCHANGED vars
    BY <1>1, <1>3 DEF Tick, Raise, Compute, Halted, vars, schedVars
<1>4. CASE CreateInsert \/ CreatePut \/ Exit \/ JoinDone
    BY <1>1, <1>4 DEF CreateInsert, CreatePut, Exit, JoinDone
<1>5. CASE Yield \/ LockYield
    BY <1>2, <1>5 DEF Yield, LockYield
<1>6. CASE ExitDone \/ JoinBlock
    BY <1>2, <1>6 DEF ExitDone, JoinBlock
<1>7. CASE ExitWake
    <2>1. \E t, c, u : tcb' = [tcb EXCEPT ![t].waited_on = c, ![u].status = "READY"]
        BY <1>7 DEF ExitWake
    <2>2. PICK t, c, u : tcb' = [tcb EXCEPT ![t].waited_on = c, ![u].status = "READY"]
        BY <2>1
    <2>3. QED
        BY <2>2, FieldKeepsPriority
<1>8. CASE JoinWait
    BY <1>2, <1>8 DEF JoinWait
<1>9. CASE \E target \in Threads : Join(target)
    BY <1>1, <1>9 DEF Join
<1>10. CASE \E m \in Mutexes : LockTry(m) \/ Lock(m) \/ MutexDestroy(m)
    BY <1>1, <1>10 DEF LockTry, Lock, MutexDestroy, schedVars
<1>11. QED
    BY <1>3, <1>4, <1>5, <1>6, <1>7, <1>8, <1>9, <1>10 DEF QuietStep

LEMMA QuietLoans ==
    ASSUME TypeOK, QuietStep
    PROVE  LoansKept /\ UNCHANGED << holds, running, tid >> /\ (halt' = "none" => halt = "none")
<1> USE DEF Running, Calls, LibraryFrame, Return, pthreadVars, lockVars, schedVars
<1>1. CASE UNCHANGED mutex
    <2>1. LoansKept
        BY <1>1 DEF LoansKept
    <2>2. CASE Tick \/ Raise \/ Compute \/ Halted \/ UNCHANGED vars
        BY <2>1, <2>2 DEF Tick, Raise, Compute, Halted, vars
    <2>3. CASE CreateInsert \/ CreatePut \/ Exit \/ JoinDone \/ Yield \/ LockYield
        BY <2>1, <2>3 DEF CreateInsert, CreatePut, Exit, JoinDone, Yield, LockYield
    <2>4. CASE ExitDone \/ JoinBlock \/ JoinWait \/ ExitWake
        BY <2>1, <2>4 DEF ExitDone, JoinBlock, JoinWait, ExitWake
    <2>5. CASE \E target \in Threads : Join(target)
        BY <2>1, <2>5 DEF Join
    <2>6. CASE \E m \in Mutexes : LockTry(m) \/ Lock(m) \/ MutexDestroy(m)
        BY <2>1, <2>6 DEF LockTry, Lock, MutexDestroy
    <2>7. QED
        BY <2>2, <2>3, <2>4, <2>5, <2>6 DEF QuietStep
<1>2. ASSUME NEW m \in Mutexes, mutex' = [mutex EXCEPT ![m].locked = TRUE] PROVE LoansKept
    BY <1>2 DEF TypeOK, MutexType, LoansKept
<1>3. CASE \E m \in Mutexes : LockTry(m) \/ MutexDestroy(m)
    <2>1. PICK m \in Mutexes : LockTry(m) \/ MutexDestroy(m)
        BY <1>3
    <2>2. LoansKept
        BY <1>2, <2>1 DEF LockTry, MutexDestroy
    <2>3. QED
        BY <2>1, <2>2 DEF LockTry, MutexDestroy
<1>4. UNCHANGED mutex \/ \E m \in Mutexes : LockTry(m) \/ MutexDestroy(m)
    <2>1. CASE Tick \/ Raise \/ Compute \/ Halted \/ UNCHANGED vars
        BY <2>1 DEF Tick, Raise, Compute, Halted, vars
    <2>2. CASE CreateInsert \/ CreatePut \/ Exit \/ JoinDone \/ Yield \/ LockYield
        BY <2>2 DEF CreateInsert, CreatePut, Exit, JoinDone, Yield, LockYield
    <2>3. CASE ExitDone \/ JoinBlock \/ JoinWait \/ ExitWake
        BY <2>3 DEF ExitDone, JoinBlock, JoinWait, ExitWake
    <2>4. CASE \E target \in Threads : Join(target)
        BY <2>4 DEF Join
    <2>5. CASE \E m \in Mutexes : LockTry(m) \/ Lock(m) \/ MutexDestroy(m)
        BY <2>5 DEF Lock
    <2>6. QED
        BY <2>1, <2>2, <2>3, <2>4, <2>5 DEF QuietStep
<1>5. QED
    BY <1>1, <1>3, <1>4

LEMMA QuietLabels ==
    ASSUME TypeOK, QuietStep
    PROVE  LabelsQuiet
<1> USE DEF Running, Calls, Return, pthreadVars, LoanLabels
<1>0. /\ running \in Threads /\ pc \in [Threads -> Labels]
      /\ arg \in [Threads -> Threads \cup {NoThread}] /\ mtx \in [Threads -> Mutexes \cup {NoMutex}]
    BY DEF TypeOK
<1>1. CASE UNCHANGED << pc, arg, mtx >>
    BY <1>1 DEF LabelsQuiet
<1>2. ASSUME pc[running] # "lock_boost", NEW label, label \notin LoanLabels, Goto(label),
             \A t \in Threads \ {running} : arg'[t] = arg[t] /\ mtx'[t] = mtx[t]
      PROVE  LabelsQuiet
    BY <1>0, <1>2 DEF LabelsQuiet, Goto
<1>3. CASE Tick \/ Compute \/ Halted \/ ExitWake \/ UNCHANGED vars
    BY <1>1, <1>3 DEF Tick, Compute, Halted, ExitWake, vars
<1>4. CASE Raise
    <2>1. PICK label \in DOMAIN AfterRaise : /\ pc[running] = label /\ Goto(AfterRaise[label])
                                             /\ UNCHANGED << arg, mtx >>
        BY <1>4 DEF Raise
    <2>2. label # "lock_boost" /\ AfterRaise[label] \notin LoanLabels
        BY DEF AfterRaise
    <2>3. QED
        BY <1>2, <2>1, <2>2
<1>5. CASE CreateInsert
    BY <1>2, <1>5 DEF CreateInsert
<1>6. CASE CreatePut \/ JoinDone
    BY <1>0, <1>2, <1>6 DEF CreatePut, JoinDone
<1>7. CASE Yield \/ Exit
    BY <1>2, <1>7 DEF Yield, Exit
<1>8. CASE LockYield
    BY <1>0, <1>2, <1>8 DEF LockYield
<1>9. CASE ExitDone
    BY <1>2, <1>9 DEF ExitDone
<1>10. CASE JoinBlock \/ JoinWait
    BY <1>2, <1>10 DEF JoinBlock, JoinWait
<1>11. CASE \E target \in Threads : Join(target)
    <2>1. PICK target \in Threads : Join(target)
        BY <1>11
    <2>2. pc[running] # "lock_boost" /\ UNCHANGED mtx
        BY <2>1 DEF Join
    <2>3. \/ UNCHANGED << pc, arg >>
          \/ (Goto("join_wait") \/ Goto("join_done")) /\ arg' = [arg EXCEPT ![running] = target]
        BY <2>1 DEF Join
    <2>4. QED
        BY <1>0, <1>1, <1>2, <2>2, <2>3
<1>12. CASE \E m \in Mutexes : LockTry(m) \/ Lock(m) \/ MutexDestroy(m)
    <2>1. PICK m \in Mutexes : LockTry(m) \/ Lock(m) \/ MutexDestroy(m)
        BY <1>12
    <2>2. CASE LockTry(m)
        <3>1. (Goto("lock_hoist") \/ Goto("lock_owner")) /\ UNCHANGED << arg, mtx >>
              /\ pc[running] = "lock_try"
            BY <2>2 DEF LockTry
        <3>2. QED
            BY <1>2, <3>1
    <2>3. CASE Lock(m)
        BY <1>0, <1>2, <2>3 DEF Lock
    <2>4. CASE MutexDestroy(m)
        BY <1>1, <2>4 DEF MutexDestroy
    <2>5. QED
        BY <2>1, <2>2, <2>3, <2>4
<1>13. QED
    BY <1>3, <1>4, <1>5, <1>6, <1>7, <1>8, <1>9, <1>10, <1>11, <1>12 DEF QuietStep

LEMMA QuietSteps ==
    ASSUME TypeOK, QuietStep
    PROVE  Quiet
BY QuietPriorities, QuietLoans, QuietLabels DEF Quiet

\* The other steps.
LoanStep ==
    \/ ScheduleStep \/ FirstCreate \/ CreateTcb
    \/ LockBoost \/ LockBoostMove
    \/ \E m \in Mutexes :
          \/ MutexInit(m) \/ LockHoist(m) \/ LockOwner(m) \/ LockAdjust(m) \/ LockExit(m)
          \/ Unlock(m) \/ UnlockRestore(m)

LEMMA QuietOrLoan ==
    ASSUME RetryInQuantum, [Next]_vars
    PROVE  QuietStep \/ LoanStep
BY QuietRetry DEF Next, LibraryStep, UserCall, QuietStep, LoanStep

-----------------------------------------------------------------------------
(* Bounds *)

\* Where a thread comes from that raises the signal.
RaiseEntry(t) ==
    \/ UNCHANGED vars
    \/ /\ t = running /\ UNCHANGED handler
       /\ \/ pc'[t] = "raise_yield" /\ Yield
          \/ pc'[t] = "raise_retry" /\ LockYield
          \/ pc'[t] = "raise_exit" /\ ExitDone
          \/ pc'[t] = "raise_join" /\ JoinBlock

LEMMA RaisesEntered ==
    ASSUME RetryInQuantum,
           TypeOK, UnbornInv, SectionInv, [Next]_vars, NEW t \in Threads, pc'[t] \in RaiseLabels
    PROVE  RaiseEntry(t)
<1>0. running \in Threads /\ pc \in [Threads -> Labels] /\ RaiseLabels \subseteq Sections
    BY DEF TypeOK, RaiseLabels, Sections, Preemptible, LockLabels, Labels
<1>1. CASE UNCHANGED vars \/ Halted
    BY <1>1 DEF RaiseEntry, Halted
<1>2. pc'[t] = pc[t] => t = running /\ handler = "idle" /\ ~timer.armed
    BY <1>0 DEF SectionInv
<1>3. CASE Tick \/ ScheduleStep
    <2>1. UNCHANGED pc
        BY <1>3 DEF Tick, ScheduleStep, pthreadVars
    <2>2. handler # "idle" \/ timer.armed
        BY <1>3 DEF Tick, ScheduleStep, Schedule, KeepRunning, Requeue, Leave, Entry, FreeGarbage,
           Maintenance, MaintainNextQueue, MaintainKeep, MaintainMove, MaintainEnd, Scanning,
           Dispatch, Teardown
    <2>3. QED
        BY <1>2, <2>1, <2>2
<1>4. CASE LibraryStep
    <2>1. /\ Move \in Moves /\ OthersStay /\ handler = "idle"
          /\ handler' = IF pc[running] \in DOMAIN AfterRaise THEN "schedule" ELSE "idle"
        BY <1>4, LibraryMoves
    <2>2. t = running
        BY <1>2, <2>1 DEF OthersStay
    <2>3. /\ pc[running] \in {"lock_yield", "exit_wake", "join_block"}
          /\ pc[running] = "lock_yield" => pc'[running] = "raise_retry"
          /\ pc[running] = "exit_wake" => pc'[running] = "raise_exit"
          /\ pc[running] = "join_block" => pc'[running] = "raise_join"
        BY <2>1, <2>2 DEF Move, Moves, RaiseLabels
    <2>4. UNCHANGED handler
        BY <2>1, <2>3 DEF AfterRaise
    <2>5. ~ExitWake
        BY <1>0, <2>3 DEF ExitWake, pthreadVars, Running
    <2>6. \/ LockYield /\ pc[running] = "lock_yield"
          \/ ExitDone /\ pc[running] = "exit_wake"
          \/ JoinBlock /\ pc[running] = "join_block"
        BY QuietRetry, <1>4, <2>3, <2>5
        DEF LibraryStep, Raise, AfterRaise, CreateInsert, CreatePut, ExitDone, JoinWait, JoinBlock,
            JoinDone, LockBoost, LockBoostMove, LockBoostPriority, LockYield, LockTry, LockHoist,
            LockOwner, LockAdjust, LockExit, UnlockRestore, Running
    <2>7. QED
        BY <2>2, <2>3, <2>4, <2>6 DEF RaiseEntry
<1>5. CASE UserCall
    <2>1. /\ handler = "idle" /\ UNCHANGED handler /\ pc[running] = "user"
          /\ pc'[running] \in {"user", "create_insert", "raise_yield", "exit_wake", "join_wait",
                               "join_done", "lock_try", "unlock_restore"}
          /\ \A u \in Threads \ {running} :
                pc'[u] = pc[u] \/ (pc[u] = "unborn" /\ pc'[u] = "user")
        BY <1>5, CallMoves
    <2>2. t = running /\ pc'[running] = "raise_yield"
        BY <1>2, <2>1 DEF RaiseLabels
    <2>3. CASE Compute \/ FirstCreate \/ CreateTcb \/ Exit
        BY <1>0, <2>1, <2>2, <2>3 DEF Compute, vars, pthreadVars, FirstCreate, CreateTcb, Exit, Goto
    <2>4. ASSUME NEW u \in Threads, Join(u) PROVE FALSE
        BY <1>0, <2>1, <2>2, <2>4 DEF Join, Goto
    <2>5. ASSUME NEW m \in Mutexes, MutexInit(m) \/ MutexDestroy(m) \/ Lock(m) \/ Unlock(m)
          PROVE  FALSE
        BY <1>0, <2>1, <2>2, <2>5 DEF MutexInit, MutexDestroy, Lock, Unlock, Goto
    <2>6. QED
        BY <1>5, <2>1, <2>2, <2>3, <2>4, <2>5 DEF UserCall, RaiseEntry
<1>6. QED
    BY <1>1, <1>3, <1>4, <1>5 DEF Next

LEMMA PrioritiesBounded ==
    ASSUME RetryInQuantum,
           HoistAssumption, HeadInv, SectionInv, UnbornInv, JoinInv, BoundInv, [Next]_vars,
           NEW t \in Threads
    PROVE  tcb'[t].priority <= INT8_MAX
<1>0. /\ TypeOK /\ tcb \in [Threads -> TcbType] /\ running \in Threads
      /\ tcb[t].priority \in Nat /\ tcb[t].priority <= INT8_MAX
      /\ mutex \in [Mutexes -> MutexType]
    BY DEF HeadInv, TypeOK, TcbType, BoundInv
<1>1. CASE UNCHANGED tcb
    BY <1>0, <1>1
<1>2. CASE ~Live
    <2>1. FirstCreate \/ UNCHANGED << schedVars, tid, pc, arg >>
        BY <1>2, DeadStep
    <2>2. CASE FirstCreate
        BY <1>0, <2>2 DEF FirstCreate, FreshTcb, INT8_MAX
    <2>3. QED
        BY <1>1, <2>1, <2>2 DEF schedVars
<1>3. CASE Live /\ ScheduleStep
    <2>1. \/ tcb'[t].priority <= tcb[t].priority
          \/ UsedUp(t) /\ tcb'[t].priority \in {NUM_QUEUES - 1, tcb[t].priority + 1}
        BY <1>3, HandlerPriorities DEF ScheduleStep
    <2>2. UsedUp(t) => tcb[t].priority <= MaxPriority
        BY DEF UsedUp, BoundInv
    <2>3. MaxPriority \in Nat /\ NUM_QUEUES \in Nat /\ MaxPriority < INT8_MAX /\ NUM_QUEUES <= INT8_MAX
        BY ClientAssumption, SchedulerAssumption DEF HoistAssumption
    <2>4. TypeOK'
        BY HeadInvStep DEF HeadInv
    <2>5. tcb'[t].priority \in Nat
        BY <2>4 DEF TypeOK, TcbType
    <2>6. QED
        BY <1>0, <2>1, <2>2, <2>3, <2>5 DEF INT8_MAX
<1>4. CASE CreateTcb
    BY <1>0, <1>4 DEF CreateTcb, FreshTcb, INT8_MAX
<1>5. CASE LockBoost \/ LockBoostMove
    <2>1. tcb'[t].priority \in {tcb[Current].priority, tcb[t].priority} /\ Current = running
        BY <1>5, BoostPriority, CurrentIsRunning
    <2>2. QED
        BY <1>0, <2>1 DEF BoundInv
<1>6. ASSUME NEW m \in Mutexes, LockAdjust(m) PROVE tcb'[t].priority <= INT8_MAX
    <2>1. Current = running /\ mutex[m].hoisted_priority \in Nat
        BY <1>0, <1>6, InLibrary, CurrentIsRunning DEF LockAdjust, Running, MutexType
    <2> DEFINE own == tcb[running].priority
               hoisted == Least(mutex[m].hoisted_priority, own)
    <2>2. own \in Nat /\ own <= INT8_MAX /\ hoisted <= own
        BY <1>0, <2>1 DEF BoundInv, Least, TcbType
    <2>3. UNCHANGED tcb \/ \E c : tcb' = [tcb EXCEPT ![running] =
                               [tcb[running] EXCEPT !.cycles_left = c, !.priority = hoisted]]
        BY <1>6, <2>1 DEF LockAdjust
    <2>4. hoisted \in Nat
        BY <2>1, <2>2 DEF Least
    <2> HIDE DEF own, hoisted
    <2>5. UNCHANGED tcb \/ tcb'[t].priority \in {hoisted, tcb[t].priority}
        BY <1>0, <2>3 DEF TcbType
    <2>6. QED
        BY <1>0, <1>1, <2>2, <2>4, <2>5 DEF INT8_MAX
<1>7. ASSUME NEW m \in Mutexes, UnlockRestore(m) PROVE tcb'[t].priority <= INT8_MAX
    <2>1. Current = running
        BY <1>7, InLibrary, CurrentIsRunning DEF UnlockRestore, Running
    <2> DEFINE before == mutex[m].holding_thread_priority
    <2>2. \/ \E a, c : tcb' = [tcb EXCEPT ![running] =
                        [tcb[running] EXCEPT !.acq_locks = a, !.priority = before, !.cycles_left = c]]
          \/ \E a : tcb' = [tcb EXCEPT ![running].acq_locks = a]
        BY <1>7, <2>1 DEF UnlockRestore
    <2>3. before <= INT8_MAX
        BY DEF BoundInv
    <2> HIDE DEF before
    <2>4. CASE \E a, c : tcb' = [tcb EXCEPT ![running] =
                        [tcb[running] EXCEPT !.acq_locks = a, !.priority = before, !.cycles_left = c]]
        BY <1>0, <2>3, <2>4 DEF TcbType
    <2>5. CASE \E a : tcb' = [tcb EXCEPT ![running].acq_locks = a]
        BY <1>0, <2>5 DEF TcbType
    <2>6. QED
        BY <2>2, <2>4, <2>5
<1>8. ASSUME NEW m \in Mutexes, MutexInit(m) \/ LockHoist(m) \/ LockOwner(m) \/ Unlock(m)
      PROVE  UNCHANGED tcb
    BY <1>8 DEF MutexInit, LockHoist, LockOwner, Unlock, schedVars
<1>9. ASSUME NEW m \in Mutexes, LockExit(m) PROVE PrioritiesKept
    BY <1>0, <1>9, FieldKeepsPriority DEF LockExit
<1>10. CASE QuietStep
    BY <1>0, <1>10, QuietPriorities DEF PrioritiesKept
<1>11. CASE FirstCreate
    BY <1>2, <1>11 DEF FirstCreate, Live
<1>12. QED
    BY <1>0, <1>1, <1>2, <1>3, <1>4, <1>5, <1>6, <1>7, <1>8, <1>9, <1>10, <1>11, QuietOrLoan
    DEF LoanStep, PrioritiesKept

\* A mutex remembers the priority its holder had, or the queue it came from.
LEMMA HoldingBounded ==
    ASSUME RetryInQuantum, HoistAssumption, HeadInv, BoundInv, [Next]_vars, NEW n \in Mutexes
    PROVE  mutex'[n].holding_thread_priority <= INT8_MAX
<1>0. /\ TypeOK /\ tcb \in [Threads -> TcbType] /\ running \in Threads
      /\ mutex \in [Mutexes -> MutexType]
      /\ mutex[n].holding_thread_priority <= INT8_MAX
    BY DEF HeadInv, TypeOK, BoundInv
<1>1. CASE UNCHANGED mutex
    BY <1>0, <1>1
<1>2. CASE QuietStep
    BY <1>0, <1>2, QuietLoans DEF LoansKept
<1>3. CASE ScheduleStep \/ FirstCreate \/ CreateTcb \/ LockBoost \/ LockBoostMove
    BY <1>1, <1>3 DEF ScheduleStep, FirstCreate, CreateTcb, LockBoost, LockBoostMove,
       LockBoostPriority, pthreadVars, lockVars
<1>4. ASSUME NEW m \in Mutexes, MutexInit(m) PROVE mutex'[n].holding_thread_priority <= INT8_MAX
    BY <1>0, <1>4 DEF MutexInit, FreshMutex, INT8_MAX, MutexType
<1>5. ASSUME NEW m \in Mutexes, NEW c,
             \/ mutex' = [mutex EXCEPT ![m].hoisted_priority = c]
             \/ mutex' = [mutex EXCEPT ![m].owner = c]
             \/ mutex' = [mutex EXCEPT ![m].locked = c]
      PROVE  mutex'[n].holding_thread_priority <= INT8_MAX
    BY <1>0, <1>5 DEF MutexType
<1>6. ASSUME NEW m \in Mutexes, LockHoist(m) \/ LockOwner(m) \/ LockExit(m) \/ Unlock(m)
                                \/ UnlockRestore(m)
      PROVE  mutex'[n].holding_thread_priority <= INT8_MAX
    BY <1>1, <1>5, <1>6 DEF LockHoist, LockOwner, LockExit, Unlock, UnlockRestore, lockVars
<1>7. ASSUME NEW m \in Mutexes, LockAdjust(m)
      PROVE  mutex'[n].holding_thread_priority <= INT8_MAX
    <2>1. Current = running
        BY <1>7, InLibrary, CurrentIsRunning DEF LockAdjust, Running
    <2>2. \/ \E c : mutex' = [mutex EXCEPT ![m].hoisted_priority = c]
          \/ \E c, d : /\ mutex' = [mutex EXCEPT ![m] =
                            [@ EXCEPT !.hoisted_priority = c, !.holding_thread_priority = d]]
                       /\ d \in {curr_prio, tcb[running].priority}
        BY <1>7, <2>1 DEF LockAdjust
    <2>3. curr_prio <= INT8_MAX /\ tcb[running].priority <= INT8_MAX
        BY <1>0, SchedulerAssumption DEF BoundInv, HoistAssumption, TypeOK, Prios, INT8_MAX
    <2>4. CASE \E c : mutex' = [mutex EXCEPT ![m].hoisted_priority = c]
        BY <1>5, <2>4
    <2>5. ASSUME NEW c, NEW d, d <= INT8_MAX,
                 mutex' = [mutex EXCEPT ![m] =
                            [@ EXCEPT !.hoisted_priority = c, !.holding_thread_priority = d]]
          PROVE  mutex'[n].holding_thread_priority <= INT8_MAX
        BY <1>0, <2>5 DEF MutexType
    <2>6. QED
        BY <2>2, <2>3, <2>4, <2>5
<1>8. QED
    BY <1>1, <1>2, <1>3, <1>4, <1>6, <1>7, QuietOrLoan DEF LoanStep

\* A thread that raises the signal has said why.
LEMMA RaisesSaid ==
    ASSUME RetryInQuantum, HeadInv, UnbornInv, SectionInv, BoundInv, [Next]_vars, NEW t \in Threads
    PROVE  /\ pc'[t] \in {"raise_yield", "raise_retry"} => tcb'[t].cycles_left = -1
           /\ pc'[t] \in {"raise_exit", "raise_join"} => tcb'[t].status # "READY"
<1>0. TypeOK /\ tcb \in [Threads -> TcbType] /\ running \in Threads
    BY DEF HeadInv, TypeOK
<1>1. SUFFICES ASSUME pc'[t] \in RaiseLabels
               PROVE  /\ pc'[t] \in {"raise_yield", "raise_retry"} => tcb'[t].cycles_left = -1
                      /\ pc'[t] \in {"raise_exit", "raise_join"} => tcb'[t].status # "READY"
    BY DEF RaiseLabels
<1>2. RaiseEntry(t)
    BY <1>0, <1>1, RaisesEntered
<1>3. CASE UNCHANGED vars
    BY <1>3 DEF vars, schedVars, pthreadVars, BoundInv
<1>4. CASE t = running /\ (Yield \/ LockYield \/ ExitDone \/ JoinBlock)
    <2>1. Current = running
        <3>1. Live /\ handler = "idle"
            BY <1>4, InLibrary DEF Yield, LockYield, ExitDone, JoinBlock, Calls, Running, Live
        <3>2. QED
            BY <3>1, CurrentIsRunning
    <2>2. CASE Yield \/ LockYield
        <3>1. tcb'[t].cycles_left = -1
            BY <1>0, <1>4, <2>1, <2>2 DEF Yield, LockYield, TcbType
        <3>2. pc'[t] \in {"raise_yield", "raise_retry"}
            BY <1>0, <1>4, <2>2 DEF Yield, LockYield, Goto, TypeOK
        <3>3. QED
            BY <3>1, <3>2
    <2>3. CASE ExitDone \/ JoinBlock
        <3>1. tcb'[t].status # "READY"
            BY <1>0, <1>4, <2>1, <2>3 DEF ExitDone, JoinBlock, TcbType
        <3>2. pc'[t] \in {"raise_exit", "raise_join"}
            BY <1>0, <1>4, <2>3 DEF ExitDone, JoinBlock, Goto, TypeOK
        <3>3. QED
            BY <3>1, <3>2
    <2>4. QED
        BY <1>4, <2>2, <2>3
<1>5. QED
    BY <1>2, <1>3, <1>4 DEF RaiseEntry

\* The handler is started by a tick or a signal.
LEMMA HandlerReason ==
    ASSUME RetryInQuantum, HeadInv, BoundInv, [Next]_vars, handler' = "schedule"
    PROVE  \/ tcb'[running'].status # "READY"
           \/ tcb'[running'].cycles_left = -1
           \/ tcb'[running'].priority <= MaxPriority
<1>0. TypeOK /\ running \in Threads
    BY DEF HeadInv, TypeOK
<1>1. CASE handler = "schedule" /\ UNCHANGED << tcb, running >>
    BY <1>1 DEF BoundInv
<1>2. CASE UNCHANGED vars \/ Halted
    BY <1>1, <1>2 DEF Halted, vars, schedVars
<1>3. CASE Tick
    <2>1. Live /\ Current = running /\ UNCHANGED << tcb, running >>
        BY <1>3, CurrentIsRunning DEF Tick, Live, HeadInv, BeforeFirstCreate
    <2>2. tcb[running].priority <= MaxPriority
        BY <1>3, <2>1 DEF Tick, Live
    <2>3. QED
        BY <2>1, <2>2
<1>4. CASE Raise
    <2>1. UNCHANGED << tcb, running >> /\ pc[running] \in RaiseLabels
        BY <1>4 DEF Raise, Running, AfterRaise, RaiseLabels
    <2>2. QED
        BY <1>0, <2>1 DEF BoundInv, RaiseLabels
<1>5. CASE ScheduleStep
    <2>1. CASE KeepRunning \/ Requeue \/ Leave
        BY <2>1 DEF KeepRunning, Requeue, Leave, NextPhase
    <2>2. CASE FreeGarbage
        BY <1>1, <2>2 DEF FreeGarbage
    <2>3. CASE Maintenance \/ Dispatch \/ Teardown
        BY <2>3 DEF Maintenance, MaintainNextQueue, MaintainKeep, MaintainMove, MaintainEnd,
           Scanning, Dispatch, Teardown
    <2>4. QED
        BY <1>5, <2>1, <2>2, <2>3 DEF ScheduleStep, Schedule
<1>6. CASE LibraryStep /\ ~Raise
    <2>1. handler' = IF pc[running] \in DOMAIN AfterRaise THEN "schedule" ELSE "idle"
        BY <1>0, <1>6, LibraryMoves
    <2>2. pc[running] \notin DOMAIN AfterRaise
        BY QuietRetry, <1>6
        DEF LibraryStep, AfterRaise, CreateInsert, CreatePut, ExitWake, ExitDone, JoinWait,
            JoinBlock, JoinDone, LockBoost, LockBoostMove, LockBoostPriority, LockYield, LockTry,
            LockHoist, LockOwner, LockAdjust, LockExit, UnlockRestore, Running
    <2>3. QED
        BY <2>1, <2>2
<1>7. CASE UserCall
    <2>1. handler = "idle" /\ UNCHANGED handler
        BY <1>7 DEF UserCall, Compute, FirstCreate, CreateTcb, Yield, Exit, Join, MutexInit,
           MutexDestroy, Lock, Unlock, Running, Calls, vars, schedVars
    <2>2. QED
        BY <2>1
<1>8. QED
    BY <1>2, <1>3, <1>4, <1>5, <1>6, <1>7 DEF Next

LEMMA BoundStep ==
    ASSUME RetryInQuantum,
           HoistAssumption, HeadInv, SectionInv, UnbornInv, JoinInv, BoundInv, [Next]_vars
    PROVE  BoundInv'
<1>1. /\ \A t \in Threads : tcb'[t].priority <= INT8_MAX
      /\ \A m \in Mutexes : mutex'[m].holding_thread_priority <= INT8_MAX
      /\ \A t \in Threads :
          /\ pc'[t] \in {"raise_yield", "raise_retry"} => tcb'[t].cycles_left = -1
          /\ pc'[t] \in {"raise_exit", "raise_join"} => tcb'[t].status # "READY"
    BY PrioritiesBounded, HoldingBounded, RaisesSaid
<1>2. handler' = "schedule" =>
          \/ tcb'[running'].status # "READY"
          \/ tcb'[running'].cycles_left = -1
          \/ tcb'[running'].priority <= MaxPriority
    BY HandlerReason
<1>3. QED
    BY <1>1, <1>2 DEF BoundInv

-----------------------------------------------------------------------------
(* Owners *)

OwnersKept == \A m \in Mutexes : mutex'[m].owner = mutex[m].owner

\* A step that gives nobody a mutex and takes no waiter to the boost.
LEMMA OwnerFrame ==
    ASSUME OwnerInv, OwnersKept, \A t \in Threads : holds'[t] \subseteq holds[t],
           \A t \in Threads :
              /\ pc'[t] # "lock_boost"
              /\ pc'[t] \in {"lock_adjust", "lock_exit"} =>
                    pc[t] \in {"lock_adjust", "lock_exit"} /\ mtx'[t] = mtx[t]
              /\ pc'[t] = "unlock_restore" => pc[t] = "unlock_restore" /\ mtx'[t] = mtx[t]
    PROVE  OwnerInv'
<1>1. ASSUME NEW t \in Threads, NEW m \in Mutexes,
             m \in holds'[t] \/ (pc'[t] \in {"lock_adjust", "lock_exit"} /\ mtx'[t] = m)
      PROVE  mutex'[m].owner = t
    BY <1>1 DEF OwnerInv, OwnersKept
<1>2. ASSUME NEW t \in Threads, pc'[t] = "unlock_restore"
      PROVE  mtx'[t] \notin holds'[t]
    BY <1>2 DEF OwnerInv
<1>3. QED
    BY <1>1, <1>2 DEF OwnerInv

\* The same, of the running thread's step to another label.
LEMMA OwnerGoto ==
    ASSUME TypeOK, TightInv, OwnerInv, OwnersKept, \A t \in Threads : holds'[t] \subseteq holds[t],
           NEW label \in {"lock_yield", "lock_exit", "user", "create_insert"}, Goto(label),
           pc[running] \in LockLabels \/ label # "lock_exit",
           \A t \in Threads : mtx'[t] = mtx[t] \/ (t = running /\ label = "user"),
           label = "lock_exit" => pc[running] = "lock_adjust"
    PROVE  OwnerInv'
<1>0. running \in Threads /\ pc \in [Threads -> Labels]
    BY DEF TypeOK
<1>1. \A t \in Threads : pc[t] = "lock_boost" => t = running
    BY DEF TightInv, TightLabels, LockLabels
<1>2. pc'[running] = label /\ \A t \in Threads \ {running} : pc'[t] = pc[t]
    BY <1>0 DEF Goto
<1>3. QED
    BY <1>0, <1>1, <1>2, OwnerFrame

\* Only the owner of a mutex has it.
LEMMA TakerAlone ==
    ASSUME LockInv, CountInv, TypeOK, NEW m \in Mutexes,
           pc[running] \in {"lock_owner", "lock_adjust", "lock_exit"}, mtx[running] = m,
           NEW t \in Threads, Owns(t, m)
    PROVE  t = running /\ m \notin holds[running]
<1>1. running \in Threads /\ Owns(running, m)
    BY DEF TypeOK, Owns
<1>2. m \notin holds[running]
    BY <1>1 DEF CountInv, Locking, LockLabels
<1>3. QED
    BY <1>1, <1>2 DEF LockInv

LEMMA OwnerInvStep ==
    ASSUME RetryInQuantum, HeadInv, UnbornInv, CountInv, LockInv, TightInv, OwnerInv, [Next]_vars
    PROVE  OwnerInv'
<1> USE DEF Running
<1>0. /\ TypeOK /\ running \in Threads /\ pc \in [Threads -> Labels]
      /\ mutex \in [Mutexes -> MutexType] /\ holds \in [Threads -> SUBSET Mutexes]
      /\ arg \in [Threads -> Threads \cup {NoThread}] /\ mtx \in [Threads -> Mutexes \cup {NoMutex}]
      /\ tcb \in [Threads -> TcbType]
    BY DEF HeadInv, TypeOK
<1>a. \A t \in Threads : pc[t] = "lock_boost" => t = running /\ handler = "idle"
    BY DEF TightInv, TightLabels, LockLabels
<1>b. UNCHANGED mutex => OwnersKept
    BY DEF OwnersKept
<1>1. CASE QuietStep
    <2>1. Quiet
        BY <1>0, <1>1, QuietSteps
    <2>2. ASSUME NEW t \in Threads PROVE OwnerInv!(t)'
        <3>1. CASE pc'[t] = pc[t] /\ mtx'[t] = mtx[t] /\ arg'[t] = arg[t]
            BY <1>0, <2>1, <3>1 DEF Quiet, LoansKept, PrioritiesKept, OwnerInv
        <3>2. CASE pc'[t] \notin LoanLabels
            BY <2>1, <3>2 DEF Quiet, LoansKept, LoanLabels, OwnerInv
        <3>3. QED
            BY <2>1, <3>1, <3>2 DEF Quiet, LabelsQuiet
    <2>3. QED
        BY <2>2 DEF OwnerInv
<1>2. CASE ScheduleStep
    <2>1. UNCHANGED pthreadVars /\ handler # "idle"
        BY <1>2 DEF ScheduleStep, Schedule, KeepRunning, Requeue, Leave, Entry, FreeGarbage,
           Maintenance, MaintainNextQueue, MaintainKeep, MaintainMove, MaintainEnd, Scanning,
           Dispatch, Teardown
    <2>2. QED
        BY <1>a, <1>b, <2>1, OwnerFrame DEF pthreadVars
<1>3. CASE FirstCreate
    <2>1. \A t \in Threads : pc[t] \in {"user", "unborn"}
        BY <1>3 DEF FirstCreate, HeadInv, BeforeFirstCreate, UnbornInv, Threads
    <2>2. \A t \in Threads : pc'[t] \in {"user", "unborn"}
        BY <1>0, <1>3, <2>1 DEF FirstCreate
    <2>3. QED
        BY <1>3, <1>b, <2>2, OwnerFrame DEF FirstCreate, lockVars
<1>4. CASE CreateTcb
    <2>1. /\ tid + 1 \in Threads /\ pc[running] = "user" /\ UNCHANGED << mtx, mutex, holds >>
          /\ pc' = [pc EXCEPT ![running] = "create_insert", ![tid + 1] = "user"]
        BY <1>4, <1>0, NextId DEF CreateTcb, Calls, lockVars
    <2>2. \A t \in Threads : pc'[t] = pc[t] \/ pc'[t] \in {"create_insert", "user"}
        BY <1>0, <2>1
    <2>3. QED
        BY <1>a, <1>b, <2>1, <2>2, OwnerFrame
<1>5. CASE LockBoost \/ LockBoostMove
    <2>1. Goto("lock_yield") /\ UNCHANGED << mtx, mutex, holds >>
        BY <1>5 DEF LockBoost, LockBoostMove, LockBoostPriority, lockVars
    <2>2. QED
        BY <1>0, <1>b, <2>1, OwnerGoto
<1>6. ASSUME NEW m \in Mutexes, MutexInit(m) PROVE OwnerInv'
    <2>1. /\ mutex' = [mutex EXCEPT ![m] = FreshMutex] /\ m \notin inited
          /\ UNCHANGED << tcb, pc, arg, mtx, holds >> /\ pc[running] = "user"
        BY <1>6 DEF MutexInit, schedVars
    <2>2. ASSUME NEW t \in Threads PROVE OwnerInv!(t)'
        <3>1. ~Owns(t, m)
            BY <2>1 DEF LockInv
        <3>2. QED
            BY <1>0, <1>a, <2>1, <3>1 DEF OwnerInv, Owns
    <2>3. QED
        BY <2>2 DEF OwnerInv
<1>7. ASSUME NEW m \in Mutexes, LockHoist(m) PROVE OwnerInv'
    <2>1. /\ pc[running] = "lock_hoist" /\ mtx[running] = m /\ Current = running
          /\ UNCHANGED << tcb, mtx, holds >>
        BY <1>7, InLibrary, CurrentIsRunning DEF LockHoist
    <2>2. OwnersKept
        BY <1>0, <1>7 DEF LockHoist, OwnersKept, MutexType
    <2>3. \/ UNCHANGED << pc, arg >>
          \/ Goto("lock_yield") /\ UNCHANGED arg
          \/ /\ arg' = [arg EXCEPT ![running] = mutex[m].owner]
             /\ \/ Goto("lock_try") \/ Goto("lock_yield")
                \/ /\ Goto("lock_boost")
                   /\ mutex' = [mutex EXCEPT ![m].hoisted_priority = tcb[running].priority]
        BY <1>7, <2>1 DEF LockHoist, AfterHoist
    <2>4. \A t \in Threads : \/ pc'[t] = pc[t]
                             \/ t = running /\ pc'[t] \in {"lock_yield", "lock_try", "lock_boost"}
        BY <1>0, <2>3 DEF Goto
    <2>5. ASSUME ~Goto("lock_boost") PROVE OwnerInv'
        <3>1. \A t \in Threads : pc'[t] # "lock_boost"
            BY <1>0, <1>a, <2>1, <2>3, <2>5 DEF Goto
        <3>2. QED
            BY <2>1, <2>2, <2>4, <3>1, OwnerFrame
    <2>6. CASE Goto("lock_boost")
        <3>1. /\ arg' = [arg EXCEPT ![running] = mutex[m].owner]
              /\ mutex' = [mutex EXCEPT ![m].hoisted_priority = tcb[running].priority]
            <4>1. pc'[running] = "lock_boost"
                BY <1>0, <2>6 DEF Goto
            <4>2. ~Goto("lock_yield") /\ ~Goto("lock_try") /\ ~UNCHANGED pc
                BY <1>0, <2>1, <4>1 DEF Goto
            <4>3. QED
                BY <2>3, <4>2
        <3>2. arg'[running] = mutex'[m].owner /\ mutex'[m].hoisted_priority = tcb'[running].priority
            BY <1>0, <2>1, <3>1 DEF MutexType
        <3>3. ASSUME NEW t \in Threads PROVE OwnerInv!(t)'
            <4>1. pc'[t] = "lock_boost" => t = running
                BY <1>a, <2>4
            <4>2. \A n \in Mutexes :
                      n \in holds'[t] \/ (pc'[t] \in {"lock_adjust", "lock_exit"} /\ mtx'[t] = n) =>
                          mutex'[n].owner = t
                BY <2>1, <2>2, <2>4 DEF OwnerInv, OwnersKept
            <4>3. pc'[t] = "unlock_restore" => mtx'[t] \notin holds'[t]
                BY <2>1, <2>4 DEF OwnerInv
            <4>4. QED
                BY <2>1, <3>2, <4>1, <4>2, <4>3
        <3>4. QED
            BY <3>3 DEF OwnerInv
    <2>7. QED
        BY <2>5, <2>6
<1>8. ASSUME NEW m \in Mutexes, LockOwner(m) PROVE OwnerInv'
    <2>1. /\ pc[running] = "lock_owner" /\ mtx[running] = m /\ Current = running
          /\ UNCHANGED << mtx, holds >> /\ Goto("lock_adjust")
          /\ mutex' = [mutex EXCEPT ![m].owner = running]
        BY <1>8, InLibrary, CurrentIsRunning DEF LockOwner
    <2>2. /\ mutex'[m].owner = running
          /\ \A n \in Mutexes \ {m} : mutex'[n] = mutex[n]
        BY <1>0, <2>1 DEF MutexType
    <2>3. pc'[running] = "lock_adjust" /\ \A t \in Threads \ {running} : pc'[t] = pc[t]
        BY <1>0, <2>1 DEF Goto
    <2>4. ASSUME NEW t \in Threads PROVE OwnerInv!(t)'
        <3>1. CASE t = running
            BY <2>1, <2>2, <2>3, <3>1 DEF OwnerInv
        <3>2. CASE t # running
            <4>1. ~Owns(t, m)
                BY <1>0, <2>1, <3>2, TakerAlone
            <4>2. pc'[t] = pc[t] /\ pc[t] # "lock_boost"
                BY <1>a, <2>1, <2>3, <3>2
            <4>3. QED
                BY <2>1, <2>2, <4>1, <4>2 DEF OwnerInv, Owns
        <3>3. QED
            BY <3>1, <3>2
    <2>5. QED
        BY <2>4 DEF OwnerInv
<1>9. ASSUME NEW m \in Mutexes, LockAdjust(m) PROVE OwnerInv'
    <2>1. /\ pc[running] = "lock_adjust" /\ UNCHANGED << mtx, holds >> /\ Goto("lock_exit")
        BY <1>9 DEF LockAdjust
    <2>2. OwnersKept
        <3> DEFINE own == tcb[Current].priority
                   least == Least(mutex[m].hoisted_priority, own)
        <3>1. \/ mutex' = [mutex EXCEPT ![m].hoisted_priority = least]
              \/ mutex' = [mutex EXCEPT ![m] = [@ EXCEPT !.hoisted_priority = INT8_MAX,
                                                         !.holding_thread_priority = curr_prio]]
              \/ mutex' = [mutex EXCEPT ![m] = [@ EXCEPT !.hoisted_priority = least,
                                                         !.holding_thread_priority = own]]
            BY <1>9 DEF LockAdjust
        <3> HIDE DEF least, own
        <3>2. ASSUME NEW c, NEW d, mutex' = [mutex EXCEPT ![m] =
                             [@ EXCEPT !.hoisted_priority = c, !.holding_thread_priority = d]]
              PROVE  OwnersKept
            BY <1>0, <3>2 DEF OwnersKept, MutexType
        <3>3. CASE mutex' = [mutex EXCEPT ![m].hoisted_priority = least]
            BY <1>0, <3>3 DEF OwnersKept, MutexType
        <3>4. QED
            BY <3>1, <3>2, <3>3
    <2>3. QED
        BY <1>0, <2>1, <2>2, OwnerGoto DEF LockLabels
<1>10. ASSUME NEW m \in Mutexes, LockExit(m) PROVE OwnerInv'
    <2>1. /\ pc[running] = "lock_exit" /\ mtx[running] = m /\ UNCHANGED mutex
          /\ holds' = [holds EXCEPT ![running] = @ \cup {m}] /\ Goto("user")
          /\ mtx' = [mtx EXCEPT ![running] = NoMutex]
        BY <1>10 DEF LockExit, Return
    <2>2. pc'[running] = "user" /\ \A t \in Threads \ {running} : pc'[t] = pc[t]
        BY <1>0, <2>1 DEF Goto
    <2>3. ASSUME NEW t \in Threads PROVE OwnerInv!(t)'
        <3>1. CASE t = running
            BY <1>0, <2>1, <2>2, <3>1 DEF OwnerInv
        <3>2. CASE t # running
            <4>1. /\ pc'[t] = pc[t] /\ pc[t] # "lock_boost" /\ holds'[t] = holds[t]
                  /\ mtx'[t] = mtx[t]
                BY <1>0, <1>a, <2>1, <2>2, <3>2
            <4>2. QED
                BY <2>1, <4>1 DEF OwnerInv
        <3>3. QED
            BY <3>1, <3>2
    <2>4. QED
        BY <2>3 DEF OwnerInv
<1>11. ASSUME NEW m \in Mutexes, Unlock(m) PROVE OwnerInv'
    <2>1. /\ pc[running] = "user" /\ mutex' = [mutex EXCEPT ![m].locked = FALSE]
          /\ holds' = [holds EXCEPT ![running] = @ \ {m}] /\ Goto("unlock_restore")
          /\ mtx' = [mtx EXCEPT ![running] = m]
        BY <1>11 DEF Unlock, Calls
    <2>2. OwnersKept
        BY <1>0, <2>1 DEF OwnersKept, MutexType
    <2>3. pc'[running] = "unlock_restore" /\ \A t \in Threads \ {running} : pc'[t] = pc[t]
        BY <1>0, <2>1 DEF Goto
    <2>4. ASSUME NEW t \in Threads PROVE OwnerInv!(t)'
        <3>1. CASE t = running
            BY <1>0, <2>1, <2>2, <2>3, <3>1 DEF OwnerInv, OwnersKept
        <3>2. CASE t # running
            <4>1. /\ pc'[t] = pc[t] /\ pc[t] # "lock_boost" /\ holds'[t] = holds[t]
                  /\ mtx'[t] = mtx[t]
                BY <1>0, <1>a, <2>1, <2>3, <3>2
            <4>2. QED
                BY <2>2, <4>1 DEF OwnerInv, OwnersKept
        <3>3. QED
            BY <3>1, <3>2
    <2>5. QED
        BY <2>4 DEF OwnerInv
<1>12. ASSUME NEW m \in Mutexes, UnlockRestore(m) PROVE OwnerInv'
    <2>1. /\ UNCHANGED << mutex, holds >> /\ Goto("user")
          /\ mtx' = [mtx EXCEPT ![running] = NoMutex]
        BY <1>12 DEF UnlockRestore, Return, lockVars
    <2>2. QED
        BY <1>0, <1>b, <2>1, OwnerGoto
<1>13. QED
    BY <1>1, <1>2, <1>3, <1>4, <1>5, <1>6, <1>7, <1>8, <1>9, <1>10, <1>11, <1>12, QuietOrLoan
    DEF LoanStep

-----------------------------------------------------------------------------
(* Loans *)

LentKept == \A m \in Mutexes : mutex'[m].hoisted_priority = mutex[m].hoisted_priority

\* A step that makes no holder, no priority worse and no loan better.
LEMMA HoistFrame ==
    ASSUME HoistInv, TypeOK, Live' => Live, LentKept,
           \A h \in Threads :
              tcb'[h].status # "DONE" => tcb[h].status # "DONE",
           \A h \in Threads, m \in Mutexes :
              Holder(h, m)' => Holder(h, m) /\ tcb'[h].priority <= tcb[h].priority
                               /\ (Boosting(h, m) => Boosting(h, m)'),
           \A h \in Threads : tcb'[h].priority \in Nat
    PROVE  HoistInv'
<1>1. \A h \in Threads, m \in Mutexes :
         mutex[m].hoisted_priority \in Nat /\ tcb[h].priority \in Nat
    BY DEF TypeOK, TcbType, MutexType
<1>2. ASSUME Live', NEW h \in Threads, NEW m \in Mutexes, tcb'[h].status # "DONE", Holder(h, m)'
      PROVE  tcb'[h].priority <= mutex'[m].hoisted_priority \/ Boosting(h, m)'
    <2>1. tcb[h].priority <= mutex[m].hoisted_priority \/ Boosting(h, m)
        BY <1>2 DEF HoistInv
    <2>2. CASE Boosting(h, m)
        BY <1>2, <2>2
    <2>3. CASE tcb[h].priority <= mutex[m].hoisted_priority
        BY <1>1, <1>2, <2>3 DEF LentKept
    <2>4. QED
        BY <2>1, <2>2, <2>3
<1>3. QED
    BY <1>2 DEF HoistInv

LEMMA HoistInvStep ==
    ASSUME RetryInQuantum,
           HoistAssumption, HeadInv, UnbornInv, SectionInv, JoinInv, CountInv, LockInv, TightInv,
           BoundInv, OwnerInv, HoistInv, [Next]_vars
    PROVE  HoistInv'
<1> USE DEF Running
<1>0. /\ TypeOK /\ running \in Threads /\ pc \in [Threads -> Labels]
      /\ mutex \in [Mutexes -> MutexType] /\ holds \in [Threads -> SUBSET Mutexes]
      /\ arg \in [Threads -> Threads \cup {NoThread}] /\ mtx \in [Threads -> Mutexes \cup {NoMutex}]
      /\ tcb \in [Threads -> TcbType] /\ \A t \in Threads : tcb[t].priority \in Nat
    BY DEF HeadInv, TypeOK, TcbType
<1>a. \A t \in Threads : pc[t] \in TightLabels => t = running /\ handler = "idle"
    BY DEF TightInv
<1>b. \A t \in Threads : tcb'[t].priority \in Nat
    <2>1. TypeOK'
        BY HeadInvStep DEF HeadInv
    <2>2. QED
        BY <2>1 DEF TypeOK, TcbType
<1>c. Live => \A h \in Threads : tcb'[h].status # "DONE" => tcb[h].status # "DONE"
    BY StatusStep DEF StatusKept
<1>d. UNCHANGED mutex \/ LoansKept => LentKept
    BY DEF LoansKept, LentKept
<1>e. PrioritiesKept => \A t \in Threads : tcb'[t].priority <= tcb[t].priority
    BY <1>0 DEF PrioritiesKept
<1>f. \A t \in Threads, m \in Mutexes : Holder(t, m) => Owns(t, m) /\ mutex[m].owner = t
    BY DEF Holder, Owns, OwnerInv
<1>1. CASE FirstCreate
    <2>1. /\ \A t \in Threads : pc[t] \in {"user", "unborn"}
          /\ \A t \in Threads : holds[t] = {}
        BY <1>1 DEF FirstCreate, HeadInv, BeforeFirstCreate, UnbornInv, Threads, CountInv
    <2>2. \A t \in Threads : pc'[t] \in {"user", "unborn"} /\ holds'[t] = {}
        BY <1>0, <1>1, <2>1 DEF FirstCreate, lockVars
    <2>3. QED
        BY <2>2 DEF HoistInv, Holder
<1>2. CASE ~Live /\ ~FirstCreate
    <2>1. UNCHANGED << schedVars, tid >>
        BY <1>2, DeadStep
    <2>2. QED
        BY <1>2, <2>1 DEF HoistInv, Live, schedVars
<1>3. CASE Live /\ QuietStep
    <2>1. Quiet
        BY <1>0, <1>3, QuietSteps
    <2>2. ASSUME NEW h \in Threads, NEW m \in Mutexes, Holder(h, m)'
          PROVE  Holder(h, m) /\ (Boosting(h, m) => Boosting(h, m)')
        BY <1>0, <2>1, <2>2 DEF Quiet, LabelsQuiet, LoanLabels, Holder, Boosting
    <2>3. QED
        BY <1>0, <1>3, <1>b, <1>c, <1>d, <1>e, <2>1, <2>2, HoistFrame DEF Quiet
<1>4. CASE Live /\ ScheduleStep
    <2>1. UNCHANGED pthreadVars /\ handler # "idle" /\ Schedule
        BY <1>4 DEF ScheduleStep, Schedule, KeepRunning, Requeue, Leave, Entry, FreeGarbage,
           Maintenance, MaintainNextQueue, MaintainKeep, MaintainMove, MaintainEnd, Scanning,
           Dispatch, Teardown
    <2>2. ASSUME NEW h \in Threads, NEW m \in Mutexes, Holder(h, m)'
          PROVE  /\ Holder(h, m) /\ ~Boosting(h, m)
                 /\ tcb'[h].priority <= tcb[h].priority
        <3>1. Holder(h, m)
            BY <2>1, <2>2 DEF pthreadVars, Holder
        <3>2. ~Boosting(h, m)
            BY <1>0, <1>a, <2>1 DEF Boosting, TightLabels, LockLabels
        <3>3. m \in holds[h]
            BY <1>a, <2>1, <3>1 DEF Holder, TightLabels, LockLabels
        <3>4. tcb[h].acq_locks > 0
            <4>1. IsFiniteSet(holds[h]) /\ Cardinality(holds[h]) \in Nat /\ holds[h] # {}
                BY <3>3, FS_CardinalityType DEF CountInv
            <4>2. Cardinality(holds[h]) # 0
                BY <4>1, FS_EmptySet
            <4>3. tcb[h].acq_locks = Cardinality(holds[h]) +
                                     (IF pc[h] = "unlock_restore" THEN 1 ELSE 0)
                BY DEF CountInv
            <4>4. QED
                BY <4>1, <4>2, <4>3
        <3>5. ~UsedUp(h)
            BY <1>0, <3>4 DEF UsedUp, TcbType
        <3>6. QED
            BY <1>4, <2>1, <3>1, <3>2, <3>5, HandlerPriorities
    <2>3. QED
        BY <1>0, <1>4, <1>b, <1>c, <1>d, <2>1, <2>2, HoistFrame DEF pthreadVars
<1>5. CASE CreateTcb
    <2>1. /\ tid + 1 \in Threads /\ pc[running] = "user" /\ UNCHANGED << mtx, mutex, holds >>
          /\ pc' = [pc EXCEPT ![running] = "create_insert", ![tid + 1] = "user"]
          /\ pc[tid + 1] = "unborn" /\ tid + 1 # running
          /\ tcb' = [tcb EXCEPT ![tid + 1] = FreshTcb("READY")] /\ Live
        BY <1>5, <1>0, NextId DEF CreateTcb, Calls, lockVars, UnbornInv, Live
    <2>2. ASSUME NEW h \in Threads, NEW m \in Mutexes, Holder(h, m)'
          PROVE  Holder(h, m) /\ tcb'[h].priority <= tcb[h].priority /\ ~Boosting(h, m)
        <3>1. h # tid + 1
            BY <1>0, <2>1, <2>2 DEF Holder, CountInv
        <3>2. QED
            BY <1>0, <2>1, <2>2, <3>1 DEF Holder, Boosting
    <2>3. QED
        BY <1>0, <1>b, <1>c, <1>d, <2>1, <2>2, HoistFrame
<1>6. CASE LockBoost \/ LockBoostMove
    <2>1. /\ Live /\ handler = "idle" /\ pc[running] = "lock_boost" /\ arg[running] \in Threads
          /\ tcb'[arg[running]].priority = tcb[Current].priority
          /\ \A t \in Threads \ {arg[running]} : tcb'[t].priority = tcb[t].priority
        BY <1>6, BoostPriority DEF Boosted
    <2>2. Current = running /\ Goto("lock_yield") /\ UNCHANGED << arg, mtx, mutex, holds, running >>
        BY <1>6, <2>1, CurrentIsRunning
        DEF LockBoost, LockBoostMove, LockBoostPriority, LibraryFrame, lockVars
    <2>3. /\ mtx[running] \in Mutexes /\ arg[running] = mutex[mtx[running]].owner
          /\ mutex[mtx[running]].hoisted_priority = tcb[running].priority
        BY <1>0, <2>1 DEF OwnerInv
    <2>4. ASSUME Live', NEW h \in Threads, NEW m \in Mutexes, tcb'[h].status # "DONE", Holder(h, m)'
          PROVE  tcb'[h].priority <= mutex'[m].hoisted_priority \/ Boosting(h, m)'
        <3>1. m = mtx[running]
            BY <2>3 DEF HoistAssumption
        <3>2. CASE h = arg[running]
            BY <1>0, <2>1, <2>2, <2>3, <3>1, <3>2
        <3>3. CASE h # arg[running]
            <4>1. Holder(h, m) /\ ~Boosting(h, m)
                BY <1>0, <2>2, <2>4, <3>3 DEF Holder, Boosting, Goto
            <4>2. tcb[h].priority <= mutex[m].hoisted_priority
                BY <1>c, <2>1, <2>4, <4>1 DEF HoistInv
            <4>3. QED
                BY <2>1, <2>2, <3>3, <4>2
        <3>4. QED
            BY <3>2, <3>3
    <2>5. QED
        BY <2>4 DEF HoistInv
<1>7. ASSUME NEW n \in Mutexes, MutexInit(n), Live PROVE HoistInv'
    <2>1. /\ mutex' = [mutex EXCEPT ![n] = FreshMutex] /\ n \notin inited
          /\ UNCHANGED << tcb, pc, arg, mtx, holds, running, halt, tid >>
        BY <1>7 DEF MutexInit, schedVars
    <2>2. ASSUME Live', NEW h \in Threads, NEW m \in Mutexes, tcb'[h].status # "DONE", Holder(h, m)'
          PROVE  tcb'[h].priority <= mutex'[m].hoisted_priority \/ Boosting(h, m)'
        <3>1. Holder(h, m)
            BY <2>1, <2>2 DEF Holder
        <3>2. m # n
            BY <1>f, <2>1, <3>1 DEF LockInv
        <3>3. tcb[h].priority <= mutex[m].hoisted_priority \/ Boosting(h, m)
            BY <1>7, <2>1, <2>2, <3>1 DEF HoistInv
        <3>4. QED
            BY <1>0, <2>1, <3>2, <3>3 DEF Boosting
    <2>3. QED
        BY <2>2 DEF HoistInv
<1>8. ASSUME NEW n \in Mutexes, LockHoist(n), Live PROVE HoistInv'
    <2>1. /\ pc[running] = "lock_hoist" /\ mtx[running] = n /\ Current = running
          /\ UNCHANGED << tcb, mtx, holds, running, tid >>
        BY <1>8, InLibrary, CurrentIsRunning DEF LockHoist, LibraryFrame
    <2>2. ASSUME Live', NEW h \in Threads, NEW m \in Mutexes, tcb'[h].status # "DONE", Holder(h, m)'
          PROVE  tcb'[h].priority <= mutex'[m].hoisted_priority \/ Boosting(h, m)'
        <3>1. m = n
            BY DEF HoistAssumption
        <3>2. Holder(h, m)
            <4>1. pc' = pc \/ \E label : label # "lock_exit" /\ Goto(label)
                BY <1>8 DEF LockHoist, AfterHoist
            <4>2. pc'[h] = "lock_exit" => pc[h] = "lock_exit"
                BY <1>0, <4>1 DEF Goto
            <4>3. QED
                BY <2>1, <2>2, <4>2 DEF Holder
        <3>3. mutex[m].owner = h
            BY <1>f, <3>2
        <3>4. tcb[h].priority <= mutex[m].hoisted_priority
            BY <1>8, <2>1, <2>2, <3>2 DEF HoistInv, Boosting
        <3>5. CASE UNCHANGED mutex
            BY <2>1, <3>4, <3>5
        <3>6. CASE ~UNCHANGED mutex
            <4>1. /\ mutex' = [mutex EXCEPT ![n].hoisted_priority = tcb[running].priority]
                  /\ \/ halt' = "crash"
                     \/ Goto(AfterHoist(h)) /\ arg' = [arg EXCEPT ![running] = h]
                BY <1>8, <2>1, <3>1, <3>3, <3>6 DEF LockHoist
            <4>2. Goto(AfterHoist(h)) /\ arg'[running] = h
                BY <1>0, <2>2, <4>1 DEF Live
            <4>3. mutex'[m].hoisted_priority = tcb[running].priority
                BY <1>0, <3>1, <4>1 DEF MutexType
            <4>4. CASE tcb[h].priority > tcb[running].priority
                <5>1. pc'[running] = "lock_boost"
                    BY <1>0, <2>1, <2>2, <4>2, <4>4 DEF AfterHoist, Goto
                <5>2. QED
                    BY <2>1, <3>1, <4>2, <5>1 DEF Boosting
            <4>5. CASE ~(tcb[h].priority > tcb[running].priority)
                BY <1>0, <2>1, <4>3, <4>5
            <4>6. QED
                BY <4>4, <4>5
        <3>7. QED
            BY <3>5, <3>6
    <2>3. QED
        BY <2>2 DEF HoistInv
<1>9. ASSUME NEW n \in Mutexes, LockAdjust(n), Live PROVE HoistInv'
    <2> DEFINE own == tcb[running].priority
               least == Least(mutex[n].hoisted_priority, own)
    <2>1. /\ pc[running] = "lock_adjust" /\ mtx[running] = n /\ Current = running
          /\ UNCHANGED << mtx, holds, running >> /\ Goto("lock_exit")
        BY <1>9, InLibrary, CurrentIsRunning DEF LockAdjust, LibraryFrame
    <2>2. \/ /\ mutex' = [mutex EXCEPT ![n] = [@ EXCEPT !.hoisted_priority = INT8_MAX,
                                                       !.holding_thread_priority = curr_prio]]
             /\ UNCHANGED tcb
          \/ /\ mutex' = [mutex EXCEPT ![n] = [@ EXCEPT !.hoisted_priority = least,
                                                       !.holding_thread_priority = own]]
             /\ \E c : tcb' = [tcb EXCEPT ![running] =
                                   [tcb[running] EXCEPT !.cycles_left = c, !.priority = least]]
          \/ /\ mutex' = [mutex EXCEPT ![n].hoisted_priority = least]
             /\ least >= own /\ UNCHANGED tcb
        BY <1>9, <2>1 DEF LockAdjust
    <2>3. own \in Nat /\ own <= INT8_MAX /\ least \in Nat
        BY <1>0 DEF BoundInv, Least, MutexType
    <2> HIDE DEF least, own
    <2>4. tcb'[running].priority <= mutex'[n].hoisted_priority
        <3>1. CASE /\ mutex' = [mutex EXCEPT ![n] =
                                   [@ EXCEPT !.hoisted_priority = INT8_MAX,
                                             !.holding_thread_priority = curr_prio]]
                   /\ UNCHANGED tcb
            BY <1>0, <2>3, <3>1 DEF MutexType, own
        <3>2. CASE /\ mutex' = [mutex EXCEPT ![n] = [@ EXCEPT !.hoisted_priority = least,
                                                             !.holding_thread_priority = own]]
                   /\ \E c : tcb' = [tcb EXCEPT ![running] =
                                   [tcb[running] EXCEPT !.cycles_left = c, !.priority = least]]
            <4>1. mutex'[n].hoisted_priority = least
                BY <1>0, <3>2 DEF MutexType
            <4>2. tcb'[running].priority = least
                BY <1>0, <3>2 DEF TcbType
            <4>3. QED
                BY <2>3, <4>1, <4>2
        <3>3. CASE /\ mutex' = [mutex EXCEPT ![n].hoisted_priority = least]
                   /\ least >= own /\ UNCHANGED tcb
            BY <1>0, <2>3, <3>3 DEF MutexType, own
        <3>4. QED
            BY <2>2, <3>1, <3>2, <3>3
    <2>5. ASSUME NEW h \in Threads, NEW m \in Mutexes, Holder(h, m)' PROVE m = n /\ h = running
        <3>1. m = n
            BY DEF HoistAssumption
        <3>2. h # running => pc'[h] = pc[h]
            BY <1>0, <2>1 DEF Goto
        <3>3. h # running => Holder(h, n)
            BY <2>1, <2>5, <3>1, <3>2 DEF Holder
        <3>4. QED
            BY <1>0, <1>f, <2>1, <3>1, <3>3, TakerAlone
    <2>6. QED
        BY <2>4, <2>5 DEF HoistInv
<1>10. ASSUME NEW n \in Mutexes, LockOwner(n) \/ LockExit(n) \/ Unlock(n) \/ UnlockRestore(n), Live
      PROVE  HoistInv'
    <2>1. LentKept
        <3>1. CASE LockOwner(n)
            BY <1>0, <3>1 DEF LockOwner, LentKept, MutexType
        <3>2. CASE LockExit(n) \/ UnlockRestore(n)
            BY <1>d, <3>2 DEF LockExit, UnlockRestore, lockVars
        <3>3. CASE Unlock(n)
            BY <1>0, <3>3 DEF Unlock, LentKept, MutexType
        <3>4. QED
            BY <1>10, <3>1, <3>2, <3>3
    <2>2. /\ pc[running] \in {"lock_owner", "lock_exit", "user", "unlock_restore"}
          /\ pc[running] = "lock_exit" \/ \A t \in Threads : holds'[t] \subseteq holds[t]
          /\ \E label \in {"lock_adjust", "user", "unlock_restore"} : Goto(label)
          /\ \A t \in Threads \ {running} : mtx'[t] = mtx[t] /\ holds'[t] = holds[t]
        BY <1>0, <1>10
        DEF LockOwner, LockExit, Unlock, UnlockRestore, Calls, Return, lockVars
    <2>3. pc[running] = "lock_exit" => mtx[running] = n /\ holds'[running] = holds[running] \cup {n}
        BY <1>0, <1>10 DEF LockOwner, LockExit, Unlock, UnlockRestore, Calls
    <2>4. ASSUME NEW h \in Threads, NEW m \in Mutexes, Holder(h, m)'
          PROVE  Holder(h, m) /\ ~Boosting(h, m)
        BY <1>0, <2>2, <2>3, <2>4 DEF Holder, Boosting, Goto
    <2>5. ASSUME NEW h \in Threads, NEW m \in Mutexes, Holder(h, m)'
          PROVE  tcb'[h].priority <= tcb[h].priority
        <3>1. CASE LockOwner(n) \/ Unlock(n)
            BY <1>0, <3>1 DEF LockOwner, Unlock
        <3>2. CASE LockExit(n)
            BY <1>0, <1>e, <3>2, FieldKeepsPriority DEF LockExit
        <3>3. CASE UnlockRestore(n)
            <4>1. pc[running] = "unlock_restore" /\ mtx[running] = n /\ UNCHANGED holds
                  /\ Current = running
                BY <3>3, InLibrary, CurrentIsRunning DEF UnlockRestore, lockVars
            <4>2. h # running
                <5>1. n \notin holds[running]
                    BY <1>0, <4>1 DEF OwnerInv
                <5>2. m = n
                    BY DEF HoistAssumption
                <5>3. QED
                    BY <1>0, <2>4, <2>5, <4>1, <5>1, <5>2 DEF Holder
            <4>3. \E r : tcb' = [tcb EXCEPT ![running] = r]
                BY <3>3, <4>1 DEF UnlockRestore
            <4>4. QED
                BY <1>0, <4>2, <4>3
        <3>4. QED
            BY <1>10, <3>1, <3>2, <3>3
    <2>6. Live' => Live
        BY <1>10
    <2>7. QED
        BY <1>0, <1>10, <1>b, <1>c, <2>1, <2>4, <2>5, <2>6, HoistFrame
<1>11. QED
    BY <1>1, <1>2, <1>3, <1>4, <1>5, <1>6, <1>7, <1>8, <1>9, <1>10, QuietOrLoan DEF LoanStep

-----------------------------------------------------------------------------
(* The property *)

LoanInv ==
    /\ HeadInv /\ UnbornInv /\ SectionInv /\ JoinInv /\ CountInv /\ LockInv
    /\ TightInv /\ BoundInv /\ OwnerInv /\ HoistInv

LEMMA LoanInvInit ==
    ASSUME Init
    PROVE  LoanInv
<1>1. HeadInv /\ LockInv /\ JoinInv
    BY HeadInvInit, LockInvInit, JoinInvInit
<1>2. \A t \in Threads : /\ pc[t] \in {"user", "unborn"} /\ holds[t] = {} /\ tcb[t].priority = 0
                         /\ tcb[t].acq_locks = 0
    BY DEF Init, FreshTcb
<1>3. UnbornInv /\ SectionInv
    BY <1>2 DEF Init, UnbornInv, SectionInv, Sections, Preemptible
<1>4. CountInv
    BY <1>2, FS_EmptySet DEF CountInv, Locking, LockLabels
<1>5. TightInv /\ OwnerInv /\ HoistInv
    BY <1>2 DEF TightInv, TightLabels, LockLabels, OwnerInv, HoistInv, Holder
<1>6. BoundInv
    <2>1. handler = "idle" /\ \A m \in Mutexes : mutex[m].holding_thread_priority = 0
        BY DEF Init, FreshMutex
    <2>2. QED
        BY <1>2, <2>1 DEF BoundInv, INT8_MAX
<1>7. QED
    BY <1>1, <1>3, <1>4, <1>5, <1>6 DEF LoanInv

LEMMA LoanInvStep ==
    ASSUME RetryInQuantum, HoistAssumption, LoanInv, [Next]_vars
    PROVE  LoanInv'
<1>1. TimerCallsWork /\ RetryInQuantum /\ TypeOK
    BY ClientAssumption DEF HoistAssumption, LoanInv, HeadInv
<1>2. (HeadInv /\ UnbornInv /\ SectionInv /\ JoinInv /\ CountInv /\ LockInv)'
    BY <1>1, HeadInvStep, UnbornStep, SectionStep, JoinInvStep, CountStep, LockInvStep DEF LoanInv
<1>3. TightInv' /\ BoundInv' /\ OwnerInv' /\ HoistInv'
    BY <1>1, TightStep, BoundStep, OwnerInvStep, HoistInvStep DEF LoanInv
<1>4. QED
    BY <1>2, <1>3 DEF LoanInv

Hoists ==
    \A w, h \in Threads :
        /\ pc[w] # "lock_yield" /\ pc'[w] = "lock_yield"
        /\ mtx[w] \in holds[h]
        /\ tcb[h].status # "DONE"
        => tcb'[h].priority <= tcb[w].priority

LEMMA StepHoists ==
    ASSUME RetryInQuantum, HoistAssumption, LoanInv, [Next]_vars
    PROVE  Hoists
<1> USE DEF Running
<1>0. /\ TypeOK /\ running \in Threads /\ pc \in [Threads -> Labels]
      /\ tcb \in [Threads -> TcbType] /\ \A t \in Threads : tcb[t].priority \in Nat
      /\ mutex \in [Mutexes -> MutexType] /\ holds \in [Threads -> SUBSET Mutexes]
    BY DEF LoanInv, HeadInv, TypeOK, TcbType
<1>1. SUFFICES ASSUME NEW w \in Threads, NEW h \in Threads,
                      pc[w] # "lock_yield", pc'[w] = "lock_yield",
                      mtx[w] \in holds[h], tcb[h].status # "DONE"
               PROVE  tcb'[h].priority <= tcb[w].priority
    BY DEF Hoists
<1>2. \/ \E m \in Mutexes : LockHoist(m)
      \/ LockBoost \/ LockBoostMove
    <2>1. CASE UNCHANGED pc
        BY <1>1, <2>1
    <2>2. CASE Tick \/ ScheduleStep \/ Halted \/ UNCHANGED vars
        BY <2>1, <2>2 DEF Tick, ScheduleStep, Halted, vars, pthreadVars
    <2>3. CASE UserCall
        BY <1>0, <1>1, <2>3, CallMoves DEF LoanInv
    <2>4. CASE LibraryStep
        <3>1. Move \in Moves /\ OthersStay
            BY <1>0, <2>4, LibraryMoves
        <3>2. w = running /\ pc[running] \in {"lock_hoist", "lock_boost"}
            BY <1>1, <3>1 DEF OthersStay, Move, Moves
        <3>3. QED
            BY QuietRetry, <2>4, <3>2
            DEF LibraryStep, Raise, AfterRaise, CreateInsert, CreatePut, ExitWake, ExitDone,
                JoinWait, JoinBlock, JoinDone, LockYield, LockTry, LockOwner, LockAdjust, LockExit,
                UnlockRestore
    <2>5. QED
        BY <2>2, <2>3, <2>4 DEF Next
<1>3. LibraryStep
    BY QuietRetry, <1>2 DEF LibraryStep
<1>4. w = running
    BY <1>0, <1>1, <1>3, LibraryMoves DEF OthersStay
<1>5. mtx[w] \in Mutexes /\ mutex[mtx[w]].owner = h /\ Holder(h, mtx[w])
    BY <1>0, <1>1 DEF LoanInv, OwnerInv, Holder
<1>6. Live /\ Current = running
    BY <1>2, InLibrary, CurrentIsRunning
    DEF LoanInv, LockHoist, LockBoost, LockBoostMove, LockBoostPriority
<1>7. CASE LockBoost \/ LockBoostMove
    <2>1. pc[running] = "lock_boost" /\ tcb'[arg[running]].priority = tcb[Current].priority
        BY <1>7, BoostPriority DEF LoanInv, Boosted
    <2>2. arg[running] = h
        BY <1>0, <1>4, <1>5, <2>1 DEF LoanInv, OwnerInv
    <2>3. QED
        BY <1>0, <1>4, <1>6, <2>1, <2>2
<1>8. ASSUME NEW m \in Mutexes, LockHoist(m) PROVE tcb'[h].priority <= tcb[w].priority
    <2>1. /\ m = mtx[running] /\ pc[running] = "lock_hoist" /\ UNCHANGED tcb
        BY <1>8 DEF LockHoist
    <2>2. CASE mutex[m].hoisted_priority > tcb[Current].priority
        <3>1. UNCHANGED pc \/ Goto(AfterHoist(h))
            BY <1>4, <1>5, <1>8, <2>1, <2>2 DEF LockHoist
        <3>2. AfterHoist(h) = "lock_yield"
            BY <1>0, <1>1, <1>4, <3>1 DEF Goto
        <3>3. ~(tcb[h].priority > tcb[Current].priority)
            BY <1>1, <3>2 DEF AfterHoist
        <3>4. QED
            BY <1>0, <1>4, <1>6, <2>1, <3>3
    <2>3. CASE ~(mutex[m].hoisted_priority > tcb[Current].priority)
        <3>1. tcb[h].priority <= mutex[m].hoisted_priority
            BY <1>1, <1>4, <1>5, <1>6, <2>1 DEF LoanInv, HoistInv, Boosting
        <3>2. mutex[m].hoisted_priority \in Nat
            BY <1>0 DEF MutexType
        <3>3. QED
            BY <1>0, <1>4, <1>6, <2>1, <2>3, <3>1, <3>2
    <2>4. QED
        BY <2>2, <2>3
<1>9. QED
    BY <1>2, <1>7, <1>8

\* Where a waiter tries again and yields in one quantum, and nobody takes a second
\* mutex, the thread that has the mutex is no worse than a waiter that goes to yield.
THEOREM HoldersAreHoisted ==
    RetryInQuantum /\ HoistAssumption /\ Spec => HoistEndsInversion
<1>1. ASSUME RetryInQuantum, HoistAssumption PROVE Spec => HoistEndsInversion
    <2>1. Init => LoanInv
        BY LoanInvInit
    <2>2. LoanInv /\ [Next]_vars => LoanInv' /\ [Hoists]_vars
        BY <1>1, LoanInvStep, StepHoists
    <2>3. Spec => [][Hoists]_vars
        BY <2>1, <2>2, PTL DEF Spec
    <2>4. QED
        BY <2>3 DEF HoistEndsInversion, Hoists
<1>2. QED
    BY <1>1

================================================================================
