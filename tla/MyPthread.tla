------------------------------ MODULE MyPthread ------------------------------
(***************************************************************************)
(* The library calls of my_pthread.c, made by the most general client: in  *)
(* user code a thread may make any call whose contract it meets, with any  *)
(* argument.  pc[t] is where thread t is inside the library, "user" when   *)
(* it is not.  A step of the running thread is a statement, or a few that  *)
(* no other thread can tell apart: a section that runs with the alarm off  *)
(* has few steps, the lock loop, which goes on with the alarm armed after  *)
(* its first yield, one for every statement.  A tick of the alarm timer    *)
(* may come between any two steps while it is armed.                       *)
(*                                                                         *)
(* A program's first library call is my_pthread_create: before it there is *)
(* no current thread, and every other call dereferences a null pointer.    *)
(***************************************************************************)
EXTENDS MyScheduler, FiniteSets

CONSTANTS
    Mutexes,        \* the program's my_pthread_mutex_t objects
    ClientCalls,    \* [Threads -> the calls the program's thread makes]
    RetryInQuantum, \* whether a quantum, whole when a thread is switched to, is
                    \* always enough for a lock waiter to try again and return
                    \* or yield: the alarm, left armed, does not expire before
    MaxPriority     \* bound on the priorities asst1 lets outgrow the queues

AllCalls == {"create", "yield", "exit", "join", "lock", "init", "destroy"}

ASSUME ClientAssumption ==
    /\ ClientCalls \in [Threads -> SUBSET AllCalls]
    /\ RetryInQuantum \in BOOLEAN
    /\ RetryInQuantum => TimerCallsWork
    /\ MaxPriority \in Nat

VARIABLES
    tid,            \* ids given out so far; 0 until the scheduler is set up
    all_threads,    \* ids in the all_threads map
    pc,             \* [Threads -> where the thread is]
    arg,            \* [Threads -> the tcb a local variable of the call holds]
    mtx,            \* [Threads -> the mutex of the call, or NoMutex]
    old_prio,       \* [Threads -> the holder's queue, prio in the lock loop]
    mutex,          \* the mutex objects
    inited,         \* mutexes initialised and not destroyed
    holds           \* [Threads -> mutexes its lock calls returned with]

NoMutex == "none"
INT8_MAX == 127         \* hoisted_priority of a mutex no thread waits for

pthreadVars == << tid, all_threads, pc, arg, mtx, old_prio, mutex, inited, holds >>
lockVars == << old_prio, mutex, inited, holds >>
vars == << schedVars, pthreadVars >>

\* Where a waiter of my_pthread_mutex_lock is, and a thread that got the mutex.
BoostLabels == {"lock_save", "lock_store", "lock_search", "lock_insert", "lock_unlink"}
WaiterLabels == {"lock_try", "lock_hoist", "lock_lend", "lock_find", "lock_look",
                 "lock_weigh", "lock_boost", "lock_yield"} \cup BoostLabels
OwnerLabels == {"lock_owner", "lock_adjust", "lock_lower", "lock_settle", "lock_clear",
                "lock_record", "lock_compare", "lock_charge", "lock_keep", "lock_take",
                "lock_exit"}
LockLabels == WaiterLabels \cup OwnerLabels

Labels == {"unborn", "user", "ended",
           "raise_yield", "raise_exit", "raise_join", "raise_retry",
           "create_insert", "create_put", "exit_wake",
           "join_wait", "join_block", "join_done", "unlock_restore"} \cup LockLabels

TcbType ==
    [status : {"UNBORN", "READY", "BLOCKED", "DONE"}, priority : Nat,
     cycles_left : Int, acq_locks : Int, ran_since : BOOLEAN,
     waited_on : Seq(Threads)]

TimerType == [armed : BOOLEAN, pause_dump : BOOLEAN, in_scheduler : BOOLEAN]

MutexType ==
    [locked : BOOLEAN, owner : Threads \cup {NoThread},
     hoisted_priority : Nat, holding_thread_priority : Nat]

\* Every variable keeps to its type.
TypeOK ==
    /\ ready_q \in [Prios -> Seq(Threads)]
    /\ curr_prio \in Prios
    /\ tcb \in [Threads -> TcbType]
    /\ running \in Threads
    /\ should_maintain \in Nat
    /\ timer \in TimerType
    /\ prev_done \in Threads \cup {NoThread}
    /\ stacks \subseteq Threads
    /\ handler \in {"idle", "schedule", "maintain", "dispatch"}
    /\ scan \in (1 .. NUM_QUEUES) \X (Nat \ {0})
    /\ halt \in {"none", "exit", "abort", "error", "crash", "undefined"}
    /\ tid \in 0 .. MaxThreads
    /\ all_threads \subseteq Threads
    /\ pc \in [Threads -> Labels]
    /\ arg \in [Threads -> Threads \cup {NoThread}]
    /\ mtx \in [Threads -> Mutexes \cup {NoMutex}]
    /\ old_prio \in [Threads -> Nat]
    /\ mutex \in [Mutexes -> MutexType]
    /\ inited \subseteq Mutexes
    /\ holds \in [Threads -> SUBSET Mutexes]

FreshMutex == [locked |-> FALSE, owner |-> NoThread,
               hoisted_priority |-> INT8_MAX, holding_thread_priority |-> 0]

\* Before the first my_pthread_create: main runs, nothing is set up.  The
\* fields of a mutex nobody has initialised are never read.
Init ==
    /\ ready_q = [prio \in Prios |-> << >>]
    /\ curr_prio = 0
    /\ tcb = [t \in Threads |-> FreshTcb("UNBORN")]
    /\ running = Main
    /\ should_maintain = 0
    /\ timer = [armed |-> FALSE, pause_dump |-> FALSE, in_scheduler |-> FALSE]
    /\ prev_done = NoThread
    /\ stacks = {}
    /\ handler = "idle"
    /\ scan = << 1, 1 >>
    /\ halt = "none"
    /\ tid = 0
    /\ all_threads = {}
    /\ pc = [t \in Threads |-> IF t = Main THEN "user" ELSE "unborn"]
    /\ arg = [t \in Threads |-> NoThread]
    /\ mtx = [t \in Threads |-> NoMutex]
    /\ old_prio = [t \in Threads |-> 0]
    /\ mutex = [m \in Mutexes |-> FreshMutex]
    /\ inited = {}
    /\ holds = [t \in Threads |-> {}]

-----------------------------------------------------------------------------

Running(label) ==
    /\ halt = "none"
    /\ handler = "idle"
    /\ pc[running] = label

Goto(label) == pc' = [pc EXCEPT ![running] = label]

\* The running thread is in user code of a program that has a scheduler.
Calls(call) == Running("user") /\ tid # 0 /\ call \in ClientCalls[running]

\* A call returns: its local variables are gone.
Return ==
    /\ Goto("user")
    /\ arg' = [arg EXCEPT ![running] = NoThread]
    /\ mtx' = [mtx EXCEPT ![running] = NoMutex]

\* What no library call changes: only the handler does.
LibraryFrame ==
    UNCHANGED << curr_prio, running, should_maintain, prev_done, scan >>

-----------------------------------------------------------------------------
(* The two triggers of schedule() *)

\* The alarm can expire before the lock loop ends or yields: its statements are
\* then steps of their own.  When it cannot, no thread can tell them apart.
Interruptible == timer.armed /\ ~RetryInQuantum

\* The timer expires: the handler interrupts the running thread anywhere.
Tick ==
    /\ halt = "none"
    /\ handler = "idle"
    /\ timer.armed
    /\ tid # 0 => tcb[Current].priority <= MaxPriority
    /\ RetryInQuantum => pc[running] \notin LockLabels
    /\ handler' = "schedule"
    /\ UNCHANGED << ready_q, curr_prio, tcb, running, should_maintain, timer,
                    prev_done, stacks, scan, halt, pthreadVars >>

\* Fault: the lock loop is left after its first yield.
AfterRaise_NoRetry == [raise_yield |-> "user", raise_exit |-> "ended",
                       raise_join |-> "join_done", raise_retry |-> "lock_owner"]

AfterRaise == [raise_yield |-> "user", raise_exit |-> "ended",
               raise_join |-> "join_done", raise_retry |-> "lock_try"]

\* raise(SIGALRM): the thread goes on from here when it is resumed.
Raise ==
    \E label \in DOMAIN AfterRaise :
        /\ Running(label)
        /\ Goto(AfterRaise[label])
        /\ handler' = "schedule"
        /\ UNCHANGED << ready_q, curr_prio, tcb, running, should_maintain, timer,
                        prev_done, stacks, scan, halt, tid, all_threads, arg,
                        mtx, lockVars >>

ScheduleStep == Schedule /\ UNCHANGED pthreadVars

-----------------------------------------------------------------------------
(* my_pthread_create *)

\* The first call sets the scheduler up: main's own tcb goes to the head of the
\* best queue, since main keeps running, and the alarm timer is started.
FirstCreate ==
    /\ Running("user")
    /\ tid = 0
    /\ tid' = 2
    /\ all_threads' = {1, Main}
    /\ tcb' = [t \in Threads |-> IF t \in {1, Main} THEN FreshTcb("READY") ELSE tcb[t]]
    /\ stacks' = {1}
    /\ ready_q' = [ready_q EXCEPT ![0] = << Main, 1 >>]
    /\ should_maintain' = MaintenancePeriod
    /\ timer' = [armed |-> TRUE, pause_dump |-> FALSE,
                 in_scheduler |-> Release = "asst2"]
    /\ pc' = [pc EXCEPT ![1] = "user"]
    /\ UNCHANGED << curr_prio, running, prev_done, handler, scan, halt, arg,
                    mtx, lockVars >>

\* create_tcb, outside the scheduler.
CreateTcb ==
    /\ Calls("create")
    /\ tid < MaxThreads
    /\ tid' = tid + 1
    /\ tcb' = [tcb EXCEPT ![tid + 1] = FreshTcb("READY")]
    /\ stacks' = stacks \cup {tid + 1}
    /\ timer' = Alloc(timer)
    /\ pc' = [pc EXCEPT ![running] = "create_insert", ![tid + 1] = "user"]
    /\ arg' = [arg EXCEPT ![running] = tid + 1]
    /\ LibraryFrame
    /\ UNCHANGED << ready_q, handler, halt, all_threads, mtx, lockVars >>

CreateInsert ==
    /\ Running("create_insert")
    /\ timer' = Alloc(enter_scheduler(timer))
    /\ ready_q' = insert_ready_q(ready_q, arg[running], 0)
    /\ Goto("create_put")
    /\ LibraryFrame
    /\ UNCHANGED << tcb, stacks, handler, halt, tid, all_threads, arg, mtx, lockVars >>

CreatePut ==
    /\ Running("create_put")
    /\ all_threads' = all_threads \cup {arg[running]}
    /\ timer' = LET put == Alloc(timer) IN exit_scheduler(put, put.pause_dump)
    /\ Return
    /\ LibraryFrame
    /\ UNCHANGED << ready_q, tcb, stacks, handler, halt, tid, lockVars >>

-----------------------------------------------------------------------------
(* my_pthread_yield and my_pthread_exit *)

\* cycles_left = -1 tells the handler that it runs because of a yield.
Yield ==
    /\ Calls("yield")
    /\ timer' = enter_scheduler(timer)
    /\ tcb' = [tcb EXCEPT ![Current].cycles_left = -1]
    /\ Goto("raise_yield")
    /\ LibraryFrame
    /\ UNCHANGED << ready_q, stacks, handler, halt, tid, all_threads, arg, mtx, lockVars >>

\* A thread may exit with mutexes held.
Exit ==
    /\ Calls("exit")
    /\ timer' = enter_scheduler(timer)
    /\ Goto("exit_wake")
    /\ LibraryFrame
    /\ UNCHANGED << ready_q, tcb, stacks, handler, halt, tid, all_threads, arg, mtx, lockVars >>

\* Fault: a woken thread is not put in a ready queue.
ExitWake_NoInsert ==
    /\ Running("exit_wake")
    /\ tcb[Current].waited_on # << >>
    /\ tcb' = [tcb EXCEPT ![Current].waited_on = Tail(@),
                          ![tcb[Current].waited_on[1]].status = "READY"]
    /\ timer' = Alloc(timer)
    /\ LibraryFrame
    /\ UNCHANGED << ready_q, halt, stacks, handler, pthreadVars >>

ExitWake ==
    /\ Running("exit_wake")
    /\ tcb[Current].waited_on # << >>
    /\ LET waiter == tcb[Current].waited_on[1]
       IN  /\ tcb' = [tcb EXCEPT ![Current].waited_on = Tail(@),
                                 ![waiter].status = "READY"]
           /\ ready_q' = insert_ready_q(ready_q, waiter, tcb[waiter].priority)
           /\ halt' = IF InsertFails(tcb[waiter].priority) THEN "abort" ELSE halt
    /\ timer' = Alloc(timer)
    /\ LibraryFrame
    /\ UNCHANGED << stacks, handler, pthreadVars >>

\* Fault: the thread is done before it has woken every waiter.
ExitDone_TooSoon ==
    /\ Running("exit_wake")
    /\ tcb' = [tcb EXCEPT ![Current].status = "DONE"]
    /\ timer' = Alloc(timer)
    /\ Goto("raise_exit")
    /\ LibraryFrame
    /\ UNCHANGED << ready_q, stacks, handler, halt, tid, all_threads, arg, mtx, lockVars >>

ExitDone ==
    /\ Running("exit_wake")
    /\ tcb[Current].waited_on = << >>
    /\ tcb' = [tcb EXCEPT ![Current].status = "DONE"]
    /\ timer' = Alloc(timer)
    /\ Goto("raise_exit")
    /\ LibraryFrame
    /\ UNCHANGED << ready_q, stacks, handler, halt, tid, all_threads, arg, mtx, lockVars >>

-----------------------------------------------------------------------------
(* my_pthread_join *)

\* An id nobody can have yet is refused before the scheduler is entered; an id
\* that is not in the map is refused after it, and a finished thread is not
\* waited for.  Neither of these two returns leaves the scheduler.
Join(target) ==
    /\ Calls("join")
    /\ target <= tid
    /\ timer' = enter_scheduler(timer)
    /\ IF target \notin all_threads
       THEN UNCHANGED << pc, arg >>
       ELSE /\ Goto(IF tcb[target].status # "DONE" THEN "join_wait" ELSE "join_done")
            /\ arg' = [arg EXCEPT ![running] = target]
    /\ LibraryFrame
    /\ UNCHANGED << ready_q, tcb, stacks, handler, halt, tid, all_threads, mtx, lockVars >>

JoinWait ==
    /\ Running("join_wait")
    /\ tcb' = [tcb EXCEPT ![arg[running]].waited_on = << Current >> \o @]
    /\ timer' = Alloc(timer)
    /\ Goto("join_block")
    /\ LibraryFrame
    /\ UNCHANGED << ready_q, stacks, handler, halt, tid, all_threads, arg, mtx, lockVars >>

\* Fault: the joiner goes on instead of giving the CPU up.
JoinBlock_NoRaise ==
    /\ Running("join_block")
    /\ tcb' = [tcb EXCEPT ![Current].status = "BLOCKED"]
    /\ Goto("join_done")
    /\ LibraryFrame
    /\ UNCHANGED << ready_q, timer, stacks, handler, halt, tid, all_threads, arg, mtx, lockVars >>

JoinBlock ==
    /\ Running("join_block")
    /\ tcb' = [tcb EXCEPT ![Current].status = "BLOCKED"]
    /\ Goto("raise_join")
    /\ LibraryFrame
    /\ UNCHANGED << ready_q, timer, stacks, handler, halt, tid, all_threads, arg, mtx, lockVars >>

\* The target's return value is read.
JoinDone ==
    /\ Running("join_done")
    /\ Return
    /\ LibraryFrame
    /\ UNCHANGED << ready_q, tcb, timer, stacks, handler, halt, tid, all_threads, lockVars >>

-----------------------------------------------------------------------------
(* my_pthread_mutex_init and my_pthread_mutex_destroy *)

MutexInit(m) ==
    /\ Running("user") /\ (tid = 0 \/ "init" \in ClientCalls[running])
    /\ m \notin inited
    /\ mutex' = [mutex EXCEPT ![m] = FreshMutex]
    /\ inited' = inited \cup {m}
    /\ UNCHANGED << schedVars, tid, all_threads, pc, arg, mtx, old_prio, holds >>

\* Fault: a destroyed mutex is left free.
MutexDestroy_LeavesFree(m) ==
    /\ Running("user") /\ "destroy" \in ClientCalls[running]
    /\ m \in inited
    /\ ~mutex[m].locked
    /\ inited' = inited \ {m}
    /\ UNCHANGED << schedVars, tid, all_threads, pc, arg, mtx, old_prio, mutex, holds >>

\* The destroyer keeps the lock word for itself, so that a locked mutex is
\* refused and a destroyed one can never be acquired.
MutexDestroy(m) ==
    /\ Running("user") /\ "destroy" \in ClientCalls[running]
    /\ m \in inited
    /\ mutex' = [mutex EXCEPT ![m].locked = TRUE]
    /\ inited' = IF mutex[m].locked THEN inited ELSE inited \ {m}
    /\ UNCHANGED << schedVars, tid, all_threads, pc, arg, mtx, old_prio, holds >>

-----------------------------------------------------------------------------
(* my_pthread_mutex_lock *)

Lock(m) ==
    /\ Calls("lock")
    /\ m \in inited /\ m \notin holds[running]
    /\ timer' = enter_scheduler(timer)
    /\ Goto("lock_try")
    /\ mtx' = [mtx EXCEPT ![running] = m]
    /\ LibraryFrame
    /\ UNCHANGED << ready_q, tcb, stacks, handler, halt, tid, all_threads, arg, lockVars >>

\* The atomic exchange on the lock word.
LockTry(m) ==
    /\ Running("lock_try")
    /\ mtx[running] = m
    /\ mutex' = [mutex EXCEPT ![m].locked = TRUE]
    /\ Goto(IF mutex[m].locked THEN "lock_hoist" ELSE "lock_owner")
    /\ LibraryFrame
    /\ UNCHANGED << ready_q, tcb, timer, stacks, handler, halt, tid, all_threads,
                    arg, mtx, old_prio, inited, holds >>

\* Fault: a holder that is better, not worse, is boosted.
AfterHoist_Swapped(h) ==
    CASE tcb[h].status = "DONE" -> "lock_try"
      [] tcb[h].status # "DONE" /\ tcb[h].priority < tcb[Current].priority -> "lock_boost"
      [] OTHER -> "lock_yield"

\* What a waiter does next, h being the holding thread it finds.
AfterHoist(h) ==
    CASE tcb[h].status = "DONE" -> "lock_try"
      [] tcb[h].status # "DONE" /\ tcb[h].priority > tcb[Current].priority -> "lock_boost"
      [] OTHER -> "lock_yield"

\* A waiter better than every earlier one lends its priority to the mutex and,
\* next, to the holder.  An owner that is not in the map is a null tcb.
LockHoist(m) ==
    /\ Running("lock_hoist") /\ ~Interruptible
    /\ mtx[running] = m
    /\ IF mutex[m].hoisted_priority > tcb[Current].priority
       THEN /\ mutex' = [mutex EXCEPT ![m].hoisted_priority = tcb[Current].priority]
            /\ IF mutex[m].owner \notin all_threads
               THEN /\ halt' = "crash"
                    /\ UNCHANGED << pc, arg >>
               ELSE /\ Goto(AfterHoist(mutex[m].owner))
                    /\ arg' = [arg EXCEPT ![running] = mutex[m].owner]
                    /\ UNCHANGED halt
       ELSE /\ Goto("lock_yield")
            /\ UNCHANGED << mutex, halt, arg >>
    /\ LibraryFrame
    /\ UNCHANGED << ready_q, tcb, timer, stacks, handler, tid, all_threads, mtx,
                    old_prio, inited, holds >>

Boosted == arg[running]     \* holding_thread

\* The holder takes the waiter's priority.
LockBoostPriority ==
    /\ Running("lock_boost") /\ ~Interruptible
    /\ tcb' = [tcb EXCEPT ![Boosted].priority = tcb[Current].priority]
    /\ Goto("lock_yield")
    /\ LibraryFrame
    /\ UNCHANGED << stacks, handler, tid, all_threads, arg, mtx, lockVars >>

BoostedQueued ==
    /\ tcb[Boosted].status = "READY"
    /\ tcb[Boosted].priority < NUM_QUEUES
    /\ \E k \in DOMAIN ready_q[tcb[Boosted].priority] :
          ready_q[tcb[Boosted].priority][k] = Boosted

BoostPastQueues ==
    tcb[Boosted].status = "READY" /\ tcb[Boosted].priority >= NUM_QUEUES

\* A holder that is not in the queue of its old priority stays where it is.
\* asst1 lets a priority outgrow the queues: ready_q is read past its end, where
\* the build has zeroes (alignment, then timer_pause_dump's unused interval): a
\* null list is dereferenced.
LockBoost ==
    /\ LockBoostPriority
    /\ ~BoostedQueued
    /\ halt' = IF BoostPastQueues THEN "crash" ELSE halt
    /\ UNCHANGED << ready_q, timer >>

\* Fault: the holder's node stays in the queue of its old priority.
LockBoostMove_NodeStays ==
    /\ LockBoostPriority
    /\ BoostedQueued
    /\ UNCHANGED << ready_q, timer, halt >>

\* A queued holder moves to the waiter's queue.  asst2 then frees the list node
\* as if the user had allocated it: the allocator refuses that with an error
\* exit, unless the address falls in a block of the thread's own.
LockBoostMove ==
    /\ LockBoostPriority
    /\ BoostedQueued
    /\ LET prio == tcb[Boosted].priority
       IN  \E k \in DOMAIN ready_q[prio] :
                /\ ready_q[prio][k] = Boosted
                /\ \A j \in 1 .. k - 1 : ready_q[prio][j] # Boosted    \* its first node
                /\ ready_q' = Unlink(insert_ready_q(ready_q, Boosted,
                                                    tcb[Current].priority), prio, k)
    /\ timer' = Alloc(timer)
    /\ \/ halt' = IF InsertFails(tcb[Current].priority) THEN "abort" ELSE halt
       \/ Release = "asst2" /\ halt' = "error"

\* The waiter yields inside the library, then tries again.  The local variables
\* of this round of the loop are gone.
LockYield ==
    /\ Running("lock_yield")
    /\ timer' = enter_scheduler(timer)
    /\ tcb' = [tcb EXCEPT ![Current].cycles_left = -1]
    /\ Goto("raise_retry")
    /\ arg' = [arg EXCEPT ![running] = NoThread]
    /\ old_prio' = [old_prio EXCEPT ![running] = 0]
    /\ LibraryFrame
    /\ UNCHANGED << ready_q, stacks, handler, halt, tid, all_threads, mtx, mutex,
                    inited, holds >>

LockOwner(m) ==
    /\ Running("lock_owner")
    /\ mtx[running] = m
    /\ mutex' = [mutex EXCEPT ![m].owner = Current]
    /\ Goto("lock_adjust")
    /\ LibraryFrame
    /\ UNCHANGED << ready_q, tcb, timer, stacks, handler, halt, tid, all_threads,
                    arg, mtx, old_prio, inited, holds >>

Least(a, b) == IF a < b THEN a ELSE b

\* The new holder takes over the priority lent to the mutex, or clears it.
LockAdjust(m) ==
    /\ Running("lock_adjust") /\ ~Interruptible
    /\ mtx[running] = m
    /\ LET own == tcb[Current].priority
           hoisted == Least(mutex[m].hoisted_priority, own)
       IN  \/ /\ hoisted = curr_prio
              /\ mutex' = [mutex EXCEPT ![m] =
                              [@ EXCEPT !.hoisted_priority = INT8_MAX,
                                        !.holding_thread_priority = curr_prio]]
              /\ UNCHANGED tcb
           \/ /\ hoisted # curr_prio /\ hoisted < own
              /\ mutex' = [mutex EXCEPT ![m] =
                              [@ EXCEPT !.hoisted_priority = hoisted,
                                        !.holding_thread_priority = own]]
              /\ tcb' = [tcb EXCEPT ![Current] =
                            [tcb[Current] EXCEPT !.cycles_left = @ + hoisted - own,
                                                 !.priority = hoisted]]
           \/ /\ hoisted # curr_prio /\ hoisted >= own
              /\ mutex' = [mutex EXCEPT ![m].hoisted_priority = hoisted]
              /\ UNCHANGED tcb
    /\ Goto("lock_exit")
    /\ LibraryFrame
    /\ UNCHANGED << ready_q, timer, stacks, handler, halt, tid, all_threads, arg,
                    mtx, old_prio, inited, holds >>

LockExit(m) ==
    /\ Running("lock_exit")
    /\ mtx[running] = m
    /\ tcb' = [tcb EXCEPT ![Current].acq_locks = @ + 1]
    /\ timer' = exit_scheduler(timer, timer.pause_dump)
    /\ holds' = [holds EXCEPT ![running] = @ \cup {m}]
    /\ Return
    /\ LibraryFrame
    /\ UNCHANGED << ready_q, stacks, handler, halt, tid, all_threads, mutex,
                    old_prio, inited >>

-----------------------------------------------------------------------------
(* The same lock loop, statement by statement: after its first yield a waiter *)
(* goes on with the alarm armed, and other threads run between any two of its *)
(* statements                                                                 *)

Statement(label, next) ==
    /\ Running(label)
    /\ Interruptible
    /\ Goto(next)
    /\ LibraryFrame
    /\ UNCHANGED << stacks, handler, tid, all_threads, mtx, inited, holds >>

Own == tcb[Current].priority        \* curr_thread->priority

\* A statement that only tests something.
RetryTest(m) ==
    /\ mtx[running] = m
    /\ LET hoisted == mutex[m].hoisted_priority
       IN  \/ Statement("lock_hoist", IF hoisted > Own THEN "lock_lend" ELSE "lock_yield")
           \/ Statement("lock_look",
                        IF tcb[Boosted].status = "DONE" THEN "lock_try" ELSE "lock_weigh")
           \/ Statement("lock_weigh",
                        IF tcb[Boosted].priority > Own THEN "lock_save" ELSE "lock_yield")
           \/ Statement("lock_adjust", IF hoisted > Own THEN "lock_lower" ELSE "lock_settle")
           \/ Statement("lock_settle",
                        IF hoisted = curr_prio THEN "lock_clear" ELSE "lock_compare")
           \/ Statement("lock_compare", IF hoisted < Own THEN "lock_charge" ELSE "lock_exit")
    /\ UNCHANGED << ready_q, tcb, timer, halt, arg, old_prio, mutex >>

\* A statement that stores into the mutex: its hoisted_priority, lent by a waiter
\* or lowered and cleared by the new holder, or its holding_thread_priority.
RetryStore(m) ==
    /\ mtx[running] = m
    /\ \/ /\ Statement("lock_lend", "lock_find") \/ Statement("lock_lower", "lock_settle")
          /\ mutex' = [mutex EXCEPT ![m].hoisted_priority = Own]
       \/ /\ Statement("lock_clear", "lock_record")
          /\ mutex' = [mutex EXCEPT ![m].hoisted_priority = INT8_MAX]
       \/ /\ Statement("lock_record", "lock_exit")
          /\ mutex' = [mutex EXCEPT ![m].holding_thread_priority = curr_prio]
       \/ /\ Statement("lock_keep", "lock_take")
          /\ mutex' = [mutex EXCEPT ![m].holding_thread_priority = Own]
    /\ UNCHANGED << ready_q, tcb, timer, halt, arg, old_prio >>

\* A statement that stores into a tcb: the holder's priority, or the cycles and
\* the priority of the thread that got the mutex.
RetryThread(m) ==
    /\ mtx[running] = m
    /\ LET hoisted == mutex[m].hoisted_priority
       IN  \/ /\ Statement("lock_store", "lock_search")
              /\ tcb' = [tcb EXCEPT ![Boosted].priority = Own]
           \/ /\ Statement("lock_charge", "lock_keep")
              /\ tcb' = [tcb EXCEPT ![Current].cycles_left = @ + hoisted - Own]
           \/ /\ Statement("lock_take", "lock_exit")
              /\ tcb' = [tcb EXCEPT ![Current].priority = hoisted]
    /\ UNCHANGED << ready_q, timer, halt, arg, old_prio, mutex >>

\* The owner's tcb is looked up; one that is not in the map is a null pointer.
RetryFind(m) ==
    /\ mtx[running] = m
    /\ Statement("lock_find", IF mutex[m].owner \in all_threads THEN "lock_look" ELSE "lock_find")
    /\ arg' = [arg EXCEPT ![running] = mutex[m].owner]
    /\ halt' = IF mutex[m].owner \in all_threads THEN halt ELSE "crash"
    /\ UNCHANGED << ready_q, tcb, timer, old_prio, mutex >>

\* The holder's old priority is kept, before its field is overwritten.
RetrySave ==
    /\ Statement("lock_save", "lock_store")
    /\ old_prio' = [old_prio EXCEPT ![running] = tcb[Boosted].priority]
    /\ UNCHANGED << ready_q, tcb, timer, halt, arg, mutex >>

OldQueue == ready_q[old_prio[running]]

\* A ready holder is looked for in the queue it was in when the statement before
\* the last one ran.
RetrySearch ==
    /\ Statement("lock_search",
                 IF /\ tcb[Boosted].status = "READY"
                    /\ old_prio[running] < NUM_QUEUES
                    /\ \E k \in DOMAIN OldQueue : OldQueue[k] = Boosted
                 THEN "lock_insert" ELSE "lock_yield")
    /\ halt' = IF tcb[Boosted].status = "READY" /\ old_prio[running] >= NUM_QUEUES
               THEN "crash" ELSE halt
    /\ UNCHANGED << ready_q, tcb, timer, arg, old_prio, mutex >>

\* The holder is in two queues, until its old node is unlinked.
RetryInsert ==
    /\ Statement("lock_insert", "lock_unlink")
    /\ ready_q' = insert_ready_q(ready_q, Boosted, Own)
    /\ timer' = Alloc(timer)
    /\ halt' = IF InsertFails(Own) THEN "abort" ELSE halt
    /\ UNCHANGED << tcb, arg, old_prio, mutex >>

\* The old node is unlinked and freed (LockBoostMove).  When other threads have
\* run since it was found it may be gone: the walk's pointers are stale.
RetryUnlink ==
    /\ Statement("lock_unlink", "lock_yield")
    /\ \/ \E k \in DOMAIN OldQueue :
             /\ OldQueue[k] = Boosted
             /\ \A j \in 1 .. k - 1 : OldQueue[j] # Boosted
             /\ ready_q' = Unlink(ready_q, old_prio[running], k)
             /\ halt' \in {halt} \cup (IF Release = "asst2" THEN {"error"} ELSE {})
       \/ /\ \A k \in DOMAIN OldQueue : OldQueue[k] # Boosted
          /\ halt' = "undefined"
          /\ UNCHANGED ready_q
    /\ timer' = Alloc(timer)
    /\ UNCHANGED << tcb, arg, old_prio, mutex >>

\* The alarm strikes inside the look-up or the list surgery, or the nodes the
\* walk points to are freed or moved before it goes on: from here on any list
\* may be wrong, and the model follows the program no further.
Torn ==
    /\ \E label \in {"lock_find", "lock_search", "lock_insert", "lock_unlink"} : Running(label)
    /\ Interruptible
    /\ halt' = "undefined"
    /\ UNCHANGED << ready_q, curr_prio, tcb, running, should_maintain, timer,
                    prev_done, stacks, handler, scan, pthreadVars >>

\* A finished thread, left in a queue by a boost that was preempted between its
\* insertion and the unlinking, gets the CPU, on a stack that may be freed.
Revive ==
    /\ Running("ended")
    /\ Interruptible
    /\ halt' = "undefined"
    /\ UNCHANGED << ready_q, curr_prio, tcb, running, should_maintain, timer,
                    prev_done, stacks, handler, scan, pthreadVars >>

RetryStep ==
    \/ \E m \in Mutexes : RetryTest(m) \/ RetryStore(m) \/ RetryThread(m) \/ RetryFind(m)
    \/ RetrySave \/ RetrySearch \/ RetryInsert \/ RetryUnlink
    \/ Torn \/ Revive

-----------------------------------------------------------------------------
(* my_pthread_mutex_unlock *)

\* Only a holder unlocks.
Unlock(m) ==
    /\ Calls("lock")
    /\ m \in holds[running]
    /\ timer' = enter_scheduler(timer)
    /\ mutex' = [mutex EXCEPT ![m].locked = FALSE]
    /\ holds' = [holds EXCEPT ![running] = @ \ {m}]
    /\ mtx' = [mtx EXCEPT ![running] = m]
    /\ Goto("unlock_restore")
    /\ LibraryFrame
    /\ UNCHANGED << ready_q, tcb, stacks, handler, halt, tid, all_threads, arg,
                    old_prio, inited >>

\* Fault: the priority is restored whether or not it was hoisted.
UnlockRestore_Always(m) ==
    /\ Running("unlock_restore")
    /\ mtx[running] = m
    /\ tcb' = [tcb EXCEPT ![Current] =
                  [tcb[Current] EXCEPT !.acq_locks = @ - 1,
                                       !.priority = @ + mutex[m].holding_thread_priority
                                                      - mutex[m].hoisted_priority]]
    /\ timer' = exit_scheduler(timer, timer.pause_dump)
    /\ Return
    /\ LibraryFrame
    /\ UNCHANGED << ready_q, stacks, handler, halt, tid, all_threads, lockVars >>

\* Fault: the lock count goes down only when the priority is restored.
UnlockRestore_CountsHoisted(m) ==
    /\ Running("unlock_restore")
    /\ mtx[running] = m
    /\ tcb' = IF mutex[m].hoisted_priority < mutex[m].holding_thread_priority
              THEN [tcb EXCEPT ![Current] =
                      [tcb[Current] EXCEPT !.acq_locks = @ - 1,
                                           !.priority = mutex[m].holding_thread_priority]]
              ELSE tcb
    /\ timer' = exit_scheduler(timer, timer.pause_dump)
    /\ Return
    /\ LibraryFrame
    /\ UNCHANGED << ready_q, stacks, handler, halt, tid, all_threads, lockVars >>

\* The holder gets back the priority it had when it acquired the mutex.
UnlockRestore(m) ==
    /\ Running("unlock_restore")
    /\ mtx[running] = m
    /\ LET hoisted == mutex[m].hoisted_priority
           before == mutex[m].holding_thread_priority
           left == tcb[Current].cycles_left - (before - hoisted)
       IN  tcb' = IF hoisted < before
                  THEN [tcb EXCEPT ![Current] =
                          [tcb[Current] EXCEPT !.acq_locks = @ - 1,
                                               !.priority = before,
                                               !.cycles_left = IF left < 0 THEN 0 ELSE left]]
                  ELSE [tcb EXCEPT ![Current].acq_locks = @ - 1]
    /\ timer' = exit_scheduler(timer, timer.pause_dump)
    /\ Return
    /\ LibraryFrame
    /\ UNCHANGED << ready_q, stacks, handler, halt, tid, all_threads, lockVars >>

-----------------------------------------------------------------------------

\* The process is over.
Halted == halt # "none" /\ UNCHANGED vars

LibraryStep ==
    \/ Raise
    \/ CreateInsert \/ CreatePut
    \/ ExitWake \/ ExitDone
    \/ JoinWait \/ JoinBlock \/ JoinDone
    \/ LockBoost \/ LockBoostMove \/ LockYield \/ RetryStep
    \/ \E m \in Mutexes :
          \/ LockTry(m) \/ LockHoist(m)
          \/ LockOwner(m) \/ LockAdjust(m) \/ LockExit(m)
          \/ UnlockRestore(m)

\* User code computes, without a library call.
Compute == Running("user") /\ UNCHANGED vars

UserCall ==
    \/ Compute
    \/ FirstCreate \/ CreateTcb
    \/ Yield \/ Exit
    \/ \E target \in Threads : Join(target)
    \/ \E m \in Mutexes :
          MutexInit(m) \/ MutexDestroy(m) \/ Lock(m) \/ Unlock(m)

Next == Tick \/ ScheduleStep \/ LibraryStep \/ UserCall \/ Halted

Spec == Init /\ [][Next]_vars

\* The handler, once started, completes; a thread on the CPU gets through the
\* library; and an armed CPU-time timer expires.
Fairness == WF_vars(ScheduleStep) /\ WF_vars(LibraryStep) /\ WF_vars(Tick)

FairSpec == Spec /\ Fairness

-----------------------------------------------------------------------------
(* Properties.  Each is about the states of a process that is not over. *)

Live == halt = "none" /\ tid # 0
OnCpu(t) == t = running /\ handler \in {"idle", "schedule"}
At(t, label) == OnCpu(t) /\ handler = "idle" /\ pc[t] = label

Places(t) == UNION {{prio} \X {k \in DOMAIN ready_q[prio] : ready_q[prio][k] = t} :
                        prio \in Prios}

\* The library finds the current thread as the head of ready_q[curr_prio]
\* (my_pthread.c, every call): that is the thread the CPU executes, whatever
\* boosts, wake-ups and insertions have done to the queues since the switch.
CurrentIsHead ==
    Live /\ handler \in {"idle", "schedule"} =>
        ready_q[curr_prio] # << >> /\ Current = running

\* A thread that can run is in the ready queues exactly once, one that is
\* blocked or done not at all, but for the head, which leaves its queue only
\* when the handler runs.  (A new thread is inserted by its creator's call.)
ReadyIffQueued ==
    Live => \A t \in 1 .. tid :
        \/ \E c \in Threads : pc[c] = "create_insert" /\ arg[c] = t
        \/ Cardinality(Places(t)) =
              IF OnCpu(t) \/ tcb[t].status = "READY" THEN 1 ELSE 0

\* A queued thread is in the queue of its priority: hoisting and maintenance
\* change the field and move the node together, and the mismatch a lock call
\* leaves is gone when another thread runs (my_pthread.c:211-212).
QueueOfPriority ==
    Live => \A prio \in Prios : \A k \in DOMAIN ready_q[prio] :
        LET t == ready_q[prio][k]
        IN  OnCpu(t) \/ prio = Least(tcb[t].priority, NUM_QUEUES - 1)

\* At most one thread has a mutex, counting from the exchange that takes it to
\* the store that frees it.
Owns(t, m) ==
    \/ m \in holds[t]
    \/ pc[t] \in OwnerLabels /\ mtx[t] = m

MutualExclusion ==
    \A m \in Mutexes : \A t, u \in Threads : Owns(t, m) /\ Owns(u, m) => t = u

\* The four mutex calls, with the alarm between any two of their steps, keep what
\* a mutex promises: the exchange acquires it, and only when it is free and not
\* destroyed; a destroyed one is refused to the threads that still wait for it.
Ideal == INSTANCE Mutex
    WITH owners <- [m \in Mutexes |-> {t \in Threads : Owns(t, m)}], usable <- inited

ImplementsMutex == Ideal!Spec

\* "by this point, t_block will be done" (my_pthread.c:139).
JoinedIsDone ==
    Live => \A t \in Threads : At(t, "join_done") => tcb[arg[t]].status = "DONE"

Waiting(t) == UNION {{u} \X {k \in DOMAIN tcb[u].waited_on : tcb[u].waited_on[k] = t} :
                        u \in Threads}

\* No joiner is stranded: a blocked thread is, once, on the list of a thread
\* that is not done, so that thread's exit will wake it.
JoinersAreWoken ==
    Live => \A t \in Threads : tcb[t].status = "BLOCKED" =>
        /\ Cardinality(Waiting(t)) = 1
        /\ \A w \in Waiting(t) : tcb[w[1]].status # "DONE"

\* The handler calls exit(0) only when no thread can ever run again: all are
\* done, or blocked on one another.
TeardownOnlyWhenStuck ==
    halt = "exit" => \A t \in 1 .. tid :
        \/ tcb[t].status = "DONE"
        \/ /\ tcb[t].status = "BLOCKED"
           /\ \A w \in Waiting(t) : tcb[w[1]].status = "BLOCKED"

\* A stack is freed only after its thread is done and off the CPU, and at most
\* one finished thread's stack is waiting to be freed.
StacksReclaimed ==
    Live => \A t \in 1 .. tid : t # Main =>
        /\ t \notin stacks => tcb[t].status = "DONE" /\ ~OnCpu(t)
        /\ t \in stacks /\ tcb[t].status = "DONE" => OnCpu(t) \/ t = prev_done

\* acq_locks, which exempts a thread from aging, counts the locks it has.
LockCount ==
    Live => \A t \in Threads :
        tcb[t].acq_locks = Cardinality(holds[t]) +
                           (IF pc[t] = "unlock_restore" THEN 1 ELSE 0)

\* Hoisting works: when a waiter has looked at the holder and goes to yield, the
\* thread that has the mutex is no worse than it (no priority inversion is left
\* behind).
HoistEndsInversion ==
    [][\A w, h \in Threads :
        /\ pc[w] # "lock_yield" /\ pc'[w] = "lock_yield"
        /\ mtx[w] \in holds[h]
        /\ tcb[h].status # "DONE"
        => tcb'[h].priority <= tcb[w].priority]_vars

\* "exclusive control of the process while scheduler-specific queues and other
\* data are being accessed" (asst1/LATEX/main.tex:63): the alarm is off.
InCriticalSection(labels) == Live /\ handler = "idle" /\ pc[running] \in labels
SectionsExclusive ==
    InCriticalSection(Labels \ (LockLabels \cup
        {"unborn", "user", "ended", "create_insert", "join_done"})) => ~timer.armed

\* The same of my_pthread_mutex_lock, which the code does not keep: a waiter that
\* has yielded goes on inside the call with the alarm armed (README, "Known not to
\* hold").
LockExclusive == InCriticalSection(LockLabels) => ~timer.armed

\* "Resumes the alarm counter" before "returning control to user threads"
\* (my_scheduler.h:67-68): user code can be preempted.  Not so after the early
\* returns of my_pthread_join (README, "Known not to hold").
UserPreemptible == InCriticalSection({"user"}) => timer.armed

\* insert_ready_q's assertion (asst2 my_scheduler.c:7) never fails.
PriorityInRange == halt # "abort"

\* A switch hands the CPU over with the alarm armed, whatever the call that led
\* to it did with the timer.
ArmedAtSwitch == [][Live /\ running' # running => timer'.armed]_vars

\* As long as the handler keeps being invoked, every queued thread gets the CPU:
\* maintenance brings a thread that did not run since the last one to the best
\* queue (asst1/LATEX/main.tex:92).
Queued(t) == \E prio \in Prios : \E k \in DOMAIN ready_q[prio] : ready_q[prio][k] = t

StarvationFree ==
    []<>(handler = "schedule") =>
        \A t \in Threads : Queued(t) ~> (t = running \/ halt # "none")

\* "auto-assign locks from dead threads" (my_pthread.c:166-167): a thread that
\* tries for a mutex again and again does not find a dead owner for ever.
DeadOwnersLockReassigned ==
    \A t \in Threads, m \in Mutexes :
        []<>(At(t, "lock_hoist") /\ mtx[t] = m) =>
            []<>(mutex[m].owner \notin {u \in Threads : tcb[u].status = "DONE"})

=============================================================================
