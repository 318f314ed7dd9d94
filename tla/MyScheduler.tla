----------------------------- MODULE MyScheduler -----------------------------
(***************************************************************************)
(* The scheduler of the user-level thread library: my_scheduler.c, with    *)
(* the variables my_scheduler.h declares.  One kernel thread runs every    *)
(* user thread; SIGALRM, sent by a CPU-time timer or by raise(), runs the  *)
(* handler schedule(), which saves the running context, requeues it in a   *)
(* multilevel ready queue and resumes the head of the best queue.          *)
(*                                                                         *)
(* The handler runs with SIGALRM blocked, so nothing else happens between  *)
(* its steps.  It is cut in steps (entry, one per list node scanned by     *)
(* run_maintenance, dispatch) to keep each of them small.  The library     *)
(* calls that user threads make are in MyPthread, which extends this       *)
(* module and supplies the two triggers of the handler.                    *)
(*                                                                         *)
(* A definition named <definition>_<fault>, just before <definition>, is a   *)
(* faulty variant of it that no specification uses: it shows what bug a    *)
(* property would catch (README.md).                                       *)
(*                                                                         *)
(* The repository keeps two releases of the library.  asst1 takes its list *)
(* nodes from libc; asst2 takes them from its own allocator, which enters  *)
(* and leaves the scheduler itself.                                        *)
(***************************************************************************)
EXTENDS Integers, Sequences

CONSTANTS
    MaxThreads,         \* bound: threads that can ever be created, main included
    NUM_QUEUES,         \* ready queues, 0 the best (5 in my_scheduler.h)
    MaintenancePeriod,  \* scheduler invocations between two maintenance
                        \* cycles (ONE_SECOND/QUANTUM = 40 in the code)
    Release,            \* which release: "asst1" or "asst2"
    TimerCallsWork      \* whether timer_settime() in enter_scheduler and
                        \* exit_scheduler takes effect.  Both releases pass it
                        \* the address of the timer_t where a timer_t is due
                        \* (asst1 sig_timer, asst2 &sig_timer): the call is
                        \* undefined, and per build it either fails or
                        \* happens to reach the timer

ASSUME SchedulerAssumption ==
    /\ MaxThreads \in Nat /\ MaxThreads >= 2
    /\ NUM_QUEUES \in Nat \ {0}
    /\ MaintenancePeriod \in Nat \ {0}
    /\ Release \in {"asst1", "asst2"}
    /\ TimerCallsWork \in BOOLEAN

Threads == 1 .. MaxThreads
Main == 2               \* the first thread created gets id 1, main id 2
NoThread == 0           \* a null tcb pointer, and the owner of a fresh mutex
Prios == 0 .. NUM_QUEUES - 1

VARIABLES
    ready_q,            \* [Prios -> Seq(Threads)]: the ready queues
    curr_prio,          \* the queue the running thread was taken from
    tcb,                \* the thread control blocks
    running,            \* the thread whose context the CPU executes
    should_maintain,    \* invocations left until maintenance, kept at 0 where
                        \* the code's counter goes negative
    timer,              \* [armed, pause_dump, in_scheduler]: is the alarm
                        \* timer armed, was it when last paused, and the flag
    prev_done,          \* the finished thread whose stack is freed next
    stacks,             \* threads whose stack is allocated
    handler,            \* where schedule() is: "idle" when it is not running
    scan,               \* run_maintenance's list cursor: <<queue, position>>
    halt                \* "none", or how the process ended: exit(0) with no
                        \* ready thread ("exit"), a failed assertion ("abort"),
                        \* the allocator's error exit ("error"), a bad memory
                        \* access ("crash"), or lists left in a state the model
                        \* does not follow ("undefined")

schedVars == << ready_q, curr_prio, tcb, running, should_maintain, timer,
                prev_done, stacks, handler, scan, halt >>

FreshTcb(status) ==
    [status |-> status, priority |-> 0, cycles_left |-> 0, acq_locks |-> 0,
     ran_since |-> TRUE,        \* last_run is later than the last maintenance
     waited_on |-> << >>]

-----------------------------------------------------------------------------
(* The timer *)

\* Fault: the flag that makes the switch restart the timer is not raised.
enter_scheduler_NoFlag(tm) ==
    IF TimerCallsWork
    THEN [tm EXCEPT !.armed = FALSE, !.pause_dump = tm.armed]
    ELSE tm

enter_scheduler(tm) ==
    IF TimerCallsWork
    THEN [armed |-> FALSE, pause_dump |-> tm.armed, in_scheduler |-> TRUE]
    ELSE [tm EXCEPT !.in_scheduler = TRUE]

exit_scheduler(tm, value) ==
    IF TimerCallsWork THEN [tm EXCEPT !.armed = value] ELSE tm

\* Fault: the allocator restarts the timer whether or not it was armed.
Alloc_AlwaysArms(tm) ==
    IF Release = "asst2" THEN exit_scheduler(enter_scheduler(tm), TRUE) ELSE tm

\* myallocate and mydeallocate of asst2 pause the timer into the one
\* timer_pause_dump and resume it from there, whoever paused it before them.
Alloc(tm) ==
    IF Release = "asst2"
    THEN LET paused == enter_scheduler(tm)
         IN  exit_scheduler(paused, paused.pause_dump)
    ELSE tm

-----------------------------------------------------------------------------
(* The ready queues *)

InsertFails(prio) == Release = "asst2" /\ prio >= NUM_QUEUES

\* Fault: insert_head for insert_tail.
insert_ready_q_AtHead(q, t, prio) ==
    [q EXCEPT ![IF prio < NUM_QUEUES THEN prio ELSE NUM_QUEUES - 1] = << t >> \o @]

\* asst1 clamps the queue number; asst2 asserts it is in range, and the
\* process aborts when InsertFails.
insert_ready_q(q, t, prio) ==
    [q EXCEPT ![IF prio < NUM_QUEUES THEN prio ELSE NUM_QUEUES - 1] =
        Append(@, t)]

Unlink(q, prio, k) ==
    [q EXCEPT ![prio] = SubSeq(@, 1, k - 1) \o SubSeq(@, k + 1, Len(@))]

Current == ready_q[curr_prio][1]    \* get_head(ready_q[curr_prio])

-----------------------------------------------------------------------------
(* schedule(), up to the maintenance check: what becomes of the thread that *)
(* was running                                                              *)

Entry ==
    /\ halt = "none"
    /\ handler = "schedule"
    /\ stacks' = stacks \ {prev_done}
    /\ should_maintain' = IF should_maintain > 0 THEN should_maintain - 1 ELSE 0
    /\ timer' = Alloc(timer)
    /\ UNCHANGED << curr_prio, running, scan >>

NextPhase == IF should_maintain' = 0 THEN "maintain" ELSE "dispatch"

\* Fault: the thread is put back at the tail.
KeepRunning_AtTail ==
    /\ Entry
    /\ tcb[Current].status = "READY" /\ tcb[Current].cycles_left > 0
    /\ tcb' = [tcb EXCEPT ![Current] =
                  [tcb[Current] EXCEPT !.cycles_left = @ - 1, !.ran_since = TRUE]]
    /\ prev_done' = NoThread
    /\ handler' = "idle"
    /\ ready_q' = insert_ready_q([ready_q EXCEPT ![curr_prio] = Tail(@)],
                                Current, curr_prio)
    /\ UNCHANGED halt

\* The thread has cycles left in its slice: it goes on.
KeepRunning ==
    /\ Entry
    /\ tcb[Current].status = "READY" /\ tcb[Current].cycles_left > 0
    /\ tcb' = [tcb EXCEPT ![Current] =
                  [tcb[Current] EXCEPT !.cycles_left = @ - 1, !.ran_since = TRUE]]
    /\ prev_done' = NoThread
    /\ handler' = "idle"
    /\ UNCHANGED << ready_q, halt >>

\* A yield and a lock holder keep their priority; a thread that used its
\* whole slice moves one queue down.
Requeued(old) ==
    CASE old.cycles_left = -1 \/ old.acq_locks > 0 ->
            [old EXCEPT !.cycles_left = old.priority]
      [] ~(old.cycles_left = -1 \/ old.acq_locks > 0) /\ curr_prio = NUM_QUEUES - 1 ->
            [old EXCEPT !.cycles_left = NUM_QUEUES - 1,
                        !.priority = NUM_QUEUES - 1]
      [] OTHER ->
            [old EXCEPT !.cycles_left = old.priority + 2, !.priority = @ + 1]

Requeue ==
    /\ Entry
    /\ tcb[Current].status = "READY" /\ tcb[Current].cycles_left <= 0
    /\ LET new == Requeued(tcb[Current])
       IN  /\ tcb' = [tcb EXCEPT ![Current] = [new EXCEPT !.ran_since = TRUE]]
           /\ ready_q' = insert_ready_q([ready_q EXCEPT ![curr_prio] = Tail(@)],
                                        Current, new.priority)
           /\ halt' = IF InsertFails(new.priority) THEN "abort" ELSE halt
    /\ prev_done' = NoThread
    /\ handler' = NextPhase

\* Fault: the stack of every thread that leaves the queues is freed.
Leave_FreesAnyStack ==
    /\ Entry
    /\ tcb[Current].status # "READY"
    /\ tcb' = [tcb EXCEPT ![Current].ran_since = TRUE]
    /\ ready_q' = [ready_q EXCEPT ![curr_prio] = Tail(@)]
    /\ prev_done' = Current
    /\ handler' = NextPhase
    /\ UNCHANGED halt

\* The stack of a thread that is done is in use until the switch: it is freed
\* by the next invocation.  asst2 never frees main's, which it did not allocate.
Leave ==
    /\ Entry
    /\ tcb[Current].status # "READY"
    /\ tcb' = [tcb EXCEPT ![Current].ran_since = TRUE]
    /\ ready_q' = [ready_q EXCEPT ![curr_prio] = Tail(@)]
    /\ prev_done' = IF /\ tcb[Current].status = "DONE"
                       /\ Release = "asst2" => Current # Main
                    THEN Current ELSE NoThread
    /\ handler' = NextPhase
    /\ UNCHANGED halt

\* asst1 frees main's uc_stack.ss_sp, which nobody ever assigned: the call may
\* also end the process.
FreeGarbage ==
    /\ halt = "none"
    /\ handler = "schedule"
    /\ prev_done = Main
    /\ halt' = "crash"
    /\ UNCHANGED << ready_q, curr_prio, tcb, running, should_maintain, timer,
                    prev_done, stacks, handler, scan >>

-----------------------------------------------------------------------------
(* run_maintenance() *)

\* Fault: no decay.
NewPriorities_NoDecay(t, queue) == {tcb[t].priority}

\* floor((priority+1) * exp(-x/g)), x the invocations since the thread ran.
\* Once x reaches back to the last maintenance the factor is below
\* 1/(queue+1), so a thread in the queue of its priority gets 0; before that,
\* all the model keeps of it is that it is never above the old priority.
NewPriorities(t, queue) ==
    0 .. IF tcb[t].ran_since THEN tcb[t].priority
                             ELSE tcb[t].priority \div (queue + 1)

Scanning(queue) ==
    /\ halt = "none"
    /\ handler = "maintain"
    /\ scan[1] = queue

ScannedThread == ready_q[scan[1]][scan[2]]
AtListEnd == scan[2] > Len(ready_q[scan[1]])

\* The end of a queue: on to the next one.
MaintainNextQueue(queue) ==
    /\ Scanning(queue)
    /\ AtListEnd
    /\ scan' = << queue + 1, 1 >>
    /\ UNCHANGED << ready_q, curr_prio, tcb, running, should_maintain, timer,
                    prev_done, stacks, handler, halt >>

\* The thread's priority does not change.
MaintainKeep(queue) ==
    /\ Scanning(queue)
    /\ ~AtListEnd
    /\ tcb[ScannedThread].priority \in NewPriorities(ScannedThread, queue)
    /\ scan' = << queue, scan[2] + 1 >>
    /\ UNCHANGED << ready_q, curr_prio, tcb, running, should_maintain, timer,
                    prev_done, stacks, handler, halt >>

\* The thread decays: it is appended to the better queue, then unlinked here.
MaintainMove(queue) ==
    /\ Scanning(queue)
    /\ ~AtListEnd
    /\ LET t == ScannedThread
       IN  \E new_prio \in NewPriorities(t, queue) \ {tcb[t].priority} :
              /\ tcb' = [tcb EXCEPT ![t].priority = new_prio]
              /\ ready_q' = Unlink(insert_ready_q(ready_q, t, new_prio),
                                   queue, scan[2])
              /\ halt' = IF InsertFails(new_prio) THEN "abort" ELSE halt
    /\ timer' = Alloc(timer)
    /\ UNCHANGED << curr_prio, running, should_maintain, prev_done, stacks,
                    handler, scan >>

\* cycles_since_last restarts: from here on, a thread that has not run since
\* counts as not having run since the last maintenance.
MaintainEnd ==
    /\ Scanning(NUM_QUEUES)
    /\ scan' = << 1, 1 >>
    /\ should_maintain' = MaintenancePeriod
    /\ tcb' = [t \in Threads |-> [tcb[t] EXCEPT !.ran_since = FALSE]]
    /\ handler' = "dispatch"
    /\ UNCHANGED << ready_q, curr_prio, running, timer, prev_done, stacks, halt >>

Maintenance ==
    \/ \E queue \in 1 .. NUM_QUEUES - 1 :
          \/ MaintainNextQueue(queue)
          \/ MaintainKeep(queue)
          \/ MaintainMove(queue)
    \/ MaintainEnd

-----------------------------------------------------------------------------
(* schedule(), the switch *)

\* Fault: the last queue is not looked at.
OccupiedQueues_SkipLast == {prio \in 0 .. NUM_QUEUES - 2 : ready_q[prio] # << >>}

OccupiedQueues == {prio \in Prios : ready_q[prio] # << >>}

\* The timer is restarted for a whole quantum when the library, or asst2's
\* allocator, has entered the scheduler since the last switch.
Rearm ==
    timer' = IF timer.in_scheduler
             THEN exit_scheduler([timer EXCEPT !.in_scheduler = FALSE], TRUE)
             ELSE timer

Dispatch ==
    /\ halt = "none"
    /\ handler = "dispatch"
    /\ \E prio \in OccupiedQueues :
          /\ \A other \in OccupiedQueues : prio <= other
          /\ curr_prio' = prio
          /\ running' = ready_q[prio][1]
    /\ Rearm
    /\ handler' = "idle"
    /\ UNCHANGED << ready_q, tcb, should_maintain, prev_done, stacks, scan, halt >>

\* No ready thread is left: exit(0), whose atexit handler frees everything.
Teardown ==
    /\ halt = "none"
    /\ handler = "dispatch"
    /\ OccupiedQueues = {}
    /\ Rearm
    /\ halt' = "exit"
    /\ UNCHANGED << ready_q, curr_prio, tcb, running, should_maintain, prev_done,
                    stacks, handler, scan >>

Schedule ==
    \/ KeepRunning
    \/ Requeue
    \/ Leave
    \/ FreeGarbage
    \/ Maintenance
    \/ Dispatch
    \/ Teardown

=============================================================================
