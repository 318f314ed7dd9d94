# Verification of the user-level thread library and its memory allocator

TLA+ models of the code of the two assignments in this repository, TLC
configurations that check them on small instances, and TLAPS proofs of what
matters most for every value of the constants. The reference is `asst2/CODE`, the
later release; `asst1/CODE` is the same library without the allocator, and where
the two differ in behaviour the constant `Release` of the models selects one.

## 1. The system

A program links against `my_pthread.c` and gets user-level threads: one process,
one kernel thread, `ucontext`s switched by a handler of `SIGALRM`. In asst2 its
`malloc` and `free` are also replaced, by an allocator that gives every thread a
contiguous view of one 8 MB block.

| component | state | operations | talks to |
|---|---|---|---|
| scheduler (`my_scheduler.c`) | `ready_q[NUM_QUEUES]`, `curr_prio`, `should_maintain`, `prev_done`, the CPU timer, `timer_pause_dump`, `in_scheduler` | `schedule` (the signal handler), `run_maintenance`, `insert_ready_q`, `enter_scheduler`, `exit_scheduler` | is entered by the alarm or by `raise(SIGALRM)`; switches to a thread |
| thread library (`my_pthread.c`) | `tid`, `all_threads`, the tcbs (status, priority, cycles left, `waited_on`, `acq_locks`), the program's mutexes | create, yield, exit, join; mutex init, lock, unlock, destroy | edits the ready queues itself, between `enter_scheduler` and `exit_scheduler`; raises the alarm to give up the CPU |
| allocator (`my_malloc.c`, `memory_finder.c`) | the block: page data, segment headers inside the pages; each tcb's first and last page | `myallocate`, `mydeallocate` | stops and restarts the scheduler's timer through the same `timer_pause_dump`; reads and writes the page table |
| metadata (`direct_mapping.c`) | one byte per segment, 6 bytes per page | read and write the fields | the allocator |
| page table (`open_address_ht.c`) | an open-address table, `(pid, index)` to page | `ht_put`, `ht_get`, `ht_delete` | the allocator |
| lists and thread map (`datastructs.c`) | linked lists with head and tail pointers; a chained hash map that grows | insert, delete, get, put, rehash, free; the surgery in the middle of a list that maintenance and boosts do | scheduler and library |
| benchmarks (`data1.c`, `TEST1.c`) | a mutex, an array of thread ids | create, lock and unlock in each thread, join in order, destroy | the library's calls |
| other tests, timing code, build files | | | not modelled |

What is hard here: the alarm interrupts the library between any two statements
while it is armed; calls finish in another order than they start; the critical
sections are a timer saved in one global that nested calls overwrite; the current
thread is not stored anywhere but found as the head of a queue that boosts,
wake-ups and maintenance relink; the wake-up of joiners races with the joiners'
arrival; mutexes lend priorities; the allocator keeps four structures (page data,
headers, page table, the tcb's view) in step while it moves pages about.
`PROJECT.json` lists these hazards at their lines with the properties that cover
them.

What makes each part correct:

- scheduler: every thread that can run is in the queue of its priority exactly
  once, the head of `ready_q[curr_prio]` is the thread on the CPU, no queued thread
  starves, stacks are freed only when nobody runs on them, `exit(0)` comes only when
  nothing can run, a thread is switched to with the alarm set.
- library: a mutex has one owner; a join returns when its target is done and no
  joiner is stranded; hoisting leaves no priority inversion; library state is
  touched with the alarm off.
- allocator: page data, page table and views agree; blocks are disjoint; what is
  freed comes back; a call leaves its thread's block where the thread sees it; `free`
  recognises blocks; calls return.
- page table: a map from (thread, index) to page, under any collisions.
- metadata: what is read from a header or a page's data is what was written to it.
- lists and map: no node is lost, shared or dangling; read through the pointers they
  are sequences and a function.
- benchmarks: the program gets to the end of `main`, and destroys the mutex when
  nobody has it.

## 2. Modules

    MyScheduler            my_scheduler.c: queues, timer, handler, maintenance
      ^ EXTENDS
    MyPthread              my_pthread.c: the calls, composed with the scheduler;
      |                    implements Mutex (INSTANCE, refinement)
      ^ EXTENDS
      +- MCMyPthread       client programs for the runs
      +- Benchmark         a program of the shape of TEST1.c and data1.c
      |    ^ MCBenchmark
      +- MyPthreadProofs   theorems: types, current thread, mutexes, critical sections,
           |               switches, the count of locks
           ^ EXTENDS
         JoinProofs        theorems: ready queues, joins and exits, stacks, the end
           ^ EXTENDS
         PriorityProofs    theorems: queues and priorities, hoisting
           ^ EXTENDS (with Benchmark)
         BenchmarkProofs   theorems: that program's mutex

    Mutex                  what a mutex promises
    ThreadIds              the increment of tid, instruction by instruction

    Collections            what lists and map promise
      ^ INSTANCE (refinement)
    DataStructs            datastructs.c, and the queue surgery, pointer by pointer
      ^ MCDataStructs
      ^ EXTENDS
    DataStructsProofs      theorems: types, the heap, the table, the refinement

    PageTable              what the allocator asks of the page table: a map
      ^ INSTANCE (refinement)
    OpenAddrHT             open_address_ht.c
      ^ EXTENDS
    OpenAddrHTProofs       theorems

    DirectMapping          direct_mapping.c, direct_mapping.h: the encodings
      ^ EXTENDS
    Allocator              memory_finder.c, my_malloc.c, over DirectMapping and
      ^                    the map PageTable specifies
      | EXTENDS
    AllocatorProofs        theorems: the encodings, swap, types, the page table
      ^ EXTENDS
    BlocksProofs           theorems: blocks, frees, pages given back

### MyScheduler and MyPthread

One state machine for the process. `handler` says where the signal handler is
(`idle`, `schedule`, `maintain`, `dispatch`); `running` is the thread whose
context is on the CPU; `pc[t]` is where thread `t` is inside the library (`user`
when it is not) and `arg`, `mtx` are the locals of its call. `tcb`, `ready_q`,
`curr_prio`, `should_maintain` and `prev_done` are the globals of those names; `timer`
is `timer_25ms`, `timer_pause_dump` and `in_scheduler` in one record; `stacks` is the set of threads whose
stack is allocated. `holds` is a history variable: the mutexes a thread's
lock calls have returned with.

Actions: `Tick` is an expiry of the armed alarm; `ScheduleStep` the handler's
phases, with `run_maintenance` one node of a queue at a time, since it walks a list it is
changing; each library call is cut at the points where another thread can
interleave, that is where the alarm can be armed or `raise` is called. `UserCall`
is the most general client: in user code a thread makes any call that
`ClientCalls` allows it with any argument the contract allows (it unlocks what it
has, it does not free what is in use). `Halted` is the end: `exit(0)`, a failed
assertion, or a read past the queues.

The lock loop is there twice. A waiter that has yielded goes on inside
`my_pthread_mutex_lock` with the alarm armed, since the switch armed it, so that its next rounds
may be interrupted between any two statements: `RetryTest`, `RetryStore`, `RetryThread`, `RetryFind`,
`RetrySave`, `RetrySearch`, `RetryInsert` and `RetryUnlink` are those statements (my_pthread.c:162-210).
In the first round the alarm is off and nothing comes in between, so there `LockHoist`,
`LockBoost`, `LockBoostMove` and `LockAdjust` each stand for a run of statements. `Interruptible`
says which of the two a thread is in. A tick inside one C statement is not modelled, except where it
matters: in the look-up of the holder and in the list surgery, where the lists may come out in any
state. There `Torn` ends the behaviour as `undefined`, as does `Revive`, in which a finished thread that
such a boost left in a queue gets the CPU.

`RetryInQuantum` restricts this: a waiter given a whole quantum gets to look at the lock and yield
again within it, so that its retries are not interrupted. A quantum is 25 ms of CPU time, armed anew at
every switch; the loop takes microseconds. It needs timer calls that take effect (`ClientAssumption`).
Run `locking` and the theorems about mutexes do without it; what is said of the queues needs it,
because a torn boost leaves a thread in two queues or in one that is not its own.

`TimerCallsWork` is about the calls `timer_settime(...)` of `enter_scheduler` and `exit_scheduler`: they
are given the address of the timer id where the call takes the id, in asst1
(my_scheduler.c:14,19, with `timer_t* sig_timer` in my_scheduler.h:32; my_pthread.c:84 has `*sig_timer`)
and in asst2 (my_scheduler.c:12,17) alike. That is undefined: it depends on the build and the C library
whether the calls reach the timer (an older glibc takes the argument for the address of a record and reads the
timer's number from it, which the memory behind the variable may happen to hold) or fail. When they
fail, the sections between `enter_scheduler` and `exit_scheduler` are not critical. The passing runs of the thread
library are of builds whose calls take effect, which is how the library is meant; run
`failing_timer` is of the others. Of those the model has less than the code does: a section's
queue surgery stays one step between the places at which its calls are cut, so that a violation found there
is one of the code, but a property that held there would show nothing.
`LocksExclude` and `MutexRefinement`, which are about the exchange and not the queues, are proved for both.

Abstractions. The calls that my_pthread.c makes on lists and maps are atomic here, on
sequences and a function, which DataStructs justifies; `++tid` is one step, which
ThreadIds is about. Time is left out: an armed alarm may expire at any step (but see `RetryInQuantum`). The
amount by which maintenance improves an old thread's priority is nondeterministic, except
for what the formula forces. `should_maintain` stops at 0.
`MaxPriority` bounds priorities that asst1 lets outgrow its queues. A
program's first call is `my_pthread_create`: every other call before it dereferences
a null pointer. Not modelled: the return from `main` without
`my_pthread_exit`, a signal that is pending while `enter_scheduler` is in its system call,
what a finished thread does when it is switched to (`Revive`; it does not happen where
`ReadyIffQueued` holds), the contents of stacks, and return values.

### Mutex

The abstract mutex: acquired when free, released by the thread that has it, initialised
and destroyed only while nobody has it. `MyPthread!ImplementsMutex` maps it: `usable` is
`inited`; a mutex's `owners` are the threads past the exchange that returned 0, and those
whose lock call has returned with it (`Owns`). So a lock acquires at the exchange, not when
the code writes `owner`; an unlock releases when it stores 0. A destroy under a
waiter, an exit with the mutex held and an owner field that lags behind all map to
steps or stutters of it.

### Benchmark

The calls of MyPthread in the order in which `TEST1.c` and `data1.c` make them: `job[t]` is
the statement a thread is at, `left[t]` its loop counter. `TEST1.c` takes its mutex in three rounds;
`data1.c` takes it once around its work when `lockTot` is set, which is 0 as committed, so that its
threads then take no lock. The run has one round with the lock, and so is a program of
their shape, smaller than the first and with more contention than the second; the theorems have any number of
rounds and threads. `ReturnFromMain` ends the process.

### ThreadIds

`my_pthread_create` evaluates `++tid` and then passes `tid` on before it enters the
critical section. The module has the load, the store, the second load (an unoptimised
build) and the insertion into the map as four steps.

### DataStructs and Collections

`heap` is the set of allocated nodes with their `next` pointers, lists are head and tail
pointers, the map an array of chains. Freed nodes can be allocated again. Each operation
is atomic, as its callers make it. `Move` is the sequence with which `run_maintenance` and
`my_pthread_mutex_lock` move a thread: append to the other queue, then cut the node out of the
middle of this one; the source and the destination may be the same queue.
`put` includes the rehash, whose chains come out in reverse. `Collections` is the abstract
specification: sequences, a function and what each call returns, calls on null
pointers included.
asst2's `create_map` and `rehash` take bucket arrays from `myallocate` without clearing them;
the model has asst1's `calloc`.

### OpenAddrHT and PageTable

`table` is the array of slots, tombstones included; the probe is as in the
code, with `hash(pid, key) = (pid * 65536 + key) % HT_SIZE`. With the power of
two that HT_SIZE is, the thread does not enter the hash, so pages of equal index of different
threads always collide; the run has two threads and two indexes, that is two hashes
whose probes overlap, and four ids over four slots are enough for full wrap-around. `owned`
is what callers may rely on: the ids that were put and not deleted. `PageTable` is a map over
those ids and `OpenAddrHT!ImplementsPageTable` the refinement.

### Allocator

`mem` is the block (page data, one header per segment, page table), `view` the
first and last page of each tcb, `blocks` what the program has (a history
variable), `loc` the locals of the call in progress. A call is a walk, one segment
or page per step; the three walks of the code share the step that goes to the next
page (`SkipPage`). Headers are the bytes of DirectMapping: a size that is too large for its
field spills into the flags, as in `dm_write_metadata`, and reads decode what is there.
DirectMapping also has the page data's 16 bits (occupied, overflow, index).

Calls do not interleave: `myallocate` and `mydeallocate` stop the alarm for their
whole length. (That they restart it in their caller's critical section is in
MyScheduler, `Alloc`.) The page table is the map of PageTable, which `TableRefines`
justifies. Scaled down: 2 or 4 segments of 2 bytes for the code's 64 of 64, 4 to 6
pages for 2048; sizes are picked to be below a page, a page, a page and a segment,
two pages. User data matter only where a header may later be read: `Store` is a program's store of one of
`UserBytes` where a later segment of one of its blocks begins, at any time between calls, in the page that
lies there. When that is the thread's own page the block is in place (`InPlace`); when another thread's
allocation has moved that page away, the byte falls on somebody else's headers. `StoresAway` says
whether a program makes such stores. It is FALSE in the passing runs, and is a condition that no
program can see to, since nothing tells it that its block was moved; run `displaced` has it
TRUE. A page that the page
table does not have is a `crash`: `ht_get` gives 0x8000, outside the block. Likewise
for the entries beyond the list of taken pages. Thread exit does not
give pages back, in the code or in the model. Not modelled: `printMemory`, sizes of 0,
NULL, and the first call, which sets the block up (the initial state is what it leaves).

## 3. Runs

| run | instance | distinct states | what it asks |
|---|---|---|---|
| `joining` | 3 threads, 2 queues, asst1, maintenance each time, timer calls that work, fairness | 425,798 | `ReadyIffQueued`, `JoinedIsDone`, `JoinersAreWoken`, `TeardownOnlyWhenStuck`, `StacksReclaimed`, `ArmedAtSwitch`, `StarvationFree` |
| `locking` | 2 threads, 1 mutex, asst2, timer calls that work, retries preempted anywhere | 1,740,367 | `TypeOK`, `MutualExclusion`, `SectionsExclusive`, `ImplementsMutex` |
| `benchmark` | `main` and 2 threads, asst1, one round with a lock, timer calls that work, retries within a quantum, fairness | 382,189 | `CurrentIsHead`, `QueueOfPriority`, `LockCount`, `DestroyedUnlocked`, `HoistEndsInversion`, `ProgramEnds` |
| `structures` | 2 lists and a map of 2 buckets over 4 nodes | 7,124 | `TypeOK`, `NodesOwned`, `LoadBounded`, `ImplementsCollections` |
| `page_table` | 4 ids of 2 hashes in 4 slots | 63,853 | `TypeOK`, `ImplementsPageTable` |
| `allocating` | 4 pages, the scheduler and a thread, sizes 1 and 3, 3 blocks each, stores in place | 556,809 | `TypeOK`, `PagesMapped`, `BlocksDisjoint`, `NothingLeaks`, `CallsReturn` |
| `reusing` | 6 pages, 2 threads, sizes 1, 3 and 7, 1 block each, stores in place, allocation after free, foreign pointers freed | 2,328,133 | `PagesMapped`, `Resident`, `FreesBlocksOnly` |
| `failing_timer` | 3 threads, asst1, timer calls that fail | violation | `JoinedIsDone` |
| `displaced` | 4 pages, 2 threads, stores into displaced blocks | violation | `OnlyStraysRefused` |
| `stale_page` | 4 pages, 2 threads, allocation after free | violation | `PagesMapped` |
| `thread_ids` | 3 creators, 2 calls each | violation | `UniqueIds` |
| `assertion` | 2 threads, 1 mutex, asst2 | violation | `PriorityInRange` |

Bounds, and why they are enough. Three threads give a thread that exits, one that joins
it and one that runs in between, cycles of joins included; two queues give
a better and a worse priority, which is all that hoisting, aging and maintenance tell
apart; a maintenance period of 1 runs it every time, a longer one exercises the counter.
Two threads and a mutex give a holder and a waiter; `benchmark` adds a third thread of a
priority in between, and its waiters are joined by `main` while they wait. Four nodes fill
both buckets of a map, make it grow once, and leave a list a middle node. Four
or more pages are room for two threads' views to overlap and for pages to be displaced;
thread 0, the scheduler, is one of them in `allocating`, since unused pages name it too.
What the passing runs leave out is left out because the code fails there:
`joining` and `benchmark` have timer calls that work (`failing_timer`), and `benchmark` retries that are not
preempted (hazards at my_pthread.c:170 and 196) and one round, since with more a thread outgrows the queues of
asst1 (section 4); `allocating` does not allocate after a free (`stale_page`), `reusing` has one block a thread
(the same), both store only into blocks in place (`displaced`), and the sizes avoid blocks that
span fresh pages with a remainder or fill their last page with more allocated behind them
(section 4). They show that the code is right up to those defects. In `locking` the queues may be wrong: it
asks what must survive even that.

Every property of a passing run has a mutant: a plausible error, written next to the
definition it changes (`..._NoRetry`, `..._Normalised`), that the run refutes.

Fairness. `joining` uses `FairSpec`: the handler, once
entered, completes; the thread on the CPU gets through library code; an armed CPU
timer expires (`timer_create` with a process CPU clock, and threads that compute). User
code is not assumed to make any call. `benchmark` assumes more, because its program is
known: each thread goes on with the next statement of its program when it keeps getting
the CPU. That is strong fairness, a thread being switched out again and again; it is justified by
the alarm counting CPU time, of which a thread gets a whole quantum at each switch.
The allocator assumes that a call in progress takes its next step: it runs with the alarm off.

## 4. What does not hold

Five findings have runs of their own (`PROJECT.json`, "findings"):

- `JoinedIsDone` where the timer calls fail: `my_pthread_exit` puts a joiner back into a queue with the alarm
  armed, and a tick before the last store of the exit lets it return while its target is not done. The
  comment (my_pthread.c:139) and the report (`main.tex:61-63`) rely on the calls.
- `OnlyStraysRefused`: a thread's page is moved away when another thread's allocation needs its place, and is not
  moved back; a 0 that the first one then stores into its block clears the header of a block of the other,
  whose `free` is refused as that of a stray pointer. A byte that reads as an
  occupied header keeps a page from coming back (`NothingLeaks`) in the same way.
- `PagesMapped` under reuse: `swap` writes the entry of a free page's last owner.
- `UniqueIds`: `++tid` is evaluated with the alarm armed; two creators can use one id, and
  the second tcb replaces the first in `all_threads`.
- `PriorityInRange`: unlocking restores a priority worse than the queue the thread runs in;
  the next tick ages it past the last queue and the assertion of `insert_ready_q` fails.

### Known not to hold

Met while modelling, stated in the modules or easily restated, and not run:

- `MyPthread!DeadOwnersLockReassigned`: the branch that is to "auto-assign locks from dead threads"
  (my_pthread.c:166-167) only tries again. The lock word stays 1 and the owner the dead thread: the
  waiter comes back to the exchange for ever, first through this branch, then, once it has lent its priority, by way of
  a yield in every round. (`FairSpec`, 2 threads, 1 mutex, a thread that locks and exits.)
- `Allocator!BlocksDisjoint` with multi-page blocks: the report has the header of the remainder as the last of a
  page (asst2/CODE/readme.pdf, section 4.3.3), but memory_finder.c:170 writes it as the header of the first page, with a free
  segment behind it, and the next small block lies inside: after `myallocate(4097)`, `myallocate(1)` returns
  memory of the first block. (4 pages of 4 segments, 1 thread, sizes of 1 and of two pages and a
  bit.)
- `Allocator!CallsReturn` with sizes that fill a last page: after such a multi-page block,
  with another allocated behind it, the walk of `myallocate` adds 0 for ever.
- `LockExclusive`: a waiter that has yielded inside `my_pthread_mutex_lock` goes on in
  there with the alarm armed. Without `RetryInQuantum`, `CurrentIsHead`, `ReadyIffQueued` and
  `QueueOfPriority` then fail: a tick after my_pthread.c:170 leaves the holder in a queue that is not its
  own, one after :178 in two.
- `UserPreemptible`: the early returns of `my_pthread_join` (my_pthread.c:131-144) leave the
  timer off. So does every `my_pthread_create` of asst2 after the first, whose nested
  allocation overwrites `timer_pause_dump`.
- `HoistEndsInversion` with two mutexes held, or without `RetryInQuantum`: unlocking one
  restores a priority while a better thread waits for the other (my_pthread.c:226-229).
- asst1 has no assertion in `insert_ready_q`: priorities outgrow the queues, the insertion
  clamps, and a boost then reads `ready_q[5]`, past the array (`LockBoost` ends in `crash`).
  Two threads that lock, with a maintenance period of 2, get there; so does `Benchmark` with
  two rounds or more (`TEST1.c` has three).
- asst2's `free(ptr)` in `my_pthread.c:187` gives the allocator a list node as if it were
  a block of the calling thread, which ends the process with the allocator's error; asst1 frees the uninitialised stack pointer of main's context.
- `OpenAddrHT!CallsReturn`: entries of pages that were given back are not always deleted;
  with every slot in use `ht_put` probes for ever (open_address_ht.c:24).
- `StaysResident`: a thread's page may be displaced by another thread's allocation
  (memory_finder.c:192). The report (readme.pdf, section 4.2) has the page checked at each access; here
  pages are not protected and nothing moves it back.
- `NoCrash`: when memory is full `free_page` is -1, which memory_finder.c:272 reads as "there
  is room behind"; the call goes past the pages it has.
- `FreesBlocksOnly` with several blocks a thread and foreign pointers: a page that the thread sees at
  one index may lie at another, which is where `free_ptr` (memory_finder.c:438) compares the pointer
  with the segments. A pointer there that is no block's, in the thread or outside of its memory,
  then frees the block that the thread has in that page. `BlocksProofs!Astray` is that situation; without it
  the property is a theorem (section 5).
- `NothingLeaks` with blocks of three pages or more: the middle pages keep the user's data
  where their first header is.

## 5. Theorems

Proved by TLAPS for every value of the constants that the modules assume
(`SchedulerAssumption`, `ClientAssumption`, `HTAssumption`, `DirectMappingAssumption`,
`AllocatorAssumption`, `BenchmarkAssumption`, `DataStructsAssumption`; TLC
evaluates them in the runs).

What is said of the queues, here and in the next three modules, has the hypothesis
`RetryInQuantum`, and with it timer calls that take effect (section 2): `HeadIsRunning`, `LocksCounted`,
all of JoinProofs, PriorityProofs and BenchmarkProofs. `TypeCorrect`, `LocksExclude` and `MutexRefinement` have no
hypothesis, `AlarmOffInSections` and `SwitchArmsAlarm` only that the calls take effect.

**MyPthreadProofs.** `HeadIsRunning` (`CurrentIsHead`) and `TypeCorrect` (`TypeOK`). The inductive
invariant `HeadInv` of the first is `TypeOK /\ CurrentIsHead /\ BeforeFirstCreate /\ CallHasThread`:
`CurrentIsHead` needs to know that nothing is queued before the first create, and that a thread inside a
call that boosts, blocks or wakes has the thread it works on in `arg`. Types are kept even where the
queues are wrong. `LocksExclude`: `MutualExclusion`. Its invariant `LockInv` says that the thread
that got 0 out of the exchange is the only owner, and that the lock word is 1 while there is
one; it does not mention the timer or the queues, so mutual exclusion holds in both builds and however
retries are interrupted.
One lemma per group of actions, one step per action.
`MutexRefinement`: the library implements `Mutex` (`ImplementsMutex`). The
step from a refined state needs `LockInv`, for an exchange that returns 0 to find
no owner, and `UnbornInv`, that a thread not yet created holds and waits for nothing, for a
creation to be a stutter. Each action of the library maps to one action of the abstract
mutex or leaves its variables alone.

`AlarmOffInSections`: with timer calls that work, `SectionsExclusive`. The
invariant `SectionInv` says where the alarm can be armed: while the thread on the CPU is at
a preemptible place of its call, and not in the handler; a thread that was switched out is
at such a place too. `SwitchArmsAlarm`: `ArmedAtSwitch`, with timer calls that work. Its invariant
`AlarmInv` says that the handler runs with the alarm armed or with `in_scheduler` raised, which
makes it arm the alarm: a call on its way to `raise(SIGALRM)` has raised the flag, and the allocator
calls inside it leave it up. `LocksCounted`: `LockCount`. Its invariant `CountInv` accounts
for the window between the exchange and the increment of `acq_locks`; that the increment is of the
right tcb, which the code finds as the head of a queue, is `CurrentIsHead`.

**JoinProofs.** `RunnableQueuedOnce` (`ReadyIffQueued`), `JoinReturnsWhenDone` (`JoinedIsDone`)
and `NoJoinerStranded` (`JoinersAreWoken`); without timer calls that work
`JoinedIsDone` is false (run `failing_timer`). The invariant `JoinInv` is about one state of the queues, the
statuses, the lists of waiters and the places of the threads in their calls: `QueueInv`, the
threads that can run are queued once, but for those a creator is about to insert
(`PendingInv`); `StopInv`, a thread that blocks or ends gives the CPU up before it does
anything else; `WaitInv`, a thread on a list has joined the list's owner and is blocked or about to
be, a blocked thread is on its target's list, and the list of a thread that is done is empty;
`BornInv`, nothing waits for a thread that is not created. The three theorems share it since an exit
inserts the thread it wakes without a look at where it is: that it is in no queue yet
follows from the lists, and that the lists are right from who has the CPU (`SectionInv`).

For the threads that end, `StacksFreedAfterUse` (`StacksReclaimed`) and `ExitOnlyWhenStuck`
(`TeardownOnlyWhenStuck`), on top of `JoinInv`. `StackInv` adds
that the thread in `prev_done` is done and off the CPU when the handler frees its stack: only a thread
that is ready is switched to, since only such threads are queued. `CreatedInv` says that a
thread inside `my_pthread_create` is ready, and that the one it is about to insert has not
moved: with every queue empty nobody is ready, so nobody is about to insert anyone, and
a thread that is neither done nor unborn is blocked. `CallStep` is what the proofs need of the
steps other than the handler's and a creation.

**PriorityProofs.** `QueuedByPriority` (`QueueOfPriority`). The invariant `PlacedInv` is the
property, over the queues' nodes; what it needs besides is `FreshInv`: a thread that is about to be
inserted, in the best queue, has priority 0, since it holds no mutex for which a waiter could
hoist it. A hoist moves the node when `my_pthread_mutex_lock` finds it in the queue of
the old priority; when it does not, the thread is on the CPU, blocked or done, or asst1
reads past the last queue and the process is over.

`HoldersAreHoisted` (`HoistEndsInversion`) rests besides on `HoistAssumption`: priorities fit the `int8_t`
that a mutex nobody waits for has
as its `hoisted_priority`; and nobody takes a second mutex, without which it is false (section 4).
The invariant: the steps of a lock call after the exchange are made by the thread on the CPU,
without the handler (`TightInv`); `BoundInv` keeps priorities in the `int8_t`, for which it has to say
why the handler runs, since only a thread that used up its slice is aged; the mutex names its holder and
a waiter about to boost has just lent it its own priority (`OwnerInv`); and `HoistInv`, that the
holder of a mutex is no worse than the mutex says, but between a waiter's loan and its boost. The handler
never makes a holder worse because of `LockCount`, and a new holder takes the loans of its
predecessor's waiters over.

**BenchmarkProofs.** `MutexDestroyed` (`DestroyedUnlocked`), for every number of threads and rounds.
The invariant `ProgramInv` says where main and the workers are in their programs: a thread
that is done, or has come to its last call, has given the mutex back (`WorkerInv`); main has joined the
threads it counts as joined, and they are done (`JoinedInv`); the threads it has yet to join are in the map
(`KnownInv`), so that a join is not refused; and a lock word of an initialised mutex is set only
while somebody owns it (`LockedInv`). `ProgramHolderHoisted` is `HoldersAreHoisted` for these
programs, whose last step, main's return, is none of the library's.

**DataStructsProofs.** `Typed` (`TypeOK`), `Owned` (`NodesOwned`), `Loaded` (`LoadBounded`) and
`CollectionsImplemented` (`ImplementsCollections`): all that run `structures` checks, for any number
of lists, keys, things and nodes, any hash and any size of a new table. `DataStructsAssumption`
says that the null pointer is no node, list, map, thing or value, that `HASHSIZE` is a power of two,
that memory is finite, and that what a list holds (a tcb) is no pair of a key and a value.

None of the properties is inductive: what a call does to a node says nothing of the chains
before one knows where the chains go. The invariant `IInv` therefore has the chains as a witness:
there is a function `c` from the lists and the buckets to sequences of nodes such that (`Kept`) the
pointers of the heap form the `Forest` of those sequences, each the path of `next` from its
head, disjoint, and together all that is allocated; tail pointers point to the ends
(`TailsKept`); lists hold things, and chains the pairs that hash to their bucket (`DataKept`);
no two nodes have one key (`KeysApart`); `entries` counts the pairs (`MapKept`). For each
operation there is a lemma with the new `c`: a node pushed, appended or unlinked changes one
sequence. `Move` does two of these in a row, and so covers a thread that goes to the end of the
queue it is in. `NodesFrom` walks at most as many steps as there are nodes; `PathWalked` shows by the
least counterexample that on a forest it returns the path, so that nothing is assumed of rings.
A rehash builds all chains anew: `Flattened` says what the nodes it meets are, `ChainRebuilt`
that those of one new bucket, last first, are a path (found backwards from the one met last),
and `TableReplaced` that these paths and the old lists are a forest again. `SizeFound` is the loop
of `hash_size`: it ends with a power of two that is no less than what it is asked for.

The refinement reads the abstract state off `c` (`ListRead`, `MapRead`): a list is the data along
its path, the map has for a key the second half of the one pair with that key, so that it does
not depend on the table at all (`MapSame`), and a rehash stutters but for the new pair. Each
call then maps to the operation of the same name.

**OpenAddrHTProofs.** `HTTypeCorrect` (`TypeOK`) and `TableRefines`
(`ImplementsPageTable`). The invariant is `TypeOK /\ Reachable`: from its hash, every id in
use is reached by a probe that meets neither an empty slot nor an earlier slot
with that id. A deletion that turns a slot into an empty one keeps this because the next slot
is empty too; a put keeps it because it takes the first slot without a value.
It holds for any table size, threads and pages.

**AllocatorProofs.** `HeaderRoundTrip`, `AllocateSplits` and `PagedataRoundTrip`: what
is written to a segment header or to a page's data is what is read back, for every value
that fits its field, and a block is cut out of a free segment without a gap or an overlap.
`SwapKeepsPages`: after `swap` a thread finds its pages where they now are, with their segments.
`swap` updates the page table by the thread and the index that the two pages' own data name,
so the theorem has one assumption: neither page is one given back whose data still name the
thread and the index. Giving a page back leaves those data, and run `stale_page` shows a program
that meets them.

`TypesKept`: the allocator's `TypeOK`, whatever programs ask for, store in their blocks (bytes
that may be read as headers) and free. The invariant `TypeInv` gives each call in progress the
types of its variables, and what `TypeOK` alone does not have: a run of free segments has a start
(`SearchStart`), and the pages still to take lie within the block (`TakeRoom`).

`PagesFound`: `PagesMapped`, for programs that do not allocate after they have freed (with reuse it
is false, run `stale_page`). `swap` writes the page table entries that the two pages' data name, also
those of pages given back and of pages not used yet, which name thread 0. So the invariant `MapInv`
has to say more than that the pages of a thread are found (`Mapped`): among the pages used so far, a
page whose data name a place in some thread's view is the page found there (`Unique`), and
the pages not used yet are never moved, because a place where a thread sees a page is itself a page
used so far. That holds while nothing has been given back, since pages are taken in order
(`Packed`, `FirstFree`) and a thread's next index is never above the page it gets (`TakeInv`); after
that nothing is taken any more. `ReleaseInv` has the front and the end of a view at each step of
`free_process_pages`. A thread's first call sets its view one step before it has the page:
`Seen` is the view without that index. If memory is full, that call has index -1 and crashes next
(`Doomed`).

**BlocksProofs.** The blocks, in programs whose sizes are below a page (`SmallSizes`), that do not allocate
after they have freed (`~ReusesMemory`), that store into a block only where it lies (`~StoresAway`), and that
pass `free` no pointer, but blocks of the thread, into a page that the thread sees elsewhere
(`[][FreesAtHome]_vars`, which says nothing of a program that frees its own blocks only: `WithoutStray`). Each is needed: runs `stale_page` and `displaced` and section 4 show what
happens otherwise. Run `allocating` is an instance of all of them. `BlocksApart` (`BlocksDisjoint`),
`PagesReturned` (`NothingLeaks`), `BlocksResident` (`Resident`), `OnlyBlocksFreed` (`FreesBlocksOnly`).

The four properties speak of addresses, the code of headers in pages that are elsewhere, and a header is
only found from the one before it. The invariant `LayoutInv` joins them. `Describes` is what it says of one
page, in the indexes by which its thread sees it: where a block begins, there is a header with its
length, or what the page has of it; where free segments begin, behind a block or in front of the page, there is one header
for all of them, up to the next block or the end of the page; what other segments hold is left from before and
is not read. The page's data say whether a block goes on behind it. `Layout` says that of all pages that threads see
(`Drawn`); that pages in use are seen by somebody (`Owned`); and, before anything is freed, that the free
segments of a page are its last ones (`Stacked`) and that an unused page has the one header
it began with (`Fresh`), both of which `page_allocate` takes for granted. Blocks lie in the thread's view (`Within`), a thread that
sees memory has blocks (`Snug`), and a page that a thread sees at an index at which it has a page of its own is that page
(`Settled`): a walk that meets the segment a pointer names has met it where the thread sees it.

Inside a call it says besides where the walk is: at a segment with a header that is read, or at the end of a page that
a block fills (`WalkInv`), which `WalkOn` carries from one segment to the next past exactly one block or
one run of free segments. `SearchInv` has what the walk of `segment_allocate` knows of the last segment
(`LastSegment`), `TakeKnown` and `PlaceKnown` where the one or two pages of the block lie before and between
the swaps, `FreeKnown` that the block has not been passed and where the free segments before the walk begin,
`ReleaseKnown` which of the free segments behind the walk of `free_process_pages` reach up to it. Between
the first page taken and the last swap the pages describe the block that is not given yet
(`Held`). One lemma per action then shows that the step keeps this; `SwapLayout` is the one for
pages that change places, `RunFreed`, `RunUsed` and `RunSpanned` are the ones for headers within a page,
and `GoneLayout` for pages given back. A store into a block in place changes a byte that is no header
which is read (`StoredLayout`).

Only model-checked: all liveness (`StarvationFree`, `ProgramEnds`, `CallsReturn`), since ENABLED
is beyond the prover; and `Resident` and `FreesBlocksOnly` for programs of one block a thread that allocate
after they have freed and ask for more than a page, which run `reusing` has and the theorems leave out.

## 6. Plan

Done: scheduler and library with their refinement of a mutex, a benchmark program on top of them,
the linked lists and the map with the refinement of sequences and a function, the page table
with the refinement of a map, metadata, allocator; the theorems of section 5.

What the passing runs check is proved but for liveness, for the allocator under the conditions of section 5.
Left: blocks of a page and more, of which `Describes` would have to say what the pages between
the first and the last hold; with them the properties hold only for sizes that end with a page or are
alone behind it (section 4).

### Not modelled

- `data.c`, which runs on the system's pthreads, and the timing and csv output of all
  benchmarks: `Benchmark` has the calls that `data1.c` and `TEST1.c` make of the library.
  `TEST.c` makes the same calls but for the mutex: it creates three threads and joins them in order.
- `free_data`, which runs in `exit(0)`; `print_list`, `printMemory` and other output.
- The contents of stacks and contexts, and return values of threads.
- The tcbs' memory as values of the thread map: a tcb is its fields.
- asst2's bucket arrays that are not cleared: what the chains start with is
  whatever memory held, so that nothing can be said of the map (listed as a hazard).
- The unit tests and their runner, build files and data: read for what they expect, not modelled.
