------------------------------ MODULE Benchmark ------------------------------
(***************************************************************************)
(* A program of the shape of TEST1.c and data1.c on top of the library:    *)
(* main initialises a mutex, creates threads, joins them in the order of   *)
(* their creation, destroys the mutex and returns; each thread takes the   *)
(* mutex, spins and frees it, Rounds times, and returns.                   *)
(*                                                                         *)
(* job[t] is the statement of its program that thread t comes to when it   *)
(* is in user code, left[t] how often it still goes round its loop.        *)
(***************************************************************************)
EXTENDS MyPthread

CONSTANTS
    Rounds,     \* times a thread takes the mutex: 3 in TEST1.c; once in data1.c
                \* if lockTot is set, never as it is committed
    lock        \* the program's mutex

ASSUME BenchmarkAssumption == Rounds \in Nat /\ Mutexes = {lock}

VARIABLES job, left

programVars == << job, left >>
allVars == << vars, programVars >>

ProgramInit ==
    /\ Init
    /\ job = [t \in Threads |-> CASE t = Main -> "init"
                                  [] t # Main /\ Rounds = 0 -> "return"
                                  [] OTHER -> "lock"]
    /\ left = [t \in Threads |-> IF t = Main THEN MaxThreads - 1 ELSE Rounds]

\* Thread t runs, and has come to this statement.
Executes(t, statement) == t = running /\ Running("user") /\ job[t] = statement

Then(statement) == job' = [job EXCEPT ![running] = statement]

EndOfLoop(again, out) ==
    /\ left' = [left EXCEPT ![running] = @ - 1]
    /\ Then(IF left[running] > 1 THEN again ELSE out)

\* threads[i]: main's own id, 2, lies between the first thread's and the rest.
NextToJoin == LET i == MaxThreads - left[Main] IN IF i = 1 THEN 1 ELSE i + 1

\* pthread_data, test_mutex
MainStep(t) ==
    \/ Executes(t, "init") /\ MutexInit(lock) /\ Then("create") /\ UNCHANGED left
    \/ /\ Executes(t, "create")
       /\ FirstCreate \/ CreateTcb
       /\ Then(IF tid' = MaxThreads THEN "join" ELSE "create")
       /\ UNCHANGED left
    \/ Executes(t, "join") /\ Join(NextToJoin) /\ EndOfLoop("join", "destroy")
    \/ Executes(t, "destroy") /\ MutexDestroy(lock) /\ Then("return") /\ UNCHANGED left

\* my_thread_func, thread_func_mutex; a thread that returns exits.
WorkerStep(t) ==
    \/ Executes(t, "lock") /\ Lock(lock) /\ Then("spin") /\ UNCHANGED left
    \/ Executes(t, "spin") /\ UNCHANGED vars /\ Then("unlock") /\ UNCHANGED left
    \/ Executes(t, "unlock") /\ Unlock(lock) /\ EndOfLoop("lock", "return")
    \/ Executes(t, "return") /\ Exit /\ Then("over") /\ UNCHANGED left

\* main returns, which ends the process whatever the other threads are at.
ReturnFromMain ==
    /\ Executes(Main, "return")
    /\ halt' = "exit"
    /\ UNCHANGED << ready_q, curr_prio, tcb, running, should_maintain, timer,
                    prev_done, stacks, handler, scan, pthreadVars, programVars >>

ThreadStep(t) ==
    \/ t = running /\ LibraryStep /\ UNCHANGED programVars
    \/ t = Main /\ (MainStep(t) \/ ReturnFromMain)
    \/ t # Main /\ WorkerStep(t)

HandlerStep == ScheduleStep /\ UNCHANGED programVars
TimerStep == Tick /\ UNCHANGED programVars

ProgramNext ==
    \/ HandlerStep
    \/ TimerStep
    \/ \E t \in Threads : ThreadStep(t)
    \/ Halted /\ UNCHANGED programVars

\* The alarm counts CPU time, so it does not keep a thread from its next
\* statement for ever once the thread gets the CPU again and again.
ProgramSpec ==
    /\ ProgramInit /\ [][ProgramNext]_allVars
    /\ WF_allVars(HandlerStep) /\ WF_allVars(TimerStep)
    /\ \A t \in Threads : SF_allVars(ThreadStep(t))

-----------------------------------------------------------------------------
(* Properties *)

\* The program ends by main's return: no thread waits for ever for the mutex, no
\* wake-up from a join is lost, no thread starves, and the handler does not end
\* the process before (data1.c:66-69, TEST1.c:42-45).
ProgramEnds == <>(job[Main] = "return" /\ halt = "exit")

\* The joins make sure that nobody has the mutex when main destroys it, so that
\* my_pthread_mutex_destroy does not refuse (data1.c:69-70).
DestroyedUnlocked == job[Main] = "return" => inited = {}
=============================================================================
