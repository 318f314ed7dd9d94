---------------------------- MODULE BenchmarkProofs ----------------------------
(***************************************************************************)
(* The programs of Benchmark, where a waiter tries again in one quantum:   *)
(* main's joins make sure that the mutex it destroys is nobody's, and      *)
(* whoever has the mutex is hoisted to the priority of the threads that    *)
(* wait for it.                                                            *)
(***************************************************************************)
EXTENDS Benchmark, PriorityProofs

USE DEF BoostLabels, WaiterLabels, OwnerLabels, LockLabels

-----------------------------------------------------------------------------
(* A lock word is set only while somebody has the mutex *)

Kept == \A m \in Mutexes : mutex'[m].locked = mutex[m].locked

LockedInv == \A m \in inited : mutex[m].locked = TRUE => \E t \in Threads : Owns(t, m)

LEMMA LockedFrame ==
    ASSUME LockedInv, TypeOK, Kept, UNCHANGED Ideal!vars
    PROVE  LockedInv'
<1>1. UNCHANGED inited /\ \A m \in Mutexes : OwnersOf(m)' = OwnersOf(m)
    BY DEF Ideal!vars, OwnersOf
<1>2. \A m \in Mutexes : (\E t \in Threads : Owns(t, m)) => (\E t \in Threads : Owns(t, m)')
    BY <1>1 DEF OwnersOf
<1>3. inited \subseteq Mutexes
    BY DEF TypeOK
<1>4. QED
    BY <1>1, <1>2, <1>3 DEF LockedInv, Kept

LEMMA LockKeepsLocked ==
    ASSUME LockedInv, LockInv, TypeOK, NEW m \in Mutexes,
           \/ Lock(m) \/ LockTry(m) \/ LockHoist(m)
           \/ LockOwner(m) \/ LockAdjust(m) \/ LockExit(m)
    PROVE  LockedInv'
<1> USE DEF Owns, TypeOK, Running, Goto, lockVars
<1>1. CASE LockTry(m)
    <2>1. UNCHANGED << inited, mtx, holds, running >> /\ running \in Threads
          /\ mutex' = [mutex EXCEPT ![m].locked = TRUE] /\ mtx[running] = m
          /\ pc[running] = "lock_try"
          /\ pc' = [pc EXCEPT ![running] = IF mutex[m].locked THEN "lock_hoist" ELSE "lock_owner"]
        BY <1>1 DEF LockTry, LibraryFrame
    <2>2. \A t \in Threads, n \in Mutexes : Owns(t, n) => Owns(t, n)'
        BY <2>1
    <2>3. \A n \in Mutexes \ {m} : mutex'[n] = mutex[n]
        BY <2>1
    <2>4. mutex[m].locked \in BOOLEAN
        BY DEF MutexType
    <2>5. CASE mutex[m].locked = TRUE
        BY <2>1, <2>2, <2>3, <2>5 DEF LockedInv
    <2>6. CASE mutex[m].locked = FALSE
        <3>1. Owns(running, m)'
            BY <2>1, <2>6
        <3>2. QED
            BY <2>1, <2>2, <2>3, <3>1 DEF LockedInv
    <2>7. QED
        BY <2>4, <2>5, <2>6
<1>2. CASE Lock(m)
    <2>1. UNCHANGED Ideal!vars
        BY <1>2, OwnersFrame DEF Lock, Calls
    <2>2. QED
        BY <1>2, <2>1, LockedFrame DEF Lock, Kept
<1>3. CASE LockHoist(m)
    <2>1. UNCHANGED Ideal!vars
        BY <1>3, OwnersFrame DEF LockHoist, AfterHoist
    <2>2. Kept
        BY <1>3 DEF LockHoist, Kept, MutexType
    <2>3. QED
        BY <2>1, <2>2, LockedFrame
<1>4. CASE LockOwner(m)
    <2>1. UNCHANGED Ideal!vars
        BY <1>4, OwnersFrame DEF LockOwner
    <2>2. Kept
        BY <1>4 DEF LockOwner, Kept, MutexType
    <2>3. QED
        BY <2>1, <2>2, LockedFrame
<1>5. CASE LockAdjust(m)
    <2>1. UNCHANGED Ideal!vars
        BY <1>5, OwnersFrame DEF LockAdjust
    <2>2. Kept
        BY <1>5, AdjustKeepsLocked DEF Kept
    <2>3. QED
        BY <2>1, <2>2, LockedFrame
<1>6. CASE LockExit(m)
    <2>1. UNCHANGED Ideal!vars
        BY <1>6, OwnersFrame DEF LockExit, Return
    <2>2. QED
        BY <1>6, <2>1, LockedFrame DEF LockExit, Kept
<1>7. QED
    BY <1>1, <1>2, <1>3, <1>4, <1>5, <1>6

LEMMA InitDestroyKeepLocked ==
    ASSUME LockedInv, TypeOK, NEW m \in Mutexes, MutexInit(m) \/ MutexDestroy(m)
    PROVE  LockedInv'
<1>1. UNCHANGED << pc, mtx, holds >> /\ mutex \in [Mutexes -> MutexType] /\ inited \subseteq Mutexes
    BY DEF MutexInit, MutexDestroy, TypeOK
<1>2. \A t \in Threads, n \in Mutexes : Owns(t, n) => Owns(t, n)'
    BY <1>1 DEF Owns
<1>3. CASE MutexInit(m)
    <2>1. mutex' = [mutex EXCEPT ![m] = FreshMutex] /\ inited' = inited \cup {m}
        BY <1>3 DEF MutexInit
    <2>2. mutex'[m].locked = FALSE /\ \A n \in Mutexes \ {m} : mutex'[n] = mutex[n]
        BY <1>1, <2>1 DEF FreshMutex
    <2>3. QED
        BY <1>1, <1>2, <2>1, <2>2 DEF LockedInv
<1>4. CASE MutexDestroy(m)
    <2>1. mutex' = [mutex EXCEPT ![m].locked = TRUE]
          /\ inited' = IF mutex[m].locked THEN inited ELSE inited \ {m}
        BY <1>4 DEF MutexDestroy
    <2>2. mutex[m].locked \in BOOLEAN /\ \A n \in Mutexes \ {m} : mutex'[n] = mutex[n]
        BY <1>1, <2>1 DEF MutexType
    <2>3. QED
        BY <1>1, <1>2, <2>1, <2>2 DEF LockedInv
<1>5. QED
    BY <1>3, <1>4

LEMMA UnlockKeepsLocked ==
    ASSUME LockedInv, TypeOK, NEW m \in Mutexes, Unlock(m)
    PROVE  LockedInv'
<1>1. /\ UNCHANGED inited /\ mutex' = [mutex EXCEPT ![m].locked = FALSE]
      /\ holds' = [holds EXCEPT ![running] = @ \ {m}]
      /\ pc' = [pc EXCEPT ![running] = "unlock_restore"] /\ pc[running] = "user"
      /\ mtx' = [mtx EXCEPT ![running] = m]
    BY DEF Unlock, Goto, Calls, Running
<1>2. \A t \in Threads, n \in Mutexes \ {m} : Owns(t, n) => Owns(t, n)'
    BY <1>1 DEF Owns, TypeOK
<1>3. mutex'[m].locked = FALSE /\ \A n \in Mutexes \ {m} : mutex'[n] = mutex[n]
    BY <1>1 DEF TypeOK, MutexType
<1>4. inited \subseteq Mutexes
    BY DEF TypeOK
<1>5. QED
    BY <1>1, <1>2, <1>3, <1>4 DEF LockedInv

LEMMA LockedInvStep ==
    ASSUME RetryInQuantum, LockedInv, LockInv, UnbornInv, TypeOK, [Next]_vars
    PROVE  LockedInv'
<1>1. CASE UNCHANGED vars \/ Halted \/ Compute
    <2>1. UNCHANGED Ideal!vars
        BY <1>1, OwnersFrame DEF Halted, Compute, vars, pthreadVars, Owns
    <2>2. QED
        BY <1>1, <2>1, LockedFrame DEF Halted, Compute, vars, pthreadVars, Kept
<1>2. CASE Tick \/ ScheduleStep
    BY <1>2, HandlerOwners, LockedFrame DEF Tick, ScheduleStep, pthreadVars, Kept
<1>3. CASE Raise
    BY <1>3, RaiseOwners, LockedFrame DEF Raise, lockVars, Kept
<1>4. CASE \/ FirstCreate \/ CreateTcb \/ CreateInsert \/ CreatePut
           \/ Yield \/ Exit \/ ExitWake \/ ExitDone
           \/ JoinWait \/ JoinBlock \/ JoinDone
    <2>1. UNCHANGED mutex
        BY <1>4 DEF FirstCreate, CreateTcb, CreateInsert, CreatePut, Yield, Exit, ExitWake,
           ExitDone, JoinWait, JoinBlock, JoinDone, lockVars, pthreadVars
    <2>2. QED
        BY <1>4, <2>1, OtherCallsOwners, LockedFrame DEF Kept
<1>5. ASSUME NEW target \in Threads, Join(target) PROVE LockedInv'
    BY <1>5, JoinOwners, LockedFrame DEF Join, lockVars, Kept
<1>6. CASE LockBoost \/ LockBoostMove \/ LockYield
    BY <1>6, WaiterOwners, LockedFrame
    DEF LockBoost, LockBoostMove, LockBoostPriority, LockYield, lockVars, Kept
<1>7. ASSUME NEW m \in Mutexes,
             \/ Lock(m) \/ LockTry(m) \/ LockHoist(m)
             \/ LockOwner(m) \/ LockAdjust(m) \/ LockExit(m)
      PROVE  LockedInv'
    BY <1>7, LockKeepsLocked
<1>8. ASSUME NEW m \in Mutexes, UnlockRestore(m) PROVE LockedInv'
    BY <1>8, RestoreOwners, LockedFrame DEF UnlockRestore, lockVars, Kept
<1>9. ASSUME NEW m \in Mutexes, MutexInit(m) \/ MutexDestroy(m) \/ Unlock(m) PROVE LockedInv'
    BY <1>9, InitDestroyKeepLocked, UnlockKeepsLocked
<1>10. QED
    BY QuietRetry, <1>1, <1>2, <1>3, <1>4, <1>5, <1>6, <1>7, <1>8, <1>9 DEF Next, LibraryStep, UserCall
-----------------------------------------------------------------------------
(* Where the threads of the program are *)

MainPlaces == {"user", "create_insert", "create_put",
               "join_wait", "join_block", "raise_join", "join_done"}

\* A thread takes the mutex or has it, by what the library knows.
Busy(t) == Locking(t) \/ holds[t] # {}

\* main creates the threads, then joins them; it does not exit, lock or yield.
MainInv ==
    /\ job[Main] \in {"init", "create", "join", "destroy", "return"}
    /\ pc[Main] \in MainPlaces
    /\ job[Main] \in {"init", "create"} => left[Main] = MaxThreads - 1
    /\ job[Main] \in {"join", "destroy", "return"} => tid = MaxThreads
    /\ job[Main] = "join" => left[Main] \in 1 .. MaxThreads - 1

\* The others have the mutex, or take it, between the lock call and the unlock
\* call; they exit last of all.
WorkerInv ==
    /\ \A t \in Threads : Busy(t) => t # Main /\ job[t] \in {"spin", "unlock"}
    /\ \A t \in Threads \ {Main} :
          pc[t] = "exit_wake" \/ tcb[t].status = "DONE" => job[t] = "over"

\* A thread that has been created is in the map, or about to be put there.
KnownInv ==
    \A t \in 1 .. tid :
        t \in all_threads \/ (pc[Main] \in {"create_insert", "create_put"} /\ arg[Main] = t)

Joined(t) ==
    /\ t # Main
    /\ job[Main] \in {"destroy", "return"} \/ (job[Main] = "join" /\ t < NextToJoin)

\* Whom main has joined is done, if main's call has returned.
JoinedInv ==
    \A t \in Threads : Joined(t) =>
        \/ tcb[t].status = "DONE"
        \/ arg[Main] = t /\ pc[Main] \in {"join_wait", "join_block", "raise_join", "join_done"}

Jobs == {"init", "create", "join", "destroy", "return", "lock", "spin", "unlock", "over"}

ProgramInv ==
    /\ job \in [Threads -> Jobs] /\ left \in [Threads -> Int]
    /\ MainInv /\ WorkerInv /\ KnownInv /\ JoinedInv
    /\ DestroyedUnlocked
-----------------------------------------------------------------------------
(* What the steps of the calls do *)

\* Only the last step of my_pthread_exit ends a thread.
LEMMA EndStep ==
    ASSUME RetryInQuantum, HeadInv, UnbornInv, SectionInv, JoinInv, JoinInv', [Next]_vars,
           NEW t \in Threads, tcb'[t].status = "DONE"
    PROVE  tcb[t].status = "DONE" \/ (t = running /\ pc[t] = "exit_wake" /\ pc'[t] = "raise_exit")
<1>0. tcb \in [Threads -> TcbType] /\ pc \in [Threads -> Labels] /\ running \in Threads
    BY DEF HeadInv, TypeOK
<1>1. CASE UNCHANGED tcb
    BY <1>1
<1>2. CASE ScheduleStep
    BY <1>2, HandlerKeepsTcbs DEF ScheduleStep, HeadInv, TcbsKept, TcbKept
<1>3. CASE CreateTcb
    BY <1>3, CreatedTcb
<1>4. CASE ExitDone
    <2>1. Current = running /\ pc[running] = "exit_wake"
        BY <1>4, CurrentIsRunning, InLibrary DEF ExitDone, Running, HeadInv
    <2>2. tcb' = [tcb EXCEPT ![running].status = "DONE"]
          /\ pc' = [pc EXCEPT ![running] = "raise_exit"]
        BY <1>4, <2>1 DEF ExitDone, Goto
    <2>3. QED
        BY <1>0, <2>1, <2>2
<1>5. CASE ExitWake \/ JoinWait \/ JoinBlock
    <2>1. StatusKept
        BY <1>5, ExitStatus, JoinStatus
    <2>2. t # running => tcb[t].status = "DONE"
        BY <2>1 DEF StatusKept, OnCpu
    <2>3. CASE t = running
        <3>1. Current = running /\ pc[running] \in {"exit_wake", "join_wait", "join_block"}
              /\ Live /\ handler = "idle"
            BY <1>5, CurrentIsRunning, InLibrary DEF Live, ExitWake, JoinWait, JoinBlock, Running, HeadInv
        <3>2. tcb[running].status = "READY"
            BY <3>1 DEF JoinInv, RunInv, StopInv
        <3>3. tcb'[running].status # "DONE"
            <4>1. CASE ExitWake
                <5> DEFINE w == tcb[running].waited_on[1]
                           emptied == [tcb EXCEPT ![running].waited_on = Tail(@)]
                <5>1. tcb' = [emptied EXCEPT ![w].status = "READY"]
                    BY <3>1, <4>1 DEF ExitWake
                <5>2. DOMAIN emptied = Threads /\ emptied[running].status = "READY"
                    BY <1>0, <3>2 DEF TcbType
                <5> HIDE DEF emptied, w
                <5>3. QED
                    BY <1>0, <5>1, <5>2
            <4>2. CASE JoinWait
                <5>1. PICK u, s : tcb' = [tcb EXCEPT ![u].waited_on = s]
                    BY <4>2 DEF JoinWait
                <5>2. QED
                    BY <1>0, <3>2, <5>1 DEF TcbType
            <4>3. CASE JoinBlock
                BY <1>0, <3>1, <4>3 DEF JoinBlock, TcbType
            <4>4. QED
                BY <1>5, <4>1, <4>2, <4>3
        <3>4. QED
            BY <2>3, <3>3
    <2>4. QED
        BY <2>2, <2>3
<1>6. CASE LockBoost \/ LockBoostMove
    BY <1>6, FieldKept DEF LockBoost, LockBoostMove, LockBoostPriority, HeadInv, TcbsKept, TcbKept
<1>7. CASE PlainCall
    <2>1. Live /\ handler = "idle"
        BY <1>7, InLibrary DEF PlainCall, Exit, JoinDone, CreatePut, Yield, LockYield, Lock, LockTry,
           LockHoist, LockOwner, LockAdjust, LockExit, Unlock, UnlockRestore, Calls, Running, Live, HeadInv
    <2>2. QED
        BY <1>7, <2>1, CurrentIsRunning, PlainTcbs DEF HeadInv, TcbsKept, TcbKept
<1>8. CASE Tick \/ Raise \/ CreateInsert \/ Compute \/ Halted \/ UNCHANGED vars
    BY <1>1, <1>8 DEF Tick, Raise, CreateInsert, Compute, Halted, vars, schedVars
<1>9. CASE \E u \in Threads : Join(u)
    BY <1>1, <1>9 DEF Join
<1>10. CASE \E m \in Mutexes : MutexInit(m) \/ MutexDestroy(m)
    BY <1>1, <1>10 DEF MutexInit, MutexDestroy, schedVars
<1>11. CASE FirstCreate
    BY <1>0, <1>11 DEF FirstCreate, FreshTcb, JoinInv, BornInv
<1>12. QED
    BY QuietRetry, <1>2, <1>3, <1>4, <1>5, <1>6, <1>7, <1>8, <1>9, <1>10, <1>11
    DEF Next, LibraryStep, UserCall, PlainCall
\* The steps of main's calls.
LEMMA MainMoves ==
    ASSUME RetryInQuantum, LibraryStep, pc[running] \in MainPlaces
    PROVE  \/ CreateInsert \/ CreatePut \/ JoinWait \/ JoinBlock \/ JoinDone
           \/ Raise /\ pc[running] = "raise_join"
BY QuietRetry DEF LibraryStep, Raise, AfterRaise, ExitWake, ExitDone, LockBoost, LockBoostMove,
   LockBoostPriority, LockYield, LockTry, LockHoist, LockOwner, LockAdjust, LockExit,
   UnlockRestore, Running, MainPlaces

LEMMA MapGrows ==
    ASSUME RetryInQuantum, LibraryStep
    PROVE  all_threads \subseteq all_threads'
BY QuietRetry DEF LibraryStep, Raise, CreateInsert, CreatePut, ExitWake, ExitDone, JoinWait, JoinBlock,
   JoinDone, LockBoost, LockBoostMove, LockBoostPriority, LockYield, LockTry, LockHoist,
   LockOwner, LockAdjust, LockExit, UnlockRestore, pthreadVars

-----------------------------------------------------------------------------
(* The steps keep the invariant *)

LibraryInv == HeadInv /\ UnbornInv /\ SectionInv /\ JoinInv /\ LockInv /\ LockedInv

\* What a step of the library leaves behind of the threads that have ended.
LEMMA DoneStep ==
    ASSUME RetryInQuantum, LibraryInv, LibraryInv', [Next]_vars
    PROVE  /\ \A t \in Threads : tcb'[t].status = "DONE" =>
                 \/ tcb[t].status = "DONE"
                 \/ t = running /\ pc[t] = "exit_wake" /\ pc'[t] = "raise_exit"
           /\ \A t \in Threads : tcb[t].status = "DONE" => tcb'[t].status = "DONE"
<1>1. \A t \in Threads : tcb'[t].status = "DONE" =>
         \/ tcb[t].status = "DONE"
         \/ t = running /\ pc[t] = "exit_wake" /\ pc'[t] = "raise_exit"
    BY EndStep DEF LibraryInv
<1>2. CASE Live
    BY <1>1, <1>2, StatusStep DEF LibraryInv, StatusKept
<1>3. CASE tid = 0
    BY <1>1, <1>3 DEF LibraryInv, JoinInv, BornInv
<1>4. CASE halt # "none"
    <2>1. ~FirstCreate
        BY <1>4 DEF FirstCreate, Running
    <2>2. UNCHANGED tcb
        BY <1>4, <2>1, DeadStep DEF LibraryInv, Live, schedVars
    <2>3. QED
        BY <1>1, <2>2
<1>5. QED
    BY <1>2, <1>3, <1>4 DEF Live

LEMMA LibraryKeepsProgram ==
    ASSUME RetryInQuantum, LibraryInv, LibraryInv', ProgramInv, LibraryStep, UNCHANGED programVars
    PROVE  ProgramInv'
<1>0. TypeOK /\ Main \in Threads /\ running \in Threads /\ tid \in Nat
      /\ UNCHANGED << job, left >>
    <2>1. TypeOK
        BY DEF LibraryInv, HeadInv
    <2>2. tid \in 0 .. MaxThreads /\ running \in Threads
        BY <2>1 DEF TypeOK
    <2>3. QED
        BY <2>1, <2>2, Constants, SchedulerAssumption DEF programVars
<1>1. /\ halt = "none" /\ handler = "idle" /\ UNCHANGED << tid, inited, running >>
      /\ Move \in Moves /\ OthersStay
      /\ holds'[running] = holds[running] \/ pc[running] = "lock_exit"
    BY <1>0, LibraryMoves
<1>2. /\ \A t \in Threads : tcb'[t].status = "DONE" => tcb[t].status = "DONE" \/ pc[t] = "exit_wake"
      /\ \A t \in Threads : tcb[t].status = "DONE" => tcb'[t].status = "DONE"
    BY DoneStep DEF Next
<1>3. WorkerInv'
    <2>1. \A t \in Threads : Busy(t)' => Busy(t)
        <3> SUFFICES ASSUME NEW t \in Threads, Busy(t)' PROVE Busy(t)
            OBVIOUS
        <3>1. CASE t # running
            BY <1>1, <3>1 DEF OthersStay, Busy, Locking
        <3>2. CASE t = running
            BY <1>1, <3>2 DEF Move, Moves, Busy, Locking, LockLabels
        <3>3. QED
            BY <3>1, <3>2
    <2>2. \A t \in Threads : pc'[t] = "exit_wake" => pc[t] = "exit_wake"
        BY <1>1 DEF OthersStay, Move, Moves
    <2>3. QED
        BY <1>0, <1>2, <2>1, <2>2 DEF ProgramInv, WorkerInv
<1>4. MainInv'
    <2>1. pc'[Main] \in MainPlaces
        BY <1>0, <1>1 DEF OthersStay, Move, Moves, ProgramInv, MainInv, MainPlaces
    <2>2. QED
        BY <1>0, <1>1, <2>1 DEF ProgramInv, MainInv
<1>5. CASE running # Main
    <2>1. pc'[Main] = pc[Main] /\ arg'[Main] = arg[Main]
        BY <1>0, <1>1, <1>5 DEF OthersStay
    <2>2. KnownInv'
        BY <1>0, <1>1, <2>1, MapGrows DEF ProgramInv, KnownInv
    <2>3. JoinedInv'
        BY <1>0, <1>2, <2>1 DEF ProgramInv, JoinedInv, Joined, NextToJoin
    <2>4. QED
        BY <1>0, <1>1, <1>3, <1>4, <2>2, <2>3 DEF ProgramInv, DestroyedUnlocked
<1>6. CASE running = Main
    <2>1. \/ CreateInsert \/ CreatePut \/ JoinWait \/ JoinBlock \/ JoinDone
          \/ Raise /\ pc[running] = "raise_join"
        BY <1>6, MainMoves DEF ProgramInv, MainInv
    <2>2. KnownInv'
        <3>1. CASE CreateInsert
            BY <1>1, <1>6, <3>1, MapGrows
            DEF CreateInsert, Running, Goto, ProgramInv, KnownInv, TypeOK
        <3>2. CASE CreatePut
            BY <1>1, <1>6, <3>2, MapGrows
            DEF CreatePut, Running, ProgramInv, KnownInv
        <3>3. CASE pc[Main] \notin {"create_insert", "create_put"}
            BY <1>1, <3>3, MapGrows DEF ProgramInv, KnownInv
        <3>4. QED
            BY <1>6, <2>1, <3>1, <3>2, <3>3
            DEF JoinWait, JoinBlock, JoinDone, Running
    <2>3. JoinedInv'
        <3>1. CASE JoinWait \/ JoinBlock \/ (Raise /\ pc[running] = "raise_join")
            <4>1. UNCHANGED arg
                BY <3>1 DEF JoinWait, JoinBlock, Raise
            <4>2. pc'[Main] \in {"join_block", "raise_join", "join_done"}
                BY <1>1, <1>6, <3>1 DEF Move, Moves, JoinWait, JoinBlock, Running
            <4>3. QED
                BY <1>0, <1>2, <4>1, <4>2 DEF ProgramInv, JoinedInv, Joined, NextToJoin
        <3>2. CASE CreateInsert \/ CreatePut
            BY <1>0, <1>2, <1>6, <3>2
            DEF CreateInsert, CreatePut, Running, ProgramInv, JoinedInv, Joined, NextToJoin
        <3>3. CASE JoinDone
            <4>1. At(Main, "join_done") /\ Live
                BY <1>6, <3>3, InLibrary DEF JoinDone, Running, At, OnCpu, LibraryInv
            <4>2. tcb[arg[Main]].status = "DONE"
                BY <1>0, <4>1, DoneAtReturn DEF LibraryInv, JoinedIsDone
            <4>3. QED
                BY <1>0, <1>2, <4>2 DEF ProgramInv, JoinedInv, Joined, NextToJoin
        <3>4. QED
            BY <2>1, <3>1, <3>2, <3>3
    <2>4. QED
        BY <1>0, <1>1, <1>3, <1>4, <2>2, <2>3 DEF ProgramInv, DestroyedUnlocked
<1>7. QED
    BY <1>5, <1>6
\* The handler and the timer move no thread.
LEMMA TriggersKeepProgram ==
    ASSUME RetryInQuantum, LibraryInv, LibraryInv', ProgramInv, ScheduleStep \/ Tick,
           UNCHANGED programVars
    PROVE  ProgramInv'
<1>0. Main \in Threads /\ UNCHANGED << pthreadVars, job, left >>
    BY Constants DEF programVars, ScheduleStep, Tick
<1>1. \A t \in Threads : tcb'[t].status = "DONE" <=> tcb[t].status = "DONE"
    <2>1. [Next]_vars /\ UNCHANGED pc
        BY <1>0 DEF Next, pthreadVars
    <2>2. \A t \in Threads : pc[t] = "exit_wake" /\ pc'[t] = "raise_exit" => FALSE
        BY <2>1
    <2>3. QED
        BY <2>1, <2>2, DoneStep
<1>2. QED
    BY <1>0, <1>1
    DEF ProgramInv, MainInv, WorkerInv, KnownInv, JoinedInv, Joined, NextToJoin, Busy, Locking,
        DestroyedUnlocked, pthreadVars

\* What main's calls do, up to the joins.
LEMMA CreateKeepsProgram ==
    ASSUME RetryInQuantum, BenchmarkAssumption, LibraryInv, LibraryInv', ProgramInv,
           Executes(Main, "create"),
           FirstCreate \/ CreateTcb,
           Then(IF tid' = MaxThreads THEN "join" ELSE "create"), UNCHANGED left
    PROVE  ProgramInv'
<1>0. /\ TypeOK /\ Main \in Threads /\ running = Main /\ tid \in Nat /\ job[Main] = "create"
      /\ pc[Main] = "user" /\ MaxThreads \in Nat /\ MaxThreads >= 2
      /\ pc \in [Threads -> Labels]
    <2>1. tid \in 0 .. MaxThreads /\ MaxThreads \in Nat /\ MaxThreads >= 2
        BY SchedulerAssumption DEF LibraryInv, HeadInv, TypeOK
    <2>2. tid \in Nat
        BY <2>1
    <2>3. QED
        BY <2>1, <2>2, Constants DEF LibraryInv, HeadInv, TypeOK, Executes, Running
<1>1. /\ job' = [job EXCEPT ![Main] = IF tid' = MaxThreads THEN "join" ELSE "create"]
      /\ UNCHANGED << left, holds, inited >>
    BY <1>0 DEF Then, FirstCreate, CreateTcb, lockVars
<1>2. \A t \in Threads : tcb'[t].status = "DONE" => tcb[t].status = "DONE"
    <2>1. [Next]_vars
        BY DEF Next, UserCall
    <2>2. pc[running] # "exit_wake"
        BY <1>0
    <2>3. QED
        BY <2>1, <2>2, DoneStep
<1>3. /\ \A t \in Threads : pc'[t] = pc[t] \/ pc'[t] \in {"user", "create_insert"}
      /\ pc'[Main] \in {"user", "create_insert"}
    <2>1. CASE FirstCreate
        BY <1>0, <2>1, Constants DEF FirstCreate, Main
    <2>2. CASE CreateTcb
        BY <1>0, <2>2, NextId DEF CreateTcb, LibraryInv
    <2>3. QED
        BY <2>1, <2>2
<1>4. WorkerInv'
    <2>1. \A t \in Threads : Busy(t)' => Busy(t)
        BY <1>1, <1>3 DEF Busy, Locking, LockLabels
    <2>2. \A t \in Threads : pc'[t] = "exit_wake" => pc[t] = "exit_wake"
        BY <1>3
    <2>3. QED
        BY <1>0, <1>1, <1>2, <2>1, <2>2 DEF ProgramInv, WorkerInv
<1>5. tid' = tid + 1 \/ (tid = 0 /\ tid' = 2)
    BY DEF FirstCreate, CreateTcb
<1>6. MainInv'
    <2>1. left[Main] = MaxThreads - 1 /\ MaxThreads - 1 \in 1 .. MaxThreads - 1
        BY <1>0 DEF ProgramInv, MainInv
    <2>2. job'[Main] = IF tid' = MaxThreads THEN "join" ELSE "create"
        BY <1>0, <1>1 DEF ProgramInv
    <2>3. QED
        BY <1>1, <1>3, <2>1, <2>2 DEF MainInv, MainPlaces
<1>7. KnownInv'
    <2>1. CASE FirstCreate
        <3>1. tid' = 2 /\ all_threads' = {1, 2}
            BY <2>1 DEF FirstCreate, Main
        <3>2. QED
            BY <3>1 DEF KnownInv
    <2>2. CASE CreateTcb
        <3>1. /\ tid' = tid + 1 /\ UNCHANGED all_threads
              /\ pc'[Main] = "create_insert" /\ arg'[Main] = tid + 1
            BY <1>0, <2>2, NextId DEF CreateTcb, LibraryInv, TypeOK
        <3>2. \A t \in 1 .. tid' : t \in 1 .. tid \/ t = tid + 1
            BY <1>0, <3>1
        <3>3. \A t \in 1 .. tid : t \in all_threads
            BY <1>0 DEF ProgramInv, KnownInv
        <3>4. QED
            BY <3>1, <3>2, <3>3 DEF KnownInv
    <2>3. QED
        BY <2>1, <2>2
<1>8. JoinedInv'
    <2>1. left[Main] = MaxThreads - 1 /\ job'[Main] \in {"create", "join"}
        BY <1>0, <1>1 DEF ProgramInv, MainInv
    <2>2. NextToJoin' = 1
        BY <1>0, <1>1, <2>1 DEF NextToJoin
    <2>3. \A t \in Threads : ~Joined(t)'
        BY <2>1, <2>2 DEF Joined, Threads
    <2>4. QED
        BY <2>3 DEF JoinedInv
<1>9. DestroyedUnlocked' /\ job' \in [Threads -> Jobs] /\ left' \in [Threads -> Int]
    BY <1>0, <1>1 DEF ProgramInv, DestroyedUnlocked, Jobs
<1>10. QED
    BY <1>4, <1>6, <1>7, <1>8, <1>9 DEF ProgramInv

\* main joins the threads in the order of their creation.
LEMMA JoinKeepsProgram ==
    ASSUME RetryInQuantum, BenchmarkAssumption, LibraryInv, LibraryInv', ProgramInv,
           Executes(Main, "join"),
           Join(NextToJoin), EndOfLoop("join", "destroy")
    PROVE  ProgramInv'
<1> DEFINE target == NextToJoin
<1>0. /\ TypeOK /\ Main \in Threads /\ running = Main /\ job[Main] = "join" /\ pc[Main] = "user"
      /\ pc \in [Threads -> Labels] /\ arg \in [Threads -> Threads \cup {NoThread}]
      /\ tid = MaxThreads /\ MaxThreads \in Nat /\ MaxThreads >= 2
      /\ left[Main] \in 1 .. MaxThreads - 1 /\ left \in [Threads -> Int]
      /\ job \in [Threads -> Jobs]
    BY Constants, SchedulerAssumption
    DEF LibraryInv, HeadInv, TypeOK, Executes, Running, ProgramInv, MainInv
<1>1. /\ job' = [job EXCEPT ![Main] = IF left[Main] > 1 THEN "join" ELSE "destroy"]
      /\ left' = [left EXCEPT ![Main] = left[Main] - 1]
      /\ UNCHANGED << holds, inited, tcb, tid, all_threads >>
    BY <1>0 DEF EndOfLoop, Then, Join, lockVars
<1>2. target \in Threads /\ target \in all_threads
    <2>1. target \in 1 .. MaxThreads
        BY <1>0 DEF NextToJoin
    <2>2. QED
        BY <1>0, <2>1 DEF ProgramInv, KnownInv, Threads
<1>3. /\ pc' = [pc EXCEPT ![Main] = IF tcb[target].status # "DONE" THEN "join_wait" ELSE "join_done"]
      /\ arg' = [arg EXCEPT ![Main] = target]
    BY <1>0, <1>2 DEF Join, Goto
<1>4. WorkerInv'
    BY <1>0, <1>1, <1>3 DEF ProgramInv, WorkerInv, Busy, Locking, LockLabels
<1>5. MainInv'
    <2>1. pc'[Main] \in {"join_wait", "join_done"}
        BY <1>0, <1>3
    <2>2. job'[Main] = (IF left[Main] > 1 THEN "join" ELSE "destroy")
          /\ left'[Main] = left[Main] - 1
        BY <1>0, <1>1
    <2>3. QED
        BY <1>0, <1>1, <2>1, <2>2 DEF MainInv, MainPlaces
<1>6. KnownInv'
    BY <1>0, <1>1 DEF ProgramInv, KnownInv
<1>7. JoinedInv'
    <2>1. arg'[Main] = target /\ pc'[Main] \in {"join_wait", "join_done"}
        BY <1>0, <1>3
    <2>2. \A t \in Threads : t # Main /\ t < target => Joined(t)
        BY <1>0 DEF Joined
    <2>3. \A t \in Threads : Joined(t)' => t # Main /\ t <= target
        <3> SUFFICES ASSUME NEW t \in Threads, Joined(t)' PROVE t # Main /\ t <= target
            OBVIOUS
        <3>1. t \in 1 .. MaxThreads /\ t # 2
            BY DEF Threads, Joined, Main
        <3>2. job'[Main] = (IF left[Main] > 1 THEN "join" ELSE "destroy")
              /\ left'[Main] = left[Main] - 1
            BY <1>0, <1>1
        <3>3. CASE left[Main] > 1
            <4>1. t < NextToJoin'
                BY <3>2, <3>3 DEF Joined
            <4>2. NextToJoin' = MaxThreads - left[Main] + 2
                BY <1>0, <3>2, <3>3 DEF NextToJoin
            <4>3. target = IF MaxThreads - left[Main] = 1 THEN 1 ELSE MaxThreads - left[Main] + 1
                BY DEF NextToJoin
            <4> HIDE DEF target
            <4>4. QED
                BY <1>0, <3>1, <4>1, <4>2, <4>3 DEF Main
        <3>4. CASE left[Main] = 1
            <4>1. target = IF MaxThreads - 1 = 1 THEN 1 ELSE MaxThreads
                BY <1>0, <3>4 DEF NextToJoin
            <4> HIDE DEF target
            <4>2. QED
                BY <1>0, <3>1, <4>1 DEF Main
        <3>5. QED
            BY <1>0, <3>3, <3>4
    <2>4. \A t \in Threads : Joined(t) => tcb[t].status = "DONE"
        BY <1>0 DEF ProgramInv, JoinedInv
    <2> HIDE DEF target
    <2>5. \A t \in Threads : t <= target => t < target \/ t = target
        BY <1>2 DEF Threads
    <2>6. QED
        BY <1>1, <2>1, <2>2, <2>3, <2>4, <2>5 DEF JoinedInv
<1>8. DestroyedUnlocked' /\ job' \in [Threads -> Jobs] /\ left' \in [Threads -> Int]
    BY <1>0, <1>1 DEF DestroyedUnlocked, Jobs
<1>9. QED
    BY <1>4, <1>5, <1>6, <1>7, <1>8 DEF ProgramInv

\* The mutex is free when main destroys it: whoever could have it has ended.
LEMMA MutexCallsKeepProgram ==
    ASSUME RetryInQuantum, BenchmarkAssumption, LibraryInv, LibraryInv', ProgramInv, UNCHANGED left,
           \/ Executes(Main, "init") /\ MutexInit(lock) /\ Then("create")
           \/ Executes(Main, "destroy") /\ MutexDestroy(lock) /\ Then("return")
    PROVE  ProgramInv'
<1>0. /\ Main \in Threads /\ running = Main /\ pc[Main] = "user" /\ lock \in Mutexes
      /\ inited \subseteq {lock} /\ job \in [Threads -> Jobs]
      /\ UNCHANGED << tcb, tid, all_threads, pc, arg, holds >>
    BY Constants
    DEF LibraryInv, HeadInv, TypeOK, Executes, Running, BenchmarkAssumption, MutexInit,
        MutexDestroy, schedVars, ProgramInv
<1>1. job' = [job EXCEPT ![Main] = IF job[Main] = "init" THEN "create" ELSE "return"]
      /\ job[Main] \in {"init", "destroy"}
    BY <1>0 DEF Then, Executes
<1>2. WorkerInv' /\ MainInv' /\ KnownInv'
    BY <1>0, <1>1 DEF ProgramInv, WorkerInv, MainInv, KnownInv, Busy, Locking
<1>3. JoinedInv'
    <2>1. \A t \in Threads : Joined(t)' => Joined(t)
        BY <1>0, <1>1 DEF Joined
    <2>2. QED
        BY <1>0, <2>1 DEF ProgramInv, JoinedInv
<1>4. DestroyedUnlocked'
    <2>1. CASE job[Main] = "init"
        BY <1>0, <1>1, <2>1 DEF DestroyedUnlocked
    <2>2. CASE job[Main] = "destroy"
        <3>1. \A t \in Threads \ {Main} : tcb[t].status = "DONE"
            BY <1>0, <2>2 DEF ProgramInv, JoinedInv, Joined
        <3>2. \A t \in Threads : ~Busy(t)
            BY <1>0, <3>1 DEF ProgramInv, WorkerInv
        <3>3. \A t \in Threads : ~Owns(t, lock)
            BY <3>2 DEF Owns, Busy, Locking, LockLabels
        <3>4. MutexDestroy(lock) /\ lock \in inited
            BY <1>0, <2>2 DEF Executes, MutexDestroy
        <3>5. mutex[lock].locked = FALSE
            BY <1>0, <3>3, <3>4 DEF LibraryInv, LockedInv, HeadInv, TypeOK, MutexType
        <3>6. inited' = inited \ {lock}
            BY <3>4, <3>5 DEF MutexDestroy
        <3>7. QED
            BY <1>0, <3>6 DEF DestroyedUnlocked
    <2>3. QED
        BY <1>1, <2>1, <2>2
<1>5. QED
    BY <1>0, <1>1, <1>2, <1>3, <1>4 DEF ProgramInv, Jobs
\* The other threads.
LEMMA WorkersKeepProgram ==
    ASSUME RetryInQuantum, BenchmarkAssumption, LibraryInv, LibraryInv', ProgramInv,
           NEW t \in Threads, t # Main, WorkerStep(t)
    PROVE  ProgramInv'
<1>0. /\ Main \in Threads /\ running = t /\ pc[t] = "user" /\ lock \in Mutexes /\ Mutexes = {lock}
      /\ job \in [Threads -> Jobs] /\ left \in [Threads -> Int]
      /\ pc \in [Threads -> Labels] /\ arg \in [Threads -> Threads \cup {NoThread}]
      /\ holds \in [Threads -> SUBSET Mutexes] /\ tid \in Nat
    <2>1. tid \in Nat
        BY SchedulerAssumption DEF LibraryInv, HeadInv, TypeOK
    <2>2. QED
        BY <2>1, Constants
        DEF LibraryInv, HeadInv, TypeOK, WorkerStep, Executes, Running, BenchmarkAssumption, ProgramInv
<1>1. PICK next \in {"spin", "unlock", "lock", "return", "over"} :
         job' = [job EXCEPT ![t] = next]
    BY <1>0 DEF WorkerStep, Then, EndOfLoop
<1>2. left' \in [Threads -> Int] /\ left'[Main] = left[Main]
    BY <1>0 DEF WorkerStep, EndOfLoop
<1>3. /\ UNCHANGED << tcb, tid, all_threads, inited, arg >>
      /\ \A u \in Threads \ {t} : pc'[u] = pc[u] /\ holds'[u] = holds[u]
    BY <1>0 DEF WorkerStep, Lock, Unlock, Exit, LibraryFrame, lockVars, Goto, vars, schedVars,
       pthreadVars
<1>4. job'[Main] = job[Main] /\ pc'[Main] = pc[Main] /\ arg'[Main] = arg[Main]
    BY <1>0, <1>1, <1>3
<1>5. MainInv' /\ KnownInv' /\ DestroyedUnlocked' /\ job' \in [Threads -> Jobs]
    BY <1>0, <1>1, <1>2, <1>3, <1>4 DEF ProgramInv, MainInv, KnownInv, DestroyedUnlocked, Jobs
<1>6. JoinedInv'
    BY <1>2, <1>3, <1>4 DEF ProgramInv, JoinedInv, Joined, NextToJoin
<1>7. WorkerInv'
    <2>1. \A u \in Threads \ {t} : job'[u] = job[u]
        BY <1>0, <1>1
    <2>2. job[t] # "over" /\ tcb[t].status # "DONE"
        BY <1>0 DEF WorkerStep, Executes, ProgramInv, WorkerInv
    <2>3. Busy(t)' => job'[t] \in {"spin", "unlock"}
        <3>1. CASE Executes(t, "lock") /\ Lock(lock) /\ Then("spin")
            BY <1>0, <3>1 DEF Then
        <3>2. CASE Executes(t, "spin") /\ Then("unlock")
            BY <1>0, <3>2 DEF Then
        <3>3. CASE Executes(t, "unlock") /\ Unlock(lock)
            <4>1. pc'[t] = "unlock_restore" /\ holds'[t] = {}
                BY <1>0, <3>3 DEF Unlock, Goto
            <4>2. QED
                BY <4>1 DEF Busy, Locking, LockLabels
        <3>4. CASE Executes(t, "return") /\ Exit
            <4>1. ~Busy(t)
                BY <3>4 DEF Executes, ProgramInv, WorkerInv
            <4>2. pc'[t] = "exit_wake" /\ holds'[t] = holds[t]
                BY <1>0, <3>4 DEF Exit, Goto, lockVars
            <4>3. QED
                BY <4>1, <4>2 DEF Busy, Locking, LockLabels
        <3>5. QED
            BY <3>1, <3>2, <3>3, <3>4 DEF WorkerStep
    <2>4. pc'[t] = "exit_wake" => job'[t] = "over"
        BY <1>0 DEF WorkerStep, Lock, Unlock, Exit, Goto, Then, vars, pthreadVars
    <2>5. QED
        BY <1>0, <1>3, <2>1, <2>2, <2>3, <2>4 DEF ProgramInv, WorkerInv, Busy, Locking
<1>8. QED
    BY <1>2, <1>5, <1>6, <1>7 DEF ProgramInv

\* When main returns the library's invariants hold: they say little of a process
\* that is over.
LEMMA ReturnKeepsInv ==
    ASSUME LibraryInv, ProgramInv, ReturnFromMain
    PROVE  LibraryInv' /\ ProgramInv'
<1>1. halt' = "exit" /\ ~Live'
    BY DEF ReturnFromMain, Live
<1>2. UNCHANGED << ready_q, curr_prio, tcb, running, should_maintain, timer, prev_done, stacks,
                   handler, scan, tid, all_threads, pc, arg, mtx, old_prio, mutex, inited, holds, job,
                   left >>
    BY DEF ReturnFromMain, pthreadVars, programVars
<1>3. HeadInv'
    BY <1>1, <1>2 DEF LibraryInv, HeadInv, TypeOK, CurrentIsHead, BeforeFirstCreate, CallHasThread
<1>4. UnbornInv' /\ SectionInv'
    BY <1>2 DEF LibraryInv, UnbornInv, SectionInv
<1>5. JoinInv'
    BY <1>1, <1>2 DEF LibraryInv, JoinInv, BornInv, Born
<1>6. LockInv' /\ LockedInv'
    BY <1>2 DEF LibraryInv, LockInv, LockedInv, Owns, Trying
<1>7. ProgramInv'
    BY <1>2 DEF ProgramInv, MainInv, WorkerInv, KnownInv, JoinedInv, Joined, NextToJoin, Busy,
       Locking, DestroyedUnlocked
<1>8. QED
    BY <1>3, <1>4, <1>5, <1>6, <1>7 DEF LibraryInv

\* But for that, the program makes steps of the library.
LEMMA ProgramStep ==
    ASSUME BenchmarkAssumption, LibraryInv, ProgramInv, [ProgramNext]_allVars
    PROVE  [Next]_vars \/ ReturnFromMain
<1>1. lock \in Mutexes
    BY DEF BenchmarkAssumption
<1>2. CASE UNCHANGED allVars \/ (Halted /\ UNCHANGED programVars)
    BY <1>2 DEF allVars, Halted
<1>3. CASE HandlerStep \/ TimerStep
    BY <1>3 DEF HandlerStep, TimerStep, Next
<1>4. ASSUME NEW t \in Threads, ThreadStep(t) PROVE [Next]_vars \/ ReturnFromMain
    <2>1. CASE LibraryStep
        BY <2>1 DEF Next
    <2>2. CASE t = Main /\ MainStep(t)
        <3>1. job[t] = "join" => NextToJoin \in Threads
            <4>1. job[t] = "join" => left[Main] \in 1 .. MaxThreads - 1
                BY <2>2 DEF ProgramInv, MainInv
            <4>2. SUFFICES ASSUME left[Main] \in 1 .. MaxThreads - 1
                           PROVE  NextToJoin \in 1 .. MaxThreads
                BY <4>1 DEF Threads
            <4>3. MaxThreads \in Nat /\ MaxThreads >= 2
                BY SchedulerAssumption
            <4>4. PICK i \in 1 .. MaxThreads - 1 : i = MaxThreads - left[Main]
                BY <4>2, <4>3
            <4>5. NextToJoin = IF i = 1 THEN 1 ELSE i + 1
                BY <4>4 DEF NextToJoin
            <4>6. QED
                BY <4>3, <4>4, <4>5
        <3>2. QED
            BY <1>1, <2>2, <3>1 DEF MainStep, Executes, Next, UserCall
    <2>3. CASE WorkerStep(t)
        BY <1>1, <2>3 DEF WorkerStep, Next, UserCall
    <2>4. QED
        BY <1>4, <2>1, <2>2, <2>3 DEF ThreadStep
<1>5. QED
    BY <1>2, <1>3, <1>4 DEF ProgramNext

LEMMA LibraryInvStep ==
    ASSUME RetryInQuantum, LibraryInv, [Next]_vars
    PROVE  LibraryInv'
BY HeadInvStep, UnbornStep, SectionStep, JoinInvStep, LockInvStep, LockedInvStep,
   ClientAssumption DEF LibraryInv, HeadInv

LEMMA ProgramInvStep ==
    ASSUME BenchmarkAssumption, RetryInQuantum, LibraryInv, ProgramInv, [ProgramNext]_allVars
    PROVE  LibraryInv' /\ ProgramInv'
<1>1. CASE ReturnFromMain
    BY <1>1, ReturnKeepsInv
<1>2. CASE [Next]_vars /\ ~ReturnFromMain
    <2>1. LibraryInv'
        BY <1>2, LibraryInvStep
    <2>2. CASE UNCHANGED allVars \/ (Halted /\ UNCHANGED programVars)
        <3>1. UNCHANGED << tcb, pthreadVars, job, left >>
            BY <2>2 DEF allVars, Halted, vars, schedVars, programVars
        <3>2. QED
            BY <2>1, <3>1
            DEF ProgramInv, MainInv, WorkerInv, KnownInv, JoinedInv, Joined, NextToJoin, Busy,
                Locking, DestroyedUnlocked, pthreadVars
    <2>3. CASE HandlerStep \/ TimerStep
        BY <2>1, <2>3, TriggersKeepProgram DEF HandlerStep, TimerStep
    <2>4. ASSUME NEW t \in Threads, ThreadStep(t) PROVE ProgramInv'
        <3>1. CASE LibraryStep /\ UNCHANGED programVars
            BY <2>1, <3>1, LibraryKeepsProgram
        <3>2. CASE t = Main /\ MainStep(t)
            BY <2>1, <3>2, CreateKeepsProgram, JoinKeepsProgram, MutexCallsKeepProgram DEF MainStep
        <3>3. CASE t # Main /\ WorkerStep(t)
            BY <2>1, <2>4, <3>3, WorkersKeepProgram
        <3>4. QED
            BY <1>2, <2>4, <3>1, <3>2, <3>3 DEF ThreadStep
    <2>5. QED
        BY <1>2, <2>1, <2>2, <2>3, <2>4 DEF ProgramNext
<1>3. QED
    BY <1>1, <1>2, ProgramStep

LEMMA ProgramInvInit == BenchmarkAssumption /\ ProgramInit => LibraryInv /\ ProgramInv
<1> SUFFICES ASSUME BenchmarkAssumption, ProgramInit PROVE LibraryInv /\ ProgramInv
    OBVIOUS
<1>1. Init /\ Main \in Threads /\ MaxThreads \in Nat /\ MaxThreads >= 2 /\ Rounds \in Nat
    BY Constants, SchedulerAssumption DEF ProgramInit, BenchmarkAssumption
<1>2. LibraryInv
    BY <1>1, HeadInvInit, JoinInvInit, LockInvInit
    DEF LibraryInv, Init, UnbornInv, SectionInv, Sections, Preemptible, LockedInv
<1>3. /\ job[Main] = "init" /\ left[Main] = MaxThreads - 1 /\ pc[Main] = "user" /\ tid = 0
      /\ inited = {}
      /\ \A t \in Threads : /\ pc[t] \in {"user", "unborn"} /\ holds[t] = {}
                            /\ tcb[t].status = "UNBORN"
    BY <1>1 DEF ProgramInit, Init, FreshTcb
<1>4. job \in [Threads -> Jobs] /\ left \in [Threads -> Int]
    BY <1>1 DEF ProgramInit, Jobs
<1>5. MainInv /\ WorkerInv
    BY <1>3 DEF MainInv, MainPlaces, WorkerInv, Busy, Locking, LockLabels
<1>6. KnownInv /\ JoinedInv /\ DestroyedUnlocked
    BY <1>3 DEF KnownInv, JoinedInv, Joined, DestroyedUnlocked
<1>7. QED
    BY <1>2, <1>4, <1>5, <1>6 DEF ProgramInv

\* The mutex is nobody's when main destroys it, so that my_pthread_mutex_destroy
\* does not refuse: the joins order the destroy call after the last unlock of
\* every thread, whatever the alarm interrupts, where a waiter tries again in one
\* quantum.
THEOREM MutexDestroyed == RetryInQuantum /\ ProgramSpec => []DestroyedUnlocked
<1>1. ProgramInit => LibraryInv /\ ProgramInv
    BY ProgramInvInit, BenchmarkAssumption
<1>2. ProgramInv => DestroyedUnlocked
    BY DEF ProgramInv
<1>3. ASSUME RetryInQuantum PROVE ProgramSpec => []DestroyedUnlocked
    <2>1. LibraryInv /\ ProgramInv /\ [ProgramNext]_allVars => LibraryInv' /\ ProgramInv'
        BY <1>3, ProgramInvStep, BenchmarkAssumption
    <2>2. QED
        BY <1>1, <1>2, <2>1, PTL DEF ProgramSpec
<1>4. QED
    BY <1>3

\* The same of the invariant behind the hoisting of a holder.
LEMMA ReturnKeepsLoans ==
    ASSUME LibraryInv', LoanInv, ReturnFromMain
    PROVE  LoanInv' /\ [Hoists]_vars
<1>1. halt' = "exit" /\ ~Live'
    BY DEF ReturnFromMain, Live
<1>2. UNCHANGED << ready_q, curr_prio, tcb, running, should_maintain, timer, prev_done, stacks,
                   handler, scan, tid, all_threads, pc, arg, mtx, mutex, inited, holds >>
    BY DEF ReturnFromMain, pthreadVars
<1>3. CountInv'
    BY <1>2 DEF LoanInv, CountInv, Locking
<1>4. TightInv' /\ BoundInv' /\ OwnerInv' /\ HoistInv'
    BY <1>1, <1>2 DEF LoanInv, TightInv, BoundInv, OwnerInv, HoistInv
<1>5. Hoists
    BY <1>2 DEF Hoists
<1>6. QED
    BY <1>3, <1>4, <1>5 DEF LoanInv, LibraryInv

\* In the programs of Benchmark the thread that has the mutex is no worse than a
\* waiter that goes to yield, where a waiter tries again and yields in one
\* quantum.  They have one mutex, as HoistAssumption asks.
THEOREM ProgramHolderHoisted ==
    RetryInQuantum /\ HoistAssumption /\ ProgramSpec => HoistEndsInversion
<1>1. ASSUME RetryInQuantum, HoistAssumption PROVE ProgramSpec => HoistEndsInversion
    <2>1. ProgramInit => LibraryInv /\ ProgramInv /\ LoanInv
        BY ProgramInvInit, BenchmarkAssumption, LoanInvInit DEF ProgramInit
    <2>2. /\ LibraryInv /\ ProgramInv /\ LoanInv /\ [ProgramNext]_allVars
          => LibraryInv' /\ ProgramInv' /\ LoanInv' /\ [Hoists]_vars
        <3>1. SUFFICES ASSUME LibraryInv, ProgramInv, LoanInv, [ProgramNext]_allVars
                       PROVE  LibraryInv' /\ ProgramInv' /\ LoanInv' /\ [Hoists]_vars
            OBVIOUS
        <3>2. LibraryInv' /\ ProgramInv'
            BY <1>1, <3>1, ProgramInvStep, BenchmarkAssumption
        <3>3. [Next]_vars \/ ReturnFromMain
            BY <3>1, ProgramStep, BenchmarkAssumption
        <3>4. LoanInv' /\ [Hoists]_vars
            BY <1>1, <3>1, <3>2, <3>3, LoanInvStep, StepHoists, ReturnKeepsLoans
        <3>5. QED
            BY <3>2, <3>4
    <2>3. ProgramSpec => [][Hoists]_vars
        BY <2>1, <2>2, PTL DEF ProgramSpec
    <2>4. QED
        BY <2>3 DEF HoistEndsInversion, Hoists
<1>2. QED
    BY <1>1

================================================================================
