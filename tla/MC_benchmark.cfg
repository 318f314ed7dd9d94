SPECIFICATION ProgramSpec
CONSTANTS
    lock = lock
    MaxThreads = 3
    NUM_QUEUES = 2
    MaintenancePeriod = 2
    Release = "asst1"
    TimerCallsWork = TRUE
    Mutexes = {lock}
    ClientCalls <- AnyCall
    RetryInQuantum = TRUE
    MaxPriority = 2
    Rounds = 1
INVARIANT CurrentIsHead
INVARIANT QueueOfPriority
INVARIANT LockCount
INVARIANT DestroyedUnlocked
PROPERTY HoistEndsInversion
PROPERTY ProgramEnds
