SPECIFICATION Spec
CONSTANTS
    m1 = m1
    m2 = m2
    MaxThreads = 2
    NUM_QUEUES = 2
    MaintenancePeriod = 2
    Release = "asst2"
    TimerCallsWork = TRUE
    Mutexes = {m1}
    ClientCalls <- LockingClient
    RetryInQuantum = FALSE
    MaxPriority = 2
INVARIANT TypeOK
INVARIANT MutualExclusion
INVARIANT SectionsExclusive
PROPERTY ImplementsMutex
