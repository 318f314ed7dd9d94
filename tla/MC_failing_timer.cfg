SPECIFICATION Spec
CONSTANTS
    m1 = m1
    m2 = m2
    MaxThreads = 3
    NUM_QUEUES = 2
    MaintenancePeriod = 1
    Release = "asst1"
    TimerCallsWork = FALSE
    Mutexes = {}
    ClientCalls <- JoiningClient
    RetryInQuantum = FALSE
    MaxPriority = 2
INVARIANT JoinedIsDone
