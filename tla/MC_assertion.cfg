SPECIFICATION Spec
CONSTANTS
    m1 = m1
    m2 = m2
    MaxThreads = 2
    NUM_QUEUES = 2
    MaintenancePeriod = 40
    Release = "asst2"
    TimerCallsWork = TRUE
    Mutexes = {m1}
    ClientCalls <- BusyClient
    RetryInQuantum = TRUE
    MaxPriority = 2
INVARIANT PriorityInRange
