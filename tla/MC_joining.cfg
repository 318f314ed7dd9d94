SPECIFICATION FairSpec
CONSTANTS
    m1 = m1
    m2 = m2
    MaxThreads = 3
    NUM_QUEUES = 2
    MaintenancePeriod = 1
    Release = "asst1"
    TimerCallsWork = TRUE
    Mutexes = {}
    ClientCalls <- JoiningClient
    RetryInQuantum = TRUE
    MaxPriority = 2
INVARIANT ReadyIffQueued
INVARIANT JoinedIsDone
INVARIANT JoinersAreWoken
INVARIANT TeardownOnlyWhenStuck
INVARIANT StacksReclaimed
PROPERTY ArmedAtSwitch
PROPERTY StarvationFree
