SPECIFICATION LockSpec
CONSTANTS
    Runners <- ManualThreads
    Mutexes <- ServiceMutexes
    Serves <- ManualServes
    Level <- ServiceLevel
    Calls = 1
INVARIANTS
    NoDeadlock
CHECK_DEADLOCK FALSE
