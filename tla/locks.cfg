SPECIFICATION FairLockSpec
CONSTANTS
    Runners <- ServiceThreads
    Mutexes <- ServiceMutexes
    Serves <- ServiceHandlers
    Level <- ServiceLevel
    Calls = 1
INVARIANTS
    NoDeadlock
    KeepsDiscipline
PROPERTIES
    EveryHandlerReturns
CHECK_DEADLOCK FALSE
