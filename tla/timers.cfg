SPECIFICATION Spec
CONSTANTS
    DAY_TO_MINUTE = 3
    MINUTE_TO_SECOND = 2
    OFFSET_SECONDS = 1
    UINT64_MODULUS = 64
    Users = {1, 2}
    Schedules <- MCSchedules
    TimerIds = {t1, t2, t3, t4}
    Clock <- MCClock
    MaxLeaked = 1
SYMMETRY TimerIdSymmetry
INVARIANTS
    TypeOK
    NoDanglingTimer
    NoOrphanTimer
    EveryTimerRestartable
    BothTimersOrNone
    TriggerMatchesSchedule
PROPERTIES
    RestartRearmsAll
