SPECIFICATION Spec
CONSTANTS
    DAY_TO_MINUTE = 3
    MINUTE_TO_SECOND = 4
    OFFSET_SECONDS = 2
    UINT64_MODULUS = 64
    Modes = {"ALWAYS_DARK", "CUSTOM_AUTO"}
    Starts = {2}
    Ends = {2, 4}
    Clock <- ClockOf4
    Jumps <- JumpsOf4
    EARLY = 1
    LATE = 1
    AllowCrash = FALSE
INVARIANTS
    ColorFollowsSchedule
PROPERTIES
    OverrideWindowAhead
CHECK_DEADLOCK FALSE
