SPECIFICATION Spec
CONSTANTS
    DAY_TO_MINUTE = 3
    MINUTE_TO_SECOND = 2
    OFFSET_SECONDS = 1
    UINT64_MODULUS = 64
    Modes = {"ALWAYS_DARK", "CUSTOM_AUTO"}
    Starts = {1}
    Ends = {2}
    Clock <- ClockOf2
    Jumps <- JumpsOf2
    EARLY = 0
    LATE = 0
    AllowCrash = FALSE
PROPERTIES
    ManualSwitchKeepsAutomatic
CHECK_DEADLOCK FALSE
