CONSTANTS
    DAY_TO_MINUTE = 4
    MINUTE_TO_SECOND = 2
    OFFSET_SECONDS = 1
    UINT64_MODULUS = 64
    SUNSET_TIME_DEFAULT = 2
    SUNRISE_TIME_DEFAULT = 5
    FirstKey = "sun_set"
    SecondKey = "sun_rise"
    ModeKey = "mode"
    Keys <- ThreeKeys
    Numbers <- Minutes
    Writers <- AllThreads
    SkyChoices <- TwoSkies
    ModeChoices = {0, 2, 3}
    FAULTS = 1
    TimesChoices <- Unset
    EVENTS = 1
SPECIFICATION Spec
INVARIANTS
    TypeOK
    RecalculatesInSunriseMode
    SunNightIsDark
PROPERTIES
    ObserversKeepOrder
    FollowsTheSun
CHECK_DEADLOCK FALSE
