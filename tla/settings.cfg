CONSTANTS
    FirstKey = sunset
    SecondKey = sunrise
    Keys = {sunset, sunrise}
    Numbers = {1, 2}
    Writers = {w}
    FAULTS = 2
SPECIFICATION SettingSpec
INVARIANTS
    SubscriptionsAccounted
PROPERTIES
    KeepsPromise
