CONSTANTS
    Users <- TwoUsers
    USER100 = 100
    INVALID_SUB_PROFILE_ID = 0
    Contexts <- ThreeContexts
    InitialForeground <- FirstSubProfile
    STANDARD_FONT_WEIGHT = 2
    InitialCases <- UpgradeOrSeveral
    ParamChoices <- SomeHaveParams
    ScaleChoices = {0}
    CHANGES = 2
SPECIFICATION Spec
INVARIANTS
    TypeOK
    AcceptedIsApplied
    ConfigurationFollowsMemory
    BaseFollowsForeground
CHECK_DEADLOCK FALSE
