SPECIFICATION Spec
CONSTANTS
    Modes = {"ALWAYS_DARK", "CUSTOM_AUTO"}
    Times = {1, 2}
    CHANGES = 3
INVARIANTS
    TypeOK
    ColorsAgree
    ColorFollowsState
    ChoiceIsPersisted
PROPERTIES
    SettingsArrive
CHECK_DEADLOCK FALSE
