CONSTANTS
    Calls = {c1, c2}
    NoCall = NoCall
    Callers <- AllOrNothing
    WORKERS = 1
    DEATHS = 1
SPECIFICATION Spec
INVARIANTS
    TypeOK
    StaleIsReported
    AnswerIsTrue
    NullProxyOnlyInWindow
PROPERTIES
    EveryCallAnswered
    StaleProxyReplaced
CHECK_DEADLOCK FALSE
