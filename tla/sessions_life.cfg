SPECIFICATION FairSpec
CHECK_DEADLOCK FALSE
CONSTANTS
    s1 = s1
    Sessions = {s1}
    Halters = {s1}
    Prices = {1, 2}
    Cap = 3
    IdleHalt = 1
    MostCalls = 2
    MaxTries = 2
    Watchdog = TRUE
INVARIANTS
    TypeOK
    WithinCap
PROPERTIES
    PausedFirst
    Reaped
