SPECIFICATION Spec
CHECK_DEADLOCK FALSE
CONSTANTS
    s1 = s1
    Sessions = {s1}
    Halters = {s1}
    Prices = {1}
    Cap = 9
    IdleHalt = 1
    MostCalls = 2
    MaxTries = 1
    Watchdog = TRUE
PROPERTIES
    HaltStopsNextCall
