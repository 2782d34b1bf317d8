SPECIFICATION FairSpec
CHECK_DEADLOCK FALSE
CONSTANTS
    a = a
    b = b
    c = c
    root = root
    child = child
    Runs = {a, b}
    Accounts = {root, child}
INVARIANTS
    DoubtIsVisible
PROPERTIES
    NoParallelCalls
    DrainedOrHeld
