SPECIFICATION FairSpec
CHECK_DEADLOCK FALSE
CONSTANTS
    send = send
    p1 = p1
    p2 = p2
    p3 = p3
    g1 = g1
    g2 = g2
    Send = send
    Posts = {p1, p2}
    Gates = {g1, g2}
    NoGate = NoGate
    Cap = 2
    RoundCalls = 2
    MayCrash = TRUE
INVARIANTS
    TypeOK
    OneContinuation
    ConfirmedOnce
    VerdictsAreTrue
PROPERTIES
    RequestsEnd
    HandsTurnOver
