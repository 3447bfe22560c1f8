SPECIFICATION FairSpec
CONSTANTS
    Conns = {c1, c2, c3}
    NoConn = NoConn
    SessionCount = 1
    Timeouts = {0, 2}
    MaxFaults = 1
INVARIANTS
    TypeOK
    SessionsAccounted
    ClosedOnce
    EventsReachTheirSession
PROPERTIES
    SessionsTimeOut
CHECK_DEADLOCK FALSE
