SPECIFICATION FairSpec
CONSTANTS
    Conns = {c1}
    NoConn = NoConn
    SessionCount = 1
    Timeouts = {1}
    MaxFaults = 0
INVARIANTS
    NoEventAfterClosing
CHECK_DEADLOCK FALSE
