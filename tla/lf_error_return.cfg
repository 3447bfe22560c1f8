SPECIFICATION FairSpec
CONSTANTS
    process_count = 3
    max_requests_per_process = 0
    Conns = {c1, c2}
    NoConn = NoConn
    FaultPlans <- OneErrorReturn
INVARIANTS
    AcceptMutex
CHECK_DEADLOCK FALSE
