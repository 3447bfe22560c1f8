SPECIFICATION FairSpec
CONSTANTS
    process_count = 2
    max_requests_per_process = 0
    Conns = {c1}
    NoConn = NoConn
    FaultPlans <- ManagerKilledOnce
PROPERTIES
    OrphansEnd
CHECK_DEADLOCK FALSE
