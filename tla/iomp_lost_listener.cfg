SPECIFICATION FairSpec
CONSTANTS
    process_count = 2
    Conns = {c1}
    FaultPlans <- OneWorkerDies
PROPERTIES
    PoolKeepsAccepting
CHECK_DEADLOCK FALSE
