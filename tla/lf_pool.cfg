SPECIFICATION FairSpec
CONSTANTS
    process_count = 3
    max_requests_per_process = 1
    Conns = {c1, c2}
    NoConn = NoConn
    FaultPlans <- OneFaultOrTwo
INVARIANTS
    TypeOK
    AcceptMutexBound
    MutexNeverLost
    PipesAcyclic
    CleanShutdown
    DropsAccountedFor
PROPERTIES
    ImplementsPool
    BacklogServed
    EndedWorkerRestarted
    ShutdownCompletes
CHECK_DEADLOCK FALSE
