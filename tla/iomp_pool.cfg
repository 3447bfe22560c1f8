SPECIFICATION FairSpec
CONSTANTS
    process_count = 2
    Conns = {c1, c2, c3}
    FaultPlans <- OneFault
INVARIANTS
    TypeOK
    OneListener
    ListenKept
    SessionsOwned
    NoQuitUnasked
PROPERTIES
    BacklogServed
    ShutdownCompletes
    OrphansEnd
    ImplementsTurn
CHECK_DEADLOCK FALSE
