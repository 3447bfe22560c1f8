SPECIFICATION EndingSpec
CONSTANTS
    max_process_count = 1
    Conns = {c1}
    NoConn = NoConn
    MaxFaults = 0
PROPERTIES
    FinalWaitEnds
CHECK_DEADLOCK FALSE
