SPECIFICATION StartSpec
CONSTANTS
    max_process_count = 2
    Conns = {c1, c2, c3, c4}
    NoConn = NoConn
    MaxFaults = 1
    Words <- MCWords
    CommandLines <- MCCommandLines
    Addresses <- MCAddresses
    Atol <- MCAtol
    Embedded <- MCEmbedded
INVARIANTS
    TypesOK
    CountExact
    ChildrenBounded
    NoChildLeft
    SetupUndone
PROPERTIES
    RefusedOnlyWhenFull
    ChildrenReaped
    BacklogServed
    ExitTells
CHECK_DEADLOCK FALSE
