SPECIFICATION FairSpec
CONSTANTS
    head_len = 2
    HeadBase = 2
    body_bufsize = 2
    BodyLens = {0, 2, 4}
    StrayLens <- Strays
    Timeout = 1
    ClockSteps <- StepsBack
    Modes <- ServerWithClient
    MaxSetBack = 1
    Capacity = 3
    MaxMessages = 3
INVARIANTS
    TypeOK
    StreamIntact
    ReceivedWhole
    CloseBetweenMessages
    TimeoutKept
PROPERTIES
    CallsReturn
    MessagesArrive
CHECK_DEADLOCK FALSE
