SPECIFICATION FairSpec
CONSTANTS
    head_len = 2
    HeadBase = 2
    body_bufsize = 2
    BodyLens = {2}
    StrayLens <- Strays
    Timeout = 1
    ClockSteps <- NoSteps
    Modes <- Nonblocking
    MaxSetBack = 0
    Capacity = 4
    MaxMessages = 2
PROPERTIES
    ReadInPieces
CHECK_DEADLOCK FALSE
