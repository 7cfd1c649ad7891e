SPECIFICATION FairSpec
CONSTANTS
    b1 = b1
    b2 = b2
    Browsers = {b1, b2}
    RespCap = 1
    MaxRequests = 2
    MaxReopens = 1
    MaxDrops = 1
    MaxLosses = 1
CHECK_DEADLOCK FALSE
INVARIANTS
    TypeOK
    LoneViewerMatches
PROPERTIES
    InterruptEnds
    AnswerUnblocks
