SPECIFICATION Spec
CONSTANTS
    b1 = b1
    b2 = b2
    Browsers = {b1}
    RespCap = 1
    MaxRequests = 2
    MaxReopens = 1
    MaxDrops = 0
    MaxLosses = 0
CHECK_DEADLOCK FALSE
INVARIANTS
    ReplyMatchesRequest
