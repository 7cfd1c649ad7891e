SPECIFICATION FairSpec
CONSTANTS
    p1 = p1
    p2 = p2
    Rpcs = {p1}
    InitialBackoff = 1
    MaxBackoff = 2
    MaxFails = 1
    MaxCuts = 1
    MaxRestarts = 1
CHECK_DEADLOCK FALSE
INVARIANTS
    TypeOK
    NoGhostEntry
PROPERTIES
    RpcSettles
    DialerRecovers
    GhostsExpire
