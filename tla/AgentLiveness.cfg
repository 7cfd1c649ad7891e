SPECIFICATION FairSpec
CONSTANTS
    t1 = t1
    t2 = t2
    r1 = r1
    NoTurn = NoTurn
    Turns = {t1}
    Resumes = {r1}
    BufCap = 1
    EventCap = 1
    MaxEvents = 0
    MaxSince = 0
    MaxBreaks = 1
    MaxCrashes = 0
    MaxFails = 0
CHECK_DEADLOCK FALSE
PROPERTIES
    CancelledTurnEnds
