SPECIFICATION Spec
CONSTANTS
    t1 = t1
    t2 = t2
    r1 = r1
    NoTurn = NoTurn
    Turns = {t1}
    Resumes = {r1}
    BufCap = 1
    EventCap = 1
    MaxEvents = 1
    MaxSince = 1
    MaxBreaks = 1
    MaxCrashes = 0
    MaxFails = 1
CONSTRAINT OneFault
CHECK_DEADLOCK FALSE
INVARIANTS
    NoOrphanWatcher
    NoSendOnClosed
    ResumeReplayComplete
    DedupeLosesNothing
