SPECIFICATION Spec
CONSTANTS
    t1 = t1
    t2 = t2
    r1 = r1
    NoTurn = NoTurn
    Turns = {t1}
    Resumes = {r1}
    BufCap = 2
    EventCap = 1
    MaxEvents = 1
    MaxSince = 0
    MaxBreaks = 0
    MaxCrashes = 0
    MaxFails = 0
CHECK_DEADLOCK FALSE
INVARIANTS
    ResumeHasNoGap
