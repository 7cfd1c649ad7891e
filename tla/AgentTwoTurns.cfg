SPECIFICATION Spec
CONSTANTS
    t1 = t1
    t2 = t2
    r1 = r1
    NoTurn = NoTurn
    Turns = {t1, t2}
    Resumes = {}
    BufCap = 1
    EventCap = 1
    MaxEvents = 0
    MaxSince = 0
    MaxBreaks = 0
    MaxCrashes = 1
    MaxFails = 1
SYMMETRY MCSymmetry
CONSTRAINT SecondEventFails
CHECK_DEADLOCK FALSE
INVARIANTS
    TypeOK
    NoOrphanBackend
    StartStreamFaithful
PROPERTIES
    StoreImplementsLog
