SPECIFICATION FairSpec
CONSTANTS
    s1 = s1
    s2 = s2
    None = None
    Sessions = {s1, s2}
    MaxResumes = 1
    WireCap = 1
    MaxTurns = 2
    MaxLog = 2
    MaxFaults = 2
    MaxOps = 2
CHECK_DEADLOCK FALSE
INVARIANTS
    TypeOK
    TimelineOfOneSession
    TimelineFaithful
    RetriesBounded
PROPERTIES
    BusySettles
    EndReachesPage
