SPECIFICATION FairSpec
CONSTANTS
    s1 = s1
    s2 = s2
    q1 = q1
    q2 = q2
    Sessions = {s1, s2}
    Readers = {q1, q2}
    LastVersion = 3
    QueueCap = 1
    MaxConns = 2
INVARIANTS
    TypeOK
    SchemaMatchesVersion
    NoStaleRunning
    AckedIsDurable
PROPERTIES
    WriteSettles
