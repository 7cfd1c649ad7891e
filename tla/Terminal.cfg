SPECIFICATION FairSpec
CONSTANTS
    s1 = s1
    s2 = s2
    NoSize = NoSize
    FirstSize = s1
    Platforms = {"unix", "windows"}
    Sizes = {s1, s2}
    Cap = 1
    MaxOutput = 1
    MaxMoves = 2
CHECK_DEADLOCK FALSE
INVARIANTS
    TypeOK
    ReleasedIsClean
    ExitAfterOutput
    SizeFollows
PROPERTIES
    AbandonedIsReleased
    ExitIsTold
