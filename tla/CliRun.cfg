SPECIFICATION FairSpec
CONSTANTS
    Backends = {"claude", "codex", "gemini", "cursor", "copilot", "opencode"}
    MaxLines = 3
    Banner = 2
    PipeCap = 1
    EventCap = 2
CHECK_DEADLOCK FALSE
INVARIANTS
    TypeOK
    CompletedIsTrue
    NothingLeft
PROPERTIES
    RunImplementsBackend
    RunSettles
