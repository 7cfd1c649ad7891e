SPECIFICATION Spec
CONSTANTS
    Backends = {"claude", "gemini", "copilot", "opencode"}
    MaxLines = 2
    Banner = 0
    PipeCap = 1
    EventCap = 1
CHECK_DEADLOCK FALSE
INVARIANTS
    InterruptedIsAborted
