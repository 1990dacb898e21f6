SPECIFICATION Spec
CONSTANTS
    Paths = {"a", "t"}
    TestPaths = {"t"}
    InitFiles = {"a"}
    Asked <- MCAsked
    RequireToolApproval = FALSE
    MaxUndo = 1
    MaxCalls = 2
    MaxTurns = 2
    MaxExternal = 1
    MaxPulses = 2
CHECK_DEADLOCK FALSE
INVARIANTS
    UndoRestores
    WorkspaceKnown
PROPERTIES
    CallsKeepBounds
