CONSTANTS
    MaxTurns = 2
    MaxCommands = 1
    MaxCancels = 2
    MaxAsks = 1
    MaxErrors = 0
    ToolCommands = FALSE
    Kinds = {"plain", "slash", "readOnly"}
    Grants = {"none", "once"}
SPECIFICATION FairSpec
CHECK_DEADLOCK FALSE
INVARIANTS
    OnePulseAtATime
    TurnsIsolated
PROPERTIES
    NoGrantAfterCancel
    CancelledPulseCloses
