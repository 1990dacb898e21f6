CONSTANTS
    MaxTurns = 2
    MaxCommands = 0
    MaxCancels = 1
    MaxAsks = 1
    MaxErrors = 1
    ToolCommands = TRUE
    Kinds = {"slash"}
    Grants = {"none"}
SPECIFICATION FairSpec
CHECK_DEADLOCK FALSE
INVARIANTS
    CancelReachesAll
    ReportedTurnsStopped
PROPERTIES
    CancelledPulseCloses
