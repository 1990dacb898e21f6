SPECIFICATION FairSpec
CONSTANTS
    read = read
    readEmpty = readEmpty
    write = write
    other = other
    NoSig = NoSig
    Sigs <- MCSigs
    ReadOnlySigs <- MCReadOnly
    MutatingSigs <- MCMutating
    EmptyPathSigs <- MCEmptyPath
    MaxApi = 4
    MaxRounds = 3
    Local = TRUE
    CompactionEnabled = FALSE
    KeepRecent = 4
    MaxTurns = 3
INVARIANTS
    RequestFits
    WellFormedHistory
    ExitsCloseDoc
    RoundBudget
PROPERTIES
    RetryKeepsRequest
    TurnEnds
