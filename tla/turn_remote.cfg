SPECIFICATION Spec
CONSTANTS
    read = read
    readEmpty = readEmpty
    write = write
    other = other
    NoSig = NoSig
    Sigs <- MCSigs
    ReadOnlySigs <- MCReadOnly
    MutatingSigs <- MCMutating
    EmptyPathSigs <- MCEmptyPath
    MaxApi = 4
    MaxRounds = 4
    Local = FALSE
    CompactionEnabled = TRUE
    KeepRecent = 2
    MaxTurns = 3
INVARIANTS
    ReadLoopsAreCut
