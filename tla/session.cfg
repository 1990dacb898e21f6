\* One part of a session per behaviour.
SPECIFICATION Spec

CONSTANTS
    Clients <- MCClients
    Servers <- MCServers
    Histories <- MCHistories
    Answers <- MCAnswers
    Lines = {"a", "b"}
    MaxIndex = 1
    MaxCalls = 2
    MaxPieces = 4
    MaxLag = 0
    MaxTurns = 1
    MaxTasks = 2
    MaxInputs = 2
    MaxSteps = 2
    MaxDeferred = 1
    TypedLines <- MCLines
    Worlds <- MCWorlds
    MentionWords = {"@a", "@b"}
    Content <- MCContent
    CustomFiles = {"/mine", "/memory", "/vex-x"}
    AnswersGiven = {"ok", "denied"}
    StepBase = 2
    MaxDocTurns = 2
    MaxEntries = 3
    MaxResumes = 2
    Writers = {"a", "b"}
    MaxChannelDepth = 3
    ReadBatch = 2
    MaxMessages = 4
    MaxClock = 2
    MaxDeaths = 1
    Savers = {"a", "b"}
    MaxWrites = 4
    MaxCrashes = 2
    McpLists <- MCMcpLists
    Unpadded <- MCUnpadded
    SystemLayers <- MCSystem
    UserLayers <- MCUser
    RepoLayers <- MCRepo
    EnvLayers <- MCEnv
    WorkspaceFiles <- MCFiles
    Alphabet <- MCAlphabet
    ExcludedDirs <- MCExcluded
    MaxCandidates = 4
    OverlayVisible = 3
    TableWords <- MCTable
    CustomWords <- MCCustom
    TableRows = 2
    CustomRows = 1
    TypedChars = {"a", "@"}
    Pastes <- MCPastes
    WideChars = {"w"}
    MaxInputBytes = 6
    Columns = 3
    MaxKeys = 5

CHECK_DEADLOCK FALSE
INVARIANTS
    ClientSound
    TranscriptSound
    TaskRecordSound
    CommandsSound
    ChannelSound
    FileIsWhole
    ConfigSound
    ComposerSound
PROPERTIES
    NothingLost
