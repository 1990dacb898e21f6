SPECIFICATION Spec
CONSTANTS
    Capabilities = {"read", "run"}
    MaxRuns = 1
    MaxContent = 3
    MaxRequests = 2
    Tasks = {"s", "o"}
    Watched = "s"
    Handlers = {1, 2}
    Buffer = 1
    MaxTime = 2
    MaxSaves = 2
    Configs <- MCConfigs
    Burst = 2
    MaxStarts = 2
    CallIds = {1, 2, 3}
    Pieces <- MCPieces
    Seeds <- MCSeeds
    Watermark = 8
    MaxStored = 4
    QueueDepth = 2
    PeerBuffer = 3
    RecentLimit = 2
    Overhead = 2
    MaxDeltas = 2
    Tools = {"write_file", "git_add", "read_file"}
    GuardedTools = {"write_file", "git_add"}
    MaxEvents = 2
CHECK_DEADLOCK FALSE
INVARIANTS
    ServedTasksSound
    SurfacesSound
    
    BatchSound
PROPERTIES
    ServerProgress
