SPECIFICATION FairSpec
CONSTANTS
    p1 = p1
    p2 = p2
    i1 = i1
    Peers = {p1, p2}
    Mirrors = {}
    Faulty = {}
    Pieces = {i1}
    BlocksPerPiece = 1
    HashedBlocks = {}
    InitialLocal = {}
    MaximumSwarmSize = 2
    MaxOutstanding = 1
    EndgameThreshold = 1
    MaxClones = 2
    BlacklistScore = 2
    AdaptiveEndgame = TRUE
    AsyncVerification = FALSE
    QueueCapacity = 1
    Slots = {}
    MaxEntries = 1
    SendFaults = FALSE
    StorageFaults = FALSE
    SmallCache = FALSE
    RemotePieces <- EveryPiece
    AllowedFast <- NoPiece
    None = None
PROPERTY RecoversAndCompletes
CHECK_DEADLOCK FALSE
