SPECIFICATION Spec
CONSTANTS
    p1 = p1
    i1 = i1
    Peers = {p1}
    Mirrors = {}
    Faulty = {p1}
    Pieces = {i1}
    BlocksPerPiece = 2
    HashedBlocks <- OneHashed
    InitialLocal = {}
    MaximumSwarmSize = 1
    MaxOutstanding = 1
    EndgameThreshold = 1
    MaxClones = 2
    BlacklistScore = 2
    AdaptiveEndgame = TRUE
    AsyncVerification = FALSE
    QueueCapacity = 1
    Slots = {}
    MaxEntries = 1
    SendFaults = FALSE
    StorageFaults = FALSE
    SmallCache = FALSE
    RemotePieces <- EveryPiece
    AllowedFast <- NoPiece
    None = None
INVARIANT CommittedIsBuffered
CHECK_DEADLOCK FALSE
