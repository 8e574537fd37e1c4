SPECIFICATION Spec
CONSTANTS
    p1 = p1
    m1 = m1
    i1 = i1
    Peers = {p1}
    Mirrors = {m1}
    Faulty = {p1}
    Pieces = {i1}
    BlocksPerPiece = 2
    HashedBlocks <- OneHashed
    InitialLocal = {}
    MaximumSwarmSize = 1
    MaxOutstanding = 1
    EndgameThreshold = 1
    MaxClones = 2
    BlacklistScore = 1
    AdaptiveEndgame = TRUE
    AsyncVerification = FALSE
    QueueCapacity = 1
    Slots = {}
    MaxEntries = 1
    SendFaults = FALSE
    StorageFaults = TRUE
    SmallCache = TRUE
    RemotePieces <- EveryPiece
    AllowedFast <- EveryPiece
    None = None
INVARIANT LocalIntact
 
INVARIANT BlacklistedOut
PROPERTY OrphanedOnlyByFailure
CHECK_DEADLOCK FALSE
