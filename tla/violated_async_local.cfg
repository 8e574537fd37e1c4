SPECIFICATION Spec
CONSTANTS
    p1 = p1
    p2 = p2
    i1 = i1
    s1 = s1
    s2 = s2
    Peers = {p1, p2}
    Mirrors = {}
    Faulty = {p2}
    Pieces = {i1}
    BlocksPerPiece = 1
    HashedBlocks = {}
    InitialLocal = {}
    MaximumSwarmSize = 2
    MaxOutstanding = 1
    EndgameThreshold = 1
    MaxClones = 2
    BlacklistScore = 2
    AdaptiveEndgame = TRUE
    AsyncVerification = TRUE
    QueueCapacity = 1
    Slots = {s1, s2}
    MaxEntries = 1
    SendFaults = FALSE
    StorageFaults = FALSE
    SmallCache = FALSE
    RemotePieces <- EveryPiece
    AllowedFast <- NoPiece
    None = None
INVARIANT LocalIntact
CHECK_DEADLOCK FALSE
