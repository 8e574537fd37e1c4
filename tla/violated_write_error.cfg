SPECIFICATION Spec
CONSTANTS
    p1 = p1
    p2 = p2
    i1 = i1
    Peers = {p1, p2}
    Mirrors = {}
    Faulty = {}
    Pieces = {i1}
    BlocksPerPiece = 2
    HashedBlocks = {}
    InitialLocal = {}
    MaximumSwarmSize = 2
    MaxOutstanding = 1
    EndgameThreshold = 0
    MaxClones = 2
    BlacklistScore = 2
    AdaptiveEndgame = FALSE
    AsyncVerification = FALSE
    QueueCapacity = 1
    Slots = {}
    MaxEntries = 1
    SendFaults = TRUE
    StorageFaults = FALSE
    SmallCache = FALSE
    RemotePieces <- EveryPiece
    AllowedFast <- NoPiece
    None = None
INVARIANT ReservationOwned
CHECK_DEADLOCK FALSE
