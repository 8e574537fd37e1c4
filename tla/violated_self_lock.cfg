SPECIFICATION Spec
CONSTANTS
    p1 = p1
    p2 = p2
    i1 = i1
    Peers = {p1, p2}
    Mirrors = {}
    Faulty = {p2}
    Pieces = {i1}
    BlocksPerPiece = 3
    HashedBlocks = {}
    InitialLocal = {}
    MaximumSwarmSize = 2
    MaxOutstanding = 2
    EndgameThreshold = 0
    MaxClones = 2
    BlacklistScore = 3
    AdaptiveEndgame = FALSE
    AsyncVerification = FALSE
    QueueCapacity = 1
    Slots = {}
    MaxEntries = 1
    SendFaults = FALSE
    StorageFaults = FALSE
    SmallCache = FALSE
    RemotePieces <- EveryPiece
    AllowedFast <- NoPiece
    None = None
INVARIANT NoSelfDeadlock
CHECK_DEADLOCK FALSE
