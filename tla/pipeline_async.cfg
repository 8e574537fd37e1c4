SPECIFICATION Spec
CONSTANTS
    p1 = p1
    i1 = i1
    i2 = i2
    s1 = s1
    s2 = s2
    Peers = {p1}
    Mirrors = {}
    Faulty = {p1}
    Pieces = {i1, i2}
    BlocksPerPiece = 1
    HashedBlocks = {}
    InitialLocal = {}
    MaximumSwarmSize = 1
    MaxOutstanding = 2
    EndgameThreshold = 1
    MaxClones = 2
    BlacklistScore = 2
    AdaptiveEndgame = FALSE
    AsyncVerification = TRUE
    QueueCapacity = 1
    Slots = {s1, s2}
    MaxEntries = 1
    SendFaults = FALSE
    StorageFaults = FALSE
    SmallCache = FALSE
    RemotePieces <- EveryPiece
    AllowedFast <- NoPiece
    None = None
SYMMETRY Symmetry
INVARIANT VerifyingHasJob
INVARIANT PiecesCountedOnce
CHECK_DEADLOCK FALSE
