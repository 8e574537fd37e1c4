SPECIFICATION Spec
CONSTANTS
    w1 = w1
    w2 = w2
    a1 = a1
    Workers = {w1, w2}
    Address <- OneAddress
    Announcers = {a1}
    MaxPieces = 1
INVARIANT SeedingSignalled
