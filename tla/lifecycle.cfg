SPECIFICATION FairSpec
CONSTANTS
    w1 = w1
    w2 = w2
    w3 = w3
    a1 = a1
    Workers = {w1, w2, w3}
    Address <- TwoAddresses
    Announcers = {a1}
    MaxPieces = 2
INVARIANT TypeOK
INVARIANT CompletionNotMissed
PROPERTY EntryOutlivesOnlyInStats
PROPERTY JoinReturns
PROPERTY SwarmDrains
