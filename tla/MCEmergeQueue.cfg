SPECIFICATION FairSpec
CONSTANTS
    b1 = b1
    b2 = b2
    Positions <- Blocks
    ChunkOf <- MCChunkOf
    OverLimit <- NoBlocks
    Corrupt <- Second
    Peers = {c1}
    NoPeer = NoPeer
    NThreads = 2
    QLimitTotal = 1
    QLimitDiskOnly = 1
    QLimitGenerate = 1
    Areas = {a1}
    AreaOf <- MCAreaOf
    Nobody = Nobody
    MayStop = TRUE
INVARIANTS
    TypeOK
    QueuesMatch
    ChargedFairly
    CallsRemaining
    NoLostWakeup
    ChunkMadeOnce
    AvailableIsAnnounced
PROPERTIES
    EveryRequestIsServed
    StopComesBack
CHECK_DEADLOCK FALSE
