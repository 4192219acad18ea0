SPECIFICATION Spec
CONSTANTS
    b1 = b1
    b2 = b2
    Positions <- Blocks
    ChunkOf <- MCChunkOf
    OverLimit <- NoBlocks
    Corrupt <- NoBlocks
    Peers = {c1}
    NoPeer = NoPeer
    NThreads = 2
    QLimitTotal = 2
    QLimitDiskOnly = 1
    QLimitGenerate = 1
    Areas = {}
    AreaOf <- MCAreaOf
    Nobody = Nobody
    MayStop = TRUE
INVARIANT StoppedForGood
