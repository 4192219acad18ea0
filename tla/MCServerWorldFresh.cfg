SPECIFICATION Spec
CONSTANTS
    b1 = b1
    b2 = b2
    e1 = e1
    terrain = terrain
    Positions <- Blocks
    Edits = {}
    Terrain = terrain
    EmergeThreads = 1
    Objects <- OneObject
    MaxObjectsPerBlock = 2
    MaxKnown = 1
INVARIANT StoredAreKept
CHECK_DEADLOCK FALSE
