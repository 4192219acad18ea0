SPECIFICATION Spec
CONSTANTS
    b1 = b1
    b2 = b2
    e1 = e1
    terrain = terrain
    Positions <- Blocks
    Edits = {e1}
    Terrain = terrain
    EmergeThreads = 1
    Objects <- TwoObjects
    MaxObjectsPerBlock = 1
    MaxKnown = 1
INVARIANTS
    ExactlyOnce
    UnmarkedIsSaved
    EditsSurvive
    GeneratedHasTerrain
CONSTRAINT Explored
SYMMETRY Sym
CHECK_DEADLOCK FALSE
