SPECIFICATION FairSpec
CONSTANTS
    HalfMod = 5
    SeqInit = 8
    MinWindow = 1
    MaxWindow = 2
    StartWindow = 2
    WindowSteps <- MCWindowSteps
    MaxRequeued = 2
    MaxChunks = 3
    Sizes <- TwoSizes
    MaxCommands = 2
    MaxControl = 1
INVARIANTS
    TypeOK
    ProcessedInOrder
    SpanBelowHalf
    NothingForgotten
PROPERTIES
    ImplementsFifo
    EveryCommandArrives
CHECK_DEADLOCK FALSE
