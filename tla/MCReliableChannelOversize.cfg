SPECIFICATION Spec
CONSTANTS
    HalfMod = 2
    SeqInit = 3
    MinWindow = 1
    MaxWindow = 1
    StartWindow = 1
    WindowSteps <- MCWindowSteps
    MaxRequeued = 1
    MaxChunks = 3
    Sizes <- OneSize
    MaxCommands = 1
    MaxControl = 0
INVARIANTS
    NothingForgotten
CHECK_DEADLOCK FALSE
