SPECIFICATION Spec
CONSTANTS
    b0 = b0
    b1 = b1
    b2 = b2
    b3 = b3
    Blocks <- Near
    Dist <- NearDist
    EuclidDist <- NearDist
    Generatable <- Near
    FullDMax = 1
    MaxGenDistance = 1
    MaxSimulSends = 1
    QueueLimit = 1
    NodeEdits = {n1}
    BulkChanges = {l1}
    MaxUnloads = 1
INVARIANTS
    SlotsAreAnswered
    SentIsThere
    BulkChangesAreKept
