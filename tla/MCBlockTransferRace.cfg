SPECIFICATION Spec
CONSTANTS
    b0 = b0
    b1 = b1
    b2 = b2
    b3 = b3
    Blocks <- One
    Dist <- OneDist
    EuclidDist <- OneDist
    Generatable <- One
    FullDMax = 0
    MaxGenDistance = 0
    MaxSimulSends = 1
    QueueLimit = 1
    NodeEdits = {n1}
    BulkChanges = {l1}
    MaxUnloads = 0
INVARIANT SentMeansCurrent
