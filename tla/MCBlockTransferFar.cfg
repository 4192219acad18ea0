SPECIFICATION FairSpec
CONSTANTS
    b0 = b0
    b1 = b1
    b2 = b2
    b3 = b3
    Blocks <- Far
    Dist <- FarDist
    EuclidDist <- Corner
    Generatable <- Far
    FullDMax = 3
    MaxGenDistance = 3
    MaxSimulSends = 1
    QueueLimit = 1
    NodeEdits = {}
    BulkChanges = {}
    MaxUnloads = 0
PROPERTIES
    ClientCatchesUp
