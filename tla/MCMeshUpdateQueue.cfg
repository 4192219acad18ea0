SPECIFICATION FairSpec
CONSTANTS
    None = None
    Positions <- Pair
    MaxChanges = 3
INVARIANTS
    TypeOK
    QueueIsCoherent
    SettledIsFresh
PROPERTIES
    BlocksAreAcknowledged
    StopEndsThread
CHECK_DEADLOCK FALSE
