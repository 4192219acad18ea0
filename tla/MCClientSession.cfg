SPECIFICATION FairSpec
CONSTANTS
    p1 = p1
    p2 = p2
    n1 = n1
    n2 = n2
    Peers <- TwoPeers
    Names <- TwoNames
    MaxUsers = 2
INVARIANTS
    ActiveHasPlayer
    PlayerHasClient
    GoneClientIsRemoved
    RegisteredOnce
PROPERTIES
    SeatsSpec
    DeniedIsDeleted
    SeatIsFreed
