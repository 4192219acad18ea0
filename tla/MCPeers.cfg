SPECIFICATION Spec
CONSTANTS
    a1 = a1
    a2 = a2
    u1 = u1
    MaxUdpPeers = 5
    Addresses <- MCAddresses
    Users <- MCUsers
    MaxJoins = 2
    MaxDatagrams = 3
INVARIANTS
    TypeOK
    NoUseAfterDelete
    NoLeak
    EventsTellTheStory
    OnePeerPerAddress
