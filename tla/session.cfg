CONSTANTS
    k1 = k1
    k2 = k2
    c1 = c1
    c2 = c2
    Client <- TwoClients
    Call <- TwoCalls
    NoClient = NoClient
    MaxTroubles = 2
SPECIFICATION FairSpec
INVARIANTS
    TypeOK
    ReuseHasACause
    PublishedIsStored
PROPERTY EveryCallEnds
CHECK_DEADLOCK FALSE
