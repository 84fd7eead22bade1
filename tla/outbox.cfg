CONSTANTS
    c1 = c1
    c2 = c2
    e1 = e1
    e2 = e2
    MaxMessages = 2
    Thread <- OneThread
    ThreadOf <- SameThread
    Effect <- TwoEffects
    NoEffect = NoEffect
    MaxTroubles = 2
SPECIFICATION FairSpec
INVARIANTS
    TypeOK
    NothingLost
    TicketFifo
PROPERTIES
    ImplementsPromise
    EveryMessageSettles
CHECK_DEADLOCK FALSE
