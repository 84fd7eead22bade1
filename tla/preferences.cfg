CONSTANTS
    e1 = e1
    e2 = e2
    MaxChoices = 2
    Effect <- TwoEffects
    NoEffect = NoEffect
    MaxTroubles = 1
    MaxForeign = 1
SPECIFICATION FairSpec
INVARIANTS
    TypeOK
    RemovedIsDecided
    SuccessMeansStored
PROPERTIES
    ImplementsSwitch
    EveryMutationSettles
CHECK_DEADLOCK FALSE
