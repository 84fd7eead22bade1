CONSTANTS
    i1 = i1
    i2 = i2
    i3 = i3
    Image <- ThreeImages
    Sound <- TwoSound
    NoImage = NoImage
    MaxTroubles = 3
SPECIFICATION FairSpec
INVARIANTS
    TypeOK
    ClearRowServes
    WebIsKept
PROPERTIES
    EndsWithOneOfTwo
    ImplementsNodeWeb
    JournalEnds
