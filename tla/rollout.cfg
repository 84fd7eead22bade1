CONSTANTS
    c1 = c1
    Placements <- Anywhere
    Call <- OneCall
    Attempts = 2
    MaxGeneration = 2
    Failures = TRUE
    Crashes = TRUE
SPECIFICATION FairSpec
INVARIANTS
    TypeOK
    AppNotBehind
PROPERTIES
    ImplementsFence
    ChangeIsEnforced
