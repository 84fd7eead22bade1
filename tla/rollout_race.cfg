CONSTANTS
    c1 = c1
    Placements <- OnHost
    Call <- OneCall
    Attempts = 4
    MaxGeneration = 3
    Failures = FALSE
    Crashes = FALSE
SPECIFICATION FairSpec
PROPERTY RevokeReachesApp
