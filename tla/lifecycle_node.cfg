CONSTANTS
    s1 = s1
    s2 = s2
    j1 = j1
    j2 = j2
    NoSchool = NoSchool
    OrgKey = OrgKey
    Job <- TwoJobs
    School <- OneSchool
    Remote <- FirstRemote
    Limit = 1
    Menu <- CreateUpdatePurge
    Crashes = FALSE
SPECIFICATION FairSpec
PROPERTY JobsEnd
CHECK_DEADLOCK FALSE
