CONSTANTS
    s1 = s1
    s2 = s2
    j1 = j1
    j2 = j2
    NoSchool = NoSchool
    OrgKey = OrgKey
    Job <- TwoJobs
    School <- OneSchool
    Remote <- NoRemote
    Limit = 1
    Menu <- AllRequests
    Crashes = FALSE
SPECIFICATION FairSpec
PROPERTY LocalSettles
CHECK_DEADLOCK FALSE
