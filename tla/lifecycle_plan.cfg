CONSTANTS
    s1 = s1
    s2 = s2
    j1 = j1
    j2 = j2
    NoSchool = NoSchool
    OrgKey = OrgKey
    Job <- TwoJobs
    School <- TwoSchools
    Remote <- NoRemote
    Limit = 1
    Menu <- CreateArchiveReprovision
    Crashes = FALSE
SPECIFICATION Spec
SYMMETRY Symmetry
INVARIANT WithinPlan
CHECK_DEADLOCK FALSE
