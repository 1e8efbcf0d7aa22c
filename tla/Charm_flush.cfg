SPECIFICATION Spec
CONSTANTS
    bad = bad
    noClouds = noClouds
    repo = repo
    absent = absent
    none = none
    k1 = k1
    k2 = k2
    k3 = k3
    Malformed <- MCMalformed
    NoClouds <- MCNoClouds
    Repos <- MCRepos
    Absent = absent
    None = none
    Deployments <- MCFlushDeployments
    Alternatives <- MCIntervals
    Secrets = {"s1", "s2", "s3"}
    Rotating = {}
    Contents <- MCContents
    Images <- MCSameImage
    Planners = {none}
    Debuggers = {"d"}
    MaxFaults = 0
INVARIANT NoFlushIsLost
CHECK_DEADLOCK FALSE
