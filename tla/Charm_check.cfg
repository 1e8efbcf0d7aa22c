SPECIFICATION Spec
CONSTANTS
    bad = bad
    noClouds = noClouds
    repo = repo
    absent = absent
    none = none
    k1 = k1
    k2 = k2
    k3 = k3
    Malformed <- MCMalformed
    NoClouds <- MCNoClouds
    Repos <- MCRepos
    Absent = absent
    None = none
    Deployments <- MCDeployments
    Alternatives <- MCAlternatives
    Secrets = {"s1", "s2", "s3"}
    Rotating = {"s1"}
    Contents <- MCContents
    Images <- MCImages
    Planners <- MCPlanners
    Debuggers = {"d"}
    MaxFaults = 1
INVARIANTS TypeOK AcceptedRuns ActiveIsCurrent NoStaleRunners PlannerKnows
PROPERTY Follows
CHECK_DEADLOCK FALSE
