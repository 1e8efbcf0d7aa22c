SPECIFICATION Spec
SYMMETRY Symmetry
CONSTANTS
    Runners = {r1, r2}
    Stamps = {1, 3}
    Created = 2
    Now = 4
    Waits <- MCWaits
    Bad = bad
    Nothing = nothing
    NoRunner = noRunner
    MaxRequests = 2
    MaxFaults = 1
INVARIANTS
    TypeOK
    NothingForgotten
    IInv
PROPERTIES
    LogKeepsPromise
