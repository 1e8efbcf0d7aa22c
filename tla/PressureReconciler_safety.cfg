CONSTANTS
    Pressures = {0, 1, 3}
    MinPressure = 0
    MaxPressure = 2
    Planner = {TRUE, FALSE}
    NoPressure = NoPressure
    InitialFleet = 2
    MaxGoing = 1
    MaxFaults = 2
SPECIFICATION Spec
INVARIANTS TypeOK FleetCounted WithinCap PauseHolds BoundedWorkAfterStop
PROPERTY KeepsToCap
