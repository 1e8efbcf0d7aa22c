CONSTANTS
    Pressures = {0, 2}
    MinPressure = 1
    MaxPressure = 0
    Planner = {TRUE, FALSE}
    NoPressure = NoPressure
    InitialFleet = 3
    MaxGoing = 1
    MaxFaults = 1
SPECIFICATION FairSpec
PROPERTIES Converges PauseIsLifted
