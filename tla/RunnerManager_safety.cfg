CONSTANTS
    Instances = {i1, i2, i3}
    Existing = {i1, i2}
    Legacy = {i1}
    Calls = {"create", "cleanup", "soft", "hard", "flush", "flushBusy"}
    MaxFaults = 1
SPECIFICATION Spec
INVARIANTS TypeOK PlatformFirst IInv
PROPERTIES JobsSurvive StartersSpared
