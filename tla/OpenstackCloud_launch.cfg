CONSTANTS
    Names = {n1}
    Existing = {}
    MaxFaults = 1
SPECIFICATION Spec
INVARIANT LaunchReturns
