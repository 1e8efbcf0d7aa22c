CONSTANTS
    Instances = {i1, i2}
    Existing = {i1}
    Legacy = {i1}
    Calls = {"create", "cleanup", "flush"}
    MaxFaults = 2
SPECIFICATION FairSpec
PROPERTIES EventuallyFreed
