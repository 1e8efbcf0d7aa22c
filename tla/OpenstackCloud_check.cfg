CONSTANTS
    Names = {n1, n2}
    Existing = {n1}
    MaxFaults = 2
SPECIFICATION FairSpec
INVARIANTS TypeOK KeyKept IInv
PROPERTIES LastServerStays DuplicatesGo KeysReclaimed
