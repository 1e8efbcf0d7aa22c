CONSTANTS
    Units = {u1, u2}
    Base <- SameBase
    Span = 1
    MaxVersion = 1
    MaxFaults = 2
    None = None
    Damaged = Damaged
    Other = Other
SPECIFICATION Spec
INVARIANTS TypeOK PortsApart OwnAnswer ConfigurationApplies
PROPERTY KeepsRegistry
SYMMETRY Symmetry
