CONSTANTS
    Units = {u1, u2}
    Base <- SameBase
    Span = 0
    MaxVersion = 0
    MaxFaults = 0
    None = None
    Damaged = Damaged
    Other = Other
SPECIFICATION Spec
INVARIANT FallbackSurfaces
