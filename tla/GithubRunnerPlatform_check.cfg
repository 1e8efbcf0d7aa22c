CONSTANTS
    Words = {"runner", "one", "other"}
    Numbers = {"0"}
    Tokens = {"a"}
    Units <- MCUnits
    Calls <- MCCalls
    Earlier <- MCEarlier
    Legacy <- MCLegacy
    AtStart <- MCAtStart
    Organization = TRUE
    PageSize = 2
    MaxFaults = 2
SPECIFICATION Spec
INVARIANTS TypeOK ClaimsOwn HealthIsTrue IInv
PROPERTIES ServersOutliveRunners
