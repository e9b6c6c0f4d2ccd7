SPECIFICATION Spec
CONSTANTS
    Documents <- MCDocuments
    MaxRawLeaves = 2
    GenericFallback = TRUE
    PercentAsRatio = TRUE
    TextSensors = TRUE
    MaxStateAge = TRUE
CHECK_DEADLOCK FALSE
INVARIANTS
    NothingDropped
    EnergyJoinsPower
    Gen1MatchesGen2
    MissingIsSaid
