SPECIFICATION Spec
CONSTANTS
    Gap = 1
    Pause = 2
    Retries = 1
    MaxVersion = 2
    MaxUpsets = 1
PROPERTIES
    RateKept
    CloudIsMirrored
    ShutdownFreesSlot
CHECK_DEADLOCK FALSE
