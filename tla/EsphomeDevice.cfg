SPECIFICATION Spec
CONSTANTS
    Keys = {1, 2}
    Firmwares <- DroppedSensor
    MaxEntities = 1
    MaxOrphans = 2
    PingFailThreshold = 2
    HasKey = TRUE
    RequireEncryption = FALSE
    HasPassword = TRUE
    Migrates = FALSE
    MaxSeq = 2
    MaxWire = 2
    MaxFaults = 2
INVARIANTS
    DeviceInv
    ShownIsCurrent
PROPERTIES
    ReadingsNeverGoBack
    Converges
    ImplementsLife
CHECK_DEADLOCK FALSE
