SPECIFICATION Spec
CONSTANTS
    a1 = a1
    a2 = a2
    a3 = a3
    m1 = m1
    m2 = m2
    s1 = s1
    s2 = s2
    gen1 = gen1
    gen2 = gen2
    node = node
    cloud1 = cloud1
    cloud2 = cloud2
    NoAddr = NoAddr
    NoHex = NoHex
    NoHandle = NoHandle
    Addrs = {a1, a2, a3}
    Attr <- MixedAttr
    Compare <- MCCompare
    AllowIPv6 = TRUE
    Allowlist = FALSE
    Macs = {m1, m2}
    Suffixes = {s1, s2}
    Labels = {gen1, gen2, node, cloud1, cloud2}
    LabelHex <- MCLabelHex
    MacSuffix <- DistinctSuffix
    Sources = {"avahi", "static", "shelly_cloud"}
    Keys = {"http", "shelly", "esphomelib", "static", "shelly_cloud"}
    Ports = {80, 6053, 6054}
    Announcements <- Gen2Fleet
    EndpointTTL = 0
    DeviceTTL = 0
    RemoveGrace = 0
    MaxLag = 0
    MaxTime = 2
    MaxEpoch = 3
INVARIANTS
    NoDanglingHandle
    SummariesCurrent
    NoLostUpdate
PROPERTIES
    EpochMovesWithAddrs
    NeverLostQuietly
