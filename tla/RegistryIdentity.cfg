SPECIFICATION Spec
CONSTANTS
    a1 = a1
    a2 = a2
    a3 = a3
    m1 = m1
    m2 = m2
    s1 = s1
    s2 = s2
    gen1 = gen1
    gen2 = gen2
    node = node
    cloud1 = cloud1
    cloud2 = cloud2
    NoAddr = NoAddr
    NoHex = NoHex
    NoHandle = NoHandle
    Addrs = {a1, a2, a3}
    Attr <- MCAttr
    Compare <- MCCompare
    AllowIPv6 = FALSE
    Allowlist = FALSE
    Macs = {m1, m2}
    Suffixes = {s1, s2}
    Labels = {gen1, gen2, node, cloud1, cloud2}
    LabelHex <- MCLabelHex
    MacSuffix <- DistinctSuffix
    Sources = {"avahi", "static", "shelly_cloud"}
    Keys = {"http", "shelly", "esphomelib", "static", "shelly_cloud"}
    Ports = {80, 6053, 6054}
    Announcements <- MixedFleet
    EndpointTTL = 1
    DeviceTTL = 1
    RemoveGrace = 1
    MaxLag = 0
    MaxTime = 1
    MaxEpoch = 2
INVARIANTS
    OneIdentity
    NameIsAnnounced
