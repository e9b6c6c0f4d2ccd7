SPECIFICATION Spec
CONSTANTS
    d1 = d1
    d2 = d2
    a1 = a1
    a2 = a2
    g1 = g1
    g2 = g2
    g3 = g3
    Nothing = Nothing
    Ids = {d1, d2}
    Addrs = {a1, a2}
    Ports = {6053, 6054}
    Goroutines = {g1, g2}
    MaxConcurrentConnects = 1
    MaxChanges = 3
INVARIANT
    ConnectionsAccounted
PROPERTIES
    SyncConverges
    AllTornDown
CHECK_DEADLOCK FALSE
