SPECIFICATION Spec
CONSTANTS
    Me = me
    Others = {other}
    Addrs = {a1, a2}
    Gen1 = {me, other}
    HostOverride = TRUE
    FetchConfig = TRUE
    MaxUpsets = 0
    Nobody = Nobody
    None = None
PROPERTY
    FirstMatchApplies
