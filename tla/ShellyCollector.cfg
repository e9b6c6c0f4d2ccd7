SPECIFICATION Spec
CONSTANTS
    Me = me
    Others = {other}
    Addrs = {a1, a2}
    Gen1 = {me, other}
    HostOverride = FALSE
    FetchConfig = TRUE
    MaxUpsets = 2
    Nobody = Nobody
    None = None
INVARIANT
    TypeOK
PROPERTIES
    CheckedBeforeRead
    StrangerRefused
    ScrapedInItsName
    NameIsKept
