SPECIFICATION Spec
CONSTANTS
    t1 = t1
    t2 = t2
    s1 = s1
    s2 = s2
    r1 = r1
    r2 = r2
    NoService = NoService
    Services = {s1}
    Types <- MCTypes
    TypeOf <- MCTypeOf
    Resolvers = {r1, r2}
    ResolveConcurrency = 1
    BrowserBuffer = 1
    Required = TRUE
    MaxBackoff = 2
    MaxSignals = 2
    MaxUpsets = 2
INVARIANT
    SessionInv
PROPERTIES
    AnnouncedIsVerified
    SupervisionSound
    ShutdownLeavesNothing
CHECK_DEADLOCK FALSE
