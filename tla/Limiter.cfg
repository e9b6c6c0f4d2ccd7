SPECIFICATION Spec
CONSTANTS
    x = x
    y = y
    d1 = d1
    d2 = d2
    Nothing = Nothing
    Scrapes = {x, y}
    Devices = {d1, d2}
    Budgets = {2}
    MaxConcurrent = 1
    CacheTTL = 1
    FailuresBeforeOpen = 2
    Initial = 2
    MaxDelay = 3
    AuthInitial = 3
    AuthMax = 3
    Factor = 2
    JitterPercent = 0
    MaxFailures = 3
    Healthy = {d1}
    Latency = 1
    Impatient = {x, y}
INVARIANTS
    TypeOK
    OneCallPerDevice
    TokensConserved
    CacheAgreesWithBackoff
PROPERTIES
    EveryScrapeAnswered
    BackoffEnds
