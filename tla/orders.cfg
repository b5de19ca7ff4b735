\* Orders of a known and an unknown item against failing calls and a health check.
CONSTANTS
    o1 = o1
    o2 = o2
    o3 = o3
    o4 = o4
    known = known
    unknown = unknown
    Orders = {o1, o2, o3, o4}
    HealthChecks = {h1}
    Items = {known, unknown}
    KnownItems = {known}
    Quantities = {2, 5}
    Workloads <- EveryMix
    FailureThreshold = 2
    SuccessThreshold = 2
    Timeout = 1
    MaxQuantity = 2
    InitialStock = 3
    Restock = 4
    NoOne = none
    MaxFailures = 1
    MaxTime = 2
SPECIFICATION FairSpec
INVARIANTS TypeOK AnswersTruthful
PROPERTIES BreakerSpec EveryRequestAnswered
CHECK_DEADLOCK FALSE
