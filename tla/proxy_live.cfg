SPECIFICATION FairSpec
CONSTANTS
    Requests = {r1, r2}
    Packages = {p1}
    Files = {f1}
    PkgOf <- OneFile
    None = None
    Faulty = {"redis", "db", "storage", "upstream", "limiter"}
    EvictionEnabled = TRUE
    TTLExceedsRequests = FALSE
    MaxCrashes = 1
    MaxLeavers = 0
    f1 = f1
    f2 = f2
    f3 = f3
    p1 = p1
    p2 = p2
CHECK_DEADLOCK FALSE
PROPERTIES
    EveryRequestAnswered
    BackgroundDrains
    IdleRowsGo
