SPECIFICATION Spec
CONSTANTS
    Requests = {r1, r2}
    Packages = {p1}
    Files = {f1, f2}
    PkgOf <- TwoFiles
    None = None
    Faulty = {}
    EvictionEnabled = TRUE
    TTLExceedsRequests = TRUE
    MaxCrashes = 0
    MaxLeavers = 0
    f1 = f1
    f2 = f2
    f3 = f3
    p1 = p1
    p2 = p2
CHECK_DEADLOCK FALSE
INVARIANTS
    ServedWantedFile
