SPECIFICATION Spec
CONSTANTS
    Requests = {r1, r2}
    Packages = {p1}
    Files = {f1, f2}
    PkgOf <- TwoFiles
    None = None
    Faulty = {"redis", "db", "storage", "limiter"}
    EvictionEnabled = TRUE
    TTLExceedsRequests = FALSE
    MaxCrashes = 1
    MaxLeavers = 1
    f1 = f1
    f2 = f2
    f3 = f3
    p1 = p1
    p2 = p2
SYMMETRY RequestSymmetry
CHECK_DEADLOCK FALSE
INVARIANTS
    ProxyInv
    AuditTrail
PROPERTIES
    ImplementsContract
