SPECIFICATION Spec
CONSTANTS
    Requests = {r1, r2, r3}
    Packages = {p1, p2}
    Files = {f1, f2, f3}
    PkgOf <- TwoFilesAndAnother
    None = None
    Faulty = {}
    EvictionEnabled = TRUE
    TTLExceedsRequests = FALSE
    MaxCrashes = 0
    MaxLeavers = 0
    f1 = f1
    f2 = f2
    f3 = f3
    p1 = p1
    p2 = p2
SYMMETRY RequestSymmetry
CHECK_DEADLOCK FALSE
INVARIANTS
    PolicyGate
    OwnArtifacts
    ArtifactHasRow
