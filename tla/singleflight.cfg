SPECIFICATION FairSpec
CONSTANTS
    Callers = {c1, c2, c3, c4}
    Keys = {k1, k2}
    Results = {data, error}
    None = None
CHECK_DEADLOCK FALSE
INVARIANTS
    OneFetchPerKey
    SharedOutcome
PROPERTIES
    FreshFetch
    ImplementsSharedFetch
    EveryCallerReturns
