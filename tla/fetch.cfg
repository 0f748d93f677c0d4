SPECIFICATION FairSpec
CONSTANTS
    Requests = {r1, r2, r3}
    Packages = {p1, p2}
    PkgOf <- TwoPackages
    None = None
    LimiterEnabled = TRUE
    Burst = 1
    MaxAttempts = 2
    r1 = r1
    r2 = r2
    r3 = r3
    p1 = p1
    p2 = p2
CHECK_DEADLOCK FALSE
INVARIANTS
    OneUpstreamRequest
    OutcomesHaveCause
PROPERTIES
    NoRequestForGone
    FetchesEnd
    GoneLeadersGiveUp
    ImplementsSingleflight
