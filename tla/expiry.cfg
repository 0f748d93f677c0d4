SPECIFICATION FairSpec
CONSTANTS
    Packages = {p1, p2}
    TTL = 2
    MaxJobs = 2
    None = None
PROPERTIES
    EvictedForCause
    ImplementsRowLife
    UnusedRowsGo
