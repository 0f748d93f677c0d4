SPECIFICATION FairSpec
CONSTANTS
    Artifacts = {a1, a2}
    Workers = {w1, w2}
    None = None
    MaxRuns = 2
CHECK_DEADLOCK FALSE
INVARIANTS
    SuccessIsTrue
    NoSecondUpload
PROPERTIES
    DryRunTouchesNothing
    RunsEnd
