SPECIFICATION Spec
CONSTANTS
    Packages <- MCPackages
    Params <- MCParams
    DefaultSize = 1
    MaxSize = 2
    IntMax = 7
    MaxChanges = 2
    None = None
INVARIANTS
    MissesHaveCause
    RepeatsHaveCause
    PageFitsTotal
