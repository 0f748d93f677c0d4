SPECIFICATION FairSpec
CONSTANTS
    Ecosystems = {"npm", "pypi", "maven", "go"}
    Paths <- MCPaths
    Links <- MCLinks
    Known <- MCKnown
    Requests = {r1, r2, r3}
    ToMetrics = {r3}
    AuthEnabled = TRUE
    None = None
    Nil = Nil
INVARIANTS
    GracefulExit
    RouterKeepsFilesApart
    RouterLeadsBack
    CheckerBlocksForCause
PROPERTIES
    SignalEnds
CHECK_DEADLOCK FALSE
