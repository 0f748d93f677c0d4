SPECIFICATION Spec
CONSTANTS
    Writers = {w1, w2, w3}
    Readers = {r1, r2}
    Size = 2
    None = None
    DiskMayFail = TRUE
    WritersTakeTurns = TRUE
    MaxCrashes = 1
CHECK_DEADLOCK FALSE
INVARIANTS
    WholeReads
    NoTmpLeft
PROPERTIES
    ImplementsAtomicStore
