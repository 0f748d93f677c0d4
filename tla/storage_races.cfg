SPECIFICATION Spec
CONSTANTS
    Writers = {w1, w2, w3}
    Readers = {r1, r2}
    Size = 2
    None = None
    DiskMayFail = FALSE
    WritersTakeTurns = FALSE
    MaxCrashes = 0
CHECK_DEADLOCK FALSE
INVARIANTS
    WillBeWhole
    ErrorsLoseRaces
