SPECIFICATION Spec
CONSTANTS
    A = A
    B = B
    C = C
    None = None
    Stores = {A, B}
    Kind <- LocalDB
    Writers = {w1, w2}
    Guids = {g1}
    Emails = {e1}
    Versions = {v1}
    NbRetry = 2
    Acts = {"created", "updated", "deleted", "unsubscribe"}
    Persistence = {FALSE}
    MaxOps = 3
    MaxFaults = 3
    MaxCrashes = 1
CHECK_DEADLOCK FALSE
SYMMETRY WriterSymmetry
INVARIANTS TypeOK ReplayedOnce  LostByOverlapOnly
