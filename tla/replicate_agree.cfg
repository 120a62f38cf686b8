SPECIFICATION Spec
CONSTANTS
    A = A
    B = B
    C = C
    None = None
    Stores = {A, B, C}
    Kind <- OneEach
    Writers = {w1}
    Guids = {g1, g2}
    Emails = {}
    Versions = {v1, v2}
    NbRetry = 3
    Acts = {"created", "updated", "deleted"}
    Persistence = {TRUE, FALSE}
    MaxOps = 4
    MaxFaults = 0
    MaxCrashes = 0
CHECK_DEADLOCK FALSE
INVARIANTS ReplicasAgree
