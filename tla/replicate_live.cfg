SPECIFICATION FairSpec
CONSTANTS
    A = A
    B = B
    C = C
    None = None
    Stores = {A, B}
    Kind <- AllS3
    Writers = {w1, w2}
    Guids = {g1}
    Emails = {e1}
    Versions = {v1}
    NbRetry = 2
    Acts = {"created", "updated", "deleted", "subscribe"}
    Persistence = {FALSE}
    MaxOps = 2
    MaxFaults = 4
    MaxCrashes = 1
CHECK_DEADLOCK FALSE
PROPERTIES CallsReturn 
