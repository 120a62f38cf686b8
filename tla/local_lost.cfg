SPECIFICATION StoresSpec
CONSTANTS
    StoreKinds = {"local"}
    None = None
    Truncated = Truncated
    Mixed = Mixed
    Clients = {c1, c2}
    Guids = {g1, g2}
    Emails = {}
    Versions = {v1}
    Acts = {"created"}
    Persistence = {TRUE}
    MaxOps = 2
    MaxFaults = 0
    MaxCrashes = 0
CHECK_DEADLOCK FALSE
INVARIANTS Retrievable
