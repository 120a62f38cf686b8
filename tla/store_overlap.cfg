SPECIFICATION StoresSpec
CONSTANTS
    StoreKinds = {"local", "s3"}
    None = None
    Truncated = Truncated
    Mixed = Mixed
    Clients = {c1, c2}
    Guids = {g1, g2}
    Emails = {e1}
    Versions = {v1}
    Acts = {"created", "updated", "deleted", "subscribe", "unsubscribe", "read"}
    Persistence = {TRUE, FALSE}
    MaxOps = 3
    MaxFaults = 1
    MaxCrashes = 1
CHECK_DEADLOCK FALSE
SYMMETRY NameSymmetry
INVARIANTS TypeOK ListsWhole KeptUnlessRaced
