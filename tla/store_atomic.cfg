SPECIFICATION StoresSpec
CONSTANTS
    StoreKinds = {"local", "s3", "db"}
    None = None
    Truncated = Truncated
    Mixed = Mixed
    Clients = {c1}
    Guids = {g1, g2}
    Emails = {e1}
    Versions = {v1, v2}
    Acts = {"created", "updated", "deleted", "subscribe", "unsubscribe", "read"}
    Persistence = {TRUE, FALSE}
    MaxOps = 4
    MaxFaults = 2
    MaxCrashes = 0
CHECK_DEADLOCK FALSE
PROPERTIES ImplementsBackends
