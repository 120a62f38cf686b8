CONSTANTS
  Handlers = {h1, h2}
  Kinds = {"local", "s3", "db"}
  Cap = 2
  None = None
  MaxRequests = 3
  MaxFaults = 1
  MaxCrashes = 1
SPECIFICATION Spec
SYMMETRY HandlerSymmetry
INVARIANTS TypeOK  DeletedStaysDeleted OneAnnotation ResolvedIsClosed
CHECK_DEADLOCK FALSE
