SPECIFICATION Spec
CONSTANTS
    Services = {s1}
    Requests = {r1}
    Closer = Closer
    MaxRevision = 0
    MaxDiskEdits = 0
    Shutdown = TRUE
    None = None
SYMMETRY RequestSymmetry
CHECK_DEADLOCK FALSE
INVARIANT CloseUnloadsAll
