SPECIFICATION Spec
CONSTANTS
    Services = {s1}
    Requests = {r1, r2}
    Closer = Closer
    MaxRevision = 1
    MaxDiskEdits = 0
    Shutdown = FALSE
    None = None
SYMMETRY RequestSymmetry
CHECK_DEADLOCK FALSE
INVARIANT RecordIsProjection
