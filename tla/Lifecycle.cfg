SPECIFICATION Spec
CONSTANTS
    Services = {s1, s2}
    Requests = {r1, r2, r3}
    Closer = Closer
    MaxRevision = 0
    MaxDiskEdits = 1
    Shutdown = FALSE
    None = None
SYMMETRY RequestSymmetry
CHECK_DEADLOCK FALSE
INVARIANTS
    TypeOK
    LoadedIsAttached
    NoBackendForgotten
    OneBackendPerService
    TransitionHasOneWorker
PROPERTY ImplementsLife
