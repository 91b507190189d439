SPECIFICATION FairSpec
CONSTANTS
    Services = {s1}
    Requests = {r1, r2}
    Closer = Closer
    MaxRevision = 1
    MaxDiskEdits = 1
    Shutdown = TRUE
    None = None
CHECK_DEADLOCK FALSE
INVARIANTS
    CleanupOwnsSession
 
