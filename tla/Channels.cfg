SPECIFICATION FairSpec
CONSTANTS
    g = g
    w = w
    None = None
    Services <- Both
    Wasm <- OnlyW
    Hanging <- OnlyG
    Rebinds <- OnlyG
    Watches <- OnlyW
    Sends <- ToModule
    MaxCalls = 2
    MaxSends = 1
    MaxStarts <- Once
INVARIANT TypeOK
PROPERTY EveryCallEnds
PROPERTY CancelledCallsEnd
PROPERTY StopCloses
CHECK_DEADLOCK FALSE
