SPECIFICATION FairSpec
CONSTANTS
    g = g
    w = w
    None = None
    Services <- OnlyW
    Wasm <- OnlyW
    Hanging = {}
    Rebinds <- OnlyW
    Watches <- OnlyW
    Sends = {}
    MaxCalls = 1
    MaxSends = 1
    MaxStarts <- Once
PROPERTY ExitRemovesBindings
CHECK_DEADLOCK FALSE
