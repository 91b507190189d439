SPECIFICATION Spec
CONSTANTS
    g = g
    w = w
    None = None
    Services <- Both
    Wasm <- OnlyW
    Hanging <- OnlyG
    Rebinds <- OnlyG
    Watches <- OnlyW
    Sends <- EachOther
    MaxCalls = 2
    MaxSends = 1
    MaxStarts <- Twice
INVARIANT ModuleNotReentered
INVARIANT NoMessageWhileStarting
PROPERTY NoEntryAfterCancel
CHECK_DEADLOCK FALSE
