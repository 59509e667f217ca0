CONSTANTS
    Buffers = 2
    MaxCalls = 3
    MaxUnsol = 1
    MaxPatches = 0
    Lossy = TRUE
    Unknown = FALSE
    Cached = FALSE
SPECIFICATION FairSpec
PROPERTIES SendReturns
CHECK_DEADLOCK FALSE
