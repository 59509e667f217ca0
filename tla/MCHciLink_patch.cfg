CONSTANTS
    Buffers = 1
    MaxCalls = 1
    MaxUnsol = 1
    MaxPatches = 1
    Lossy = FALSE
    Unknown = FALSE
    Cached = FALSE
SPECIFICATION Spec
PROPERTIES PatchServed
CHECK_DEADLOCK FALSE
