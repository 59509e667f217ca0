CONSTANTS
    Buffers = 2
    MaxCalls = 5
    MaxUnsol = 1
    MaxPatches = 1
    Lossy = TRUE
    Unknown = TRUE
    Cached = TRUE
SPECIFICATION FairSpec
INVARIANTS BuffersRespected LinkSound AnswerIsOurs
PROPERTIES CallsImplemented BufferKept CallReturns
CHECK_DEADLOCK FALSE
