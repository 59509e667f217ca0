SPECIFICATION FairSpec
CONSTANTS
    a = a
    b = b
    Labels = {a, b}
    IntMax = 3
    JumpSlots = 4
    NoLabel = NoLabel
    NoCount = NoCount
    Blocks <- CountTwo
    MaxSends = 1
    MaxAsked = 1
    Polite = FALSE
INVARIANTS EveryLoopRunsCountTimes
CHECK_DEADLOCK FALSE
