SPECIFICATION FairSpec
CONSTANTS
    a = a
    b = b
    Labels = {a, b}
    IntMax = 3
    JumpSlots = 4
    NoLabel = NoLabel
    NoCount = NoCount
    Blocks <- PoliteKinds
    MaxSends = 3
    MaxAsked = 1
    Polite = TRUE
INVARIANTS NoBlockLost RepliesPaired
PROPERTIES TransactionImplemented
CHECK_DEADLOCK FALSE
