SPECIFICATION FairSpec
CONSTANTS
    a = a
    b = b
    Labels = {a, b}
    IntMax = 3
    JumpSlots = 4
    NoLabel = NoLabel
    NoCount = NoCount
    Blocks <- RudeKinds
    MaxSends = 3
    MaxAsked = 2
    Polite = FALSE
INVARIANTS OneAnswerPerBlock
 
CHECK_DEADLOCK FALSE
