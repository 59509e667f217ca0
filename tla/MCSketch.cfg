SPECIFICATION SketchSpec
CONSTANTS
    Labels = {a, b}
    IntMax = 3
    JumpSlots = 4
    Base = 2
    HeadLen = 3
    Chunk = 3
    Patience = 1
    Lengths = {0, 1, 3, 4, 8}
    ReplyLengths = {1, 4}
    MaxFrames = 2
    LineSize = 3
    Field = 3
    Filled = {"wifi", "ssid", "pass"}
    MaxTyped = 3
    MaxPowerLosses = 1
    SymbolNames = {"a", "value"}
    NoName = NoName
    Types = {"byte", "int", "double"}
    Slots = 2
    Sizes = {2}
    Indexes = {0, 1}
    Longs <- MCLongs
    ImageLists <- MCImageLists
    Addresses = {0}
    Garbage = {255}
    Refers = FALSE
    Nodes = {1, 2, 3, 4}
    Values = {1, 2}
    MaxTokens = 12
    MaxChars = 5
INVARIANTS TableSound FramingSound OnlyTheEndTorn ConfigSound ListSound ParserSound SymbolsSound
PROPERTIES HostWatched StoreImplemented
CHECK_DEADLOCK FALSE
