SPECIFICATION LibrariesSpec
CONSTANTS
    TxBufferSize = 131
    SsidLengths = {0, 1, 31, 32}
    KeyLengths = {0, 1, 2, 3, 4, 5, 6, 7, 8, 9, 10, 11, 12, 13, 14, 15, 16, 17, 18, 19, 20, 21, 22, 23, 24, 25, 26, 27, 28, 29, 30, 31, 32}
    WepKeyLengths = {5, 13}
    NameLengths = {0, 1, 32, 33, 113}
    DataLengths = {0, 1, 48, 88}
    Parts = 2
    Portions = 2
    MaxNvFaults = 1
    MaxCrashes = 1
    Seconds = 32
    Ticks = 4
    UnitsPerTick = 4
    Starts = {9, 412}
    MaxTicks = 4
    MaxUpdates = 1
    MaxInFlight = 2
    FirstDay = 24855
    LastDay = 52000
    Clocks = {11648}
    Fractions = {511, 512}
    MaxBlocks = 5
    ByteBits = 3
    LevelBytes = 2
    CT <- MCCT
    Uids <- MCUids
    SectorBlocks = 3
    Sectors = 2
    MaxNoise = 1
    MaxMoves = 2
    Fingers = {"thumb", "index"}
    Ids = {1}
    Lines <- MCLines
    MaxPolls = 8
    MaxLosses = 1
    MaxLate = 1
INVARIANTS CommandsSound ProgrammerSound CalendarSound CipherSound
PROPERTIES ComesToAnEnd ClockSound TransfersSound SelectSound EnrolmentSound
CHECK_DEADLOCK FALSE
