SPECIFICATION StationFairSpec
CONSTANTS
    MaxCalls = 3
    MaxDrops = 2
    MaxEvents = 3
    LastTry = 2
INVARIANTS StationSound
PROPERTIES ConnectedMeansJoined BootEnds
CHECK_DEADLOCK FALSE
