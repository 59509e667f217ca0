SPECIFICATION ServerFairSpec
CONSTANTS
  Sd = {0, 1, 2}
  BufSize = 2
  MaxConns = 2
  MaxBytes = 2
  MaxFaults = 1
  MaxClients = 2
INVARIANTS ClientsSound
PROPERTIES ClosedForCause BytesInOrder CloseNoticed PendingAccepted
CHECK_DEADLOCK FALSE
