SPECIFICATION FairSpec
CONSTANTS
  NumSlots = 2
  Conn = {a, b}
  NoConn = NoConn
  MaxBallots = 1
  SpawnMayFail = TRUE
PROPERTIES
  LeaverIsReaped
  CountDrains
CHECK_DEADLOCK FALSE
