SPECIFICATION Spec
CONSTANTS
  NumSlots = 2
  Conn = {a, b}
  NoConn = NoConn
  MaxBallots = 1
  SpawnMayFail = FALSE
INVARIANT MajorityIsEjected
CHECK_DEADLOCK FALSE
