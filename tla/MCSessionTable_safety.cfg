SPECIFICATION Spec
CONSTANTS
  NumSlots = 2
  Conn = {a, b, c, d}
  NoConn = NoConn
  MaxBallots = 1
  SpawnMayFail = TRUE
SYMMETRY Connections
CONSTRAINT Scope
INVARIANTS
  CounterExact
  RoomMeansSlot
  NotOrphaned
  UsesOwn
  VotesAreOwn
CHECK_DEADLOCK FALSE
