SPECIFICATION Spec
CONSTANTS
  Size = 4
  Letters = {"a"}
  Yells <- OneYell
INVARIANTS
  NothingHidden
  StatusFollows
PROPERTIES
  RoomMeansSafe
  SaidWasShown
CHECK_DEADLOCK FALSE
