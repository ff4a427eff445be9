SPECIFICATION Spec
CONSTANTS
  N = 2
  Half = 3
  MaxSaid = 1
  MaxTyped = 0
  Typists = {}
  Askers = {}
  Leavers = {}
PROPERTIES
  SaidIsSeen
CHECK_DEADLOCK FALSE
