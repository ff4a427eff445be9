SPECIFICATION Safety
CONSTANTS
  N = 2
  Half = 2
  MaxSaid = 2
  MaxTyped = 1
  Typists = {1}
  Askers = {1}
  Leavers = {2}
INVARIANTS
  PatientIsHeard
  MissesHaveCause
PROPERTIES
  ImplementsChatroom
CONSTRAINT Scope
CHECK_DEADLOCK FALSE
