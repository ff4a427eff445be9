SPECIFICATION LoopSpec
CONSTANTS
  Keys = {"text", "scroll", "esc", "quit"}
  MaxTyped = 3
  MaxInbox = 2
INVARIANTS
  NeverStuck
  EndsInOrder
PROPERTIES
  DenialEnds
  QuitEnds
  ServerHeard
CHECK_DEADLOCK FALSE
