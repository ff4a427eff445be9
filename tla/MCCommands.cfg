SPECIFICATION Spec
CONSTANTS
  N = 2
  People = {p, q, r}
  Nobody = Nobody
  Wids = {1}
  Kinds = {"chat", "lurk", "list", "window"}
  Joins = TRUE
  MaxSent = 3
INVARIANTS
  WriterNamed
  ListsAreWhole
  LurkIsTold
SYMMETRY Everyone
CHECK_DEADLOCK FALSE
