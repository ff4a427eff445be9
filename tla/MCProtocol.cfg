SPECIFICATION Spec
CONSTANTS
  N = 10
  Kinds = {"chat", "status", "im", "yell", "vote", "lurk", "window", "list"}
  Windows <- SomeWindows
  Texts <- SomeTexts
  Namings <- SomeNamings
  Onlines <- SomeOnlines
  Stack <- Behind
  Heap <- BehindNames
  Capacity = 10
INVARIANTS
  TypeOK
  RequestArrives
  AnswersFit
  ListSurvives
CHECK_DEADLOCK FALSE
