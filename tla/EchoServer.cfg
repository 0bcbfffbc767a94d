SPECIFICATION Spec
CONSTANTS
  None = None
  Conns = {c1, c2}
  N = 2
  Fids = {0, 2, 3}
CHECK_DEADLOCK FALSE
INVARIANTS
  TypeOK
  LateAnswersWhole
PROPERTIES
  SettledStays
  SetUpEnds
  RequestEnds
