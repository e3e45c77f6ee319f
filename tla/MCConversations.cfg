SPECIFICATION Spec
CONSTANTS
  Overlays = {o1}
  Clis = {k1}
  Ids = {c1, c2}
  None = None
  Cap = 1
  MaxTurns = 1
  CanFail = TRUE
SYMMETRY Symm
INVARIANTS
  TypeOK
  TurnsStayInConversation
PROPERTIES
  EvictsOnlyOverCap
CHECK_DEADLOCK FALSE
