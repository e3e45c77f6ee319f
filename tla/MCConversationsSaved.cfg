SPECIFICATION Spec
CONSTANTS
  Overlays = {}
  Clis = {k1}
  Ids = {c1, c2}
  None = None
  Cap = 3
  MaxTurns = 2
  CanFail = FALSE
PROPERTIES
  SavedTurnsStay
CHECK_DEADLOCK FALSE
