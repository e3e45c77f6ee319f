SPECIFICATION Spec
CONSTANTS
  Windows = {w1, w2}
  Tabs = {t1, t2}
  Panes = {p1, p2}
  Ops = {o1}
  Behaviours = {"Close", "CloseOnCleanExit", "Hold"}
  None = None
SYMMETRY Symm
INVARIANTS
  TypeOK
  
  NothingStranded
CHECK_DEADLOCK FALSE
