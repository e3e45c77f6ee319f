SPECIFICATION FairSpec
CONSTANTS
  Windows = {w1}
  Tabs = {t1}
  Panes = {p1, p2}
  Ops = {o1}
  Behaviours = {"Close"}
  None = None
PROPERTIES
  DeadWindowsGo
CHECK_DEADLOCK FALSE
