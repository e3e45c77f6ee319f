SPECIFICATION Spec
CONSTANTS
  Tabs = {a, b, c, d}
  None = None
INVARIANTS
  TypeOK
PROPERTIES
  SelectionSurvives
  OrderIsKept
