SPECIFICATION Spec
CONSTANTS
  Windows = {w1, w2}
  Dirs = {d1, d2, d3}
  Restores = {r1}
  None = None
SYMMETRY Names
INVARIANTS
  TypeOK
  ContentIsThere
  RestoreFindsContent
CHECK_DEADLOCK FALSE
