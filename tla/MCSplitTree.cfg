SPECIFICATION Spec
CONSTANTS
  Panes = {p1, p2, p3, p4}
  Sizes <- MCSizes
  Deltas <- MCDeltas
  Requests <- MCRequests
  Gutter <- MCGutter
  None = None
CONSTRAINT Sound
SYMMETRY Symm
INVARIANTS
  TypeOK
  PassTakesSome
PROPERTIES
  TilingStays
  FocusStays
CHECK_DEADLOCK FALSE
