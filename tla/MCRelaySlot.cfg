SPECIFICATION Spec
CONSTANTS
  Tokens = {t1}
  Hosts = {h1, h2, h3}
  Clients = {c1, c2}
  None = None
  MaxPending = 2
INVARIANTS
  NewestHostKeepsItsSlot
CHECK_DEADLOCK FALSE
