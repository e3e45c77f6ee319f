SPECIFICATION FairSpec
CONSTANTS
  Tokens = {t1, t2}
  Hosts = {h1, h2}
  Clients = {c1, c2}
  None = None
  MaxPending = 1
INVARIANTS
  TypeOK
  EntryIsOpen
  PairedOnce
PROPERTIES
  KeepsPromise
  EntriesDrain
  ClientsAreServed
  LegsEnd
CHECK_DEADLOCK FALSE
