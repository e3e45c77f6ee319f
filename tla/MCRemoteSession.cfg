SPECIFICATION FairSpec
CONSTANTS
  Chats = {c1, c2, c3}
  Convs = {v1, v2}
  None = None
  MaxInFlight = 2
  MaxQueued = 1
INVARIANTS
  TypeOK
  SlotsAreCounted
  LimitHolds
  HandlesAreDropped
PROPERTIES
  SlotsComeBack
  ChatsAreAnswered
CHECK_DEADLOCK FALSE
