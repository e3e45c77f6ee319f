SPECIFICATION Spec
CONSTANTS
  MaxStreams = 2
  MaxRounds = 1
  MaxTokens = 1
  MaxTools = 1
  MaxRows = 4
  CanResume = FALSE
INVARIANTS
  TypeOK
  ApprovedOnly
  StreamingIsLive
  TextStaysInStream
  AsideTextIsNotSaved
PROPERTIES
  CancelledIsNeverApproved
CHECK_DEADLOCK FALSE
