SPECIFICATION FairSpec
CONSTANTS
  MaxStreams = 1
  MaxRounds = 2
  MaxTokens = 1
  MaxTools = 1
  MaxRows = 9
  CanResume = TRUE
PROPERTIES
  AnswerIsComplete
  StreamsSettle
  AgentsFinish
  CancelStopsTools
CHECK_DEADLOCK FALSE
