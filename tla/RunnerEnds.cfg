SPECIFICATION Spec
CONSTANTS
  Concurrency = 1
  TotalMessages = 0
  Duration = 1
  Capacity = 1
  Kinds = {"err"}
  MaxLives = 2
  MaxTokens = 1
  MaxTime = 1
  MaxSent = 1
PROPERTIES
  RunEnds
  DoneIsAnnounced
  CommandsReturn
CHECK_DEADLOCK FALSE
