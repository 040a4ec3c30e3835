SPECIFICATION SafeSpec
CONSTANTS
  Concurrency = 1
  TotalMessages = 2
  Duration = 0
  Capacity = 1
  Kinds = {"err"}
  MaxLives = 2
  MaxTokens = 0
  MaxTime = 0
  MaxSent = 9
INVARIANT DoneAlwaysFinal
CHECK_DEADLOCK FALSE
