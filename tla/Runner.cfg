SPECIFICATION SafeSpec
CONSTANTS
  Concurrency = 2
  TotalMessages = 2
  Duration = 0
  Capacity = 1
  Kinds = {"err"}
  MaxLives = 2
  MaxTokens = 0
  MaxTime = 0
  MaxSent = 9
INVARIANTS
  OvertakesAfterStop
  DoneMeansFinal
  StopMeansFinal
  AbortsOnlyByStop
  NoPanic
  TerminalOnceThenClosed
PROPERTIES
  GeneratorContract
  CollectorContract
  ImplementsLifecycle
  OnlyUserLeavesStopped
CHECK_DEADLOCK FALSE
