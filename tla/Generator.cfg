SPECIFICATION SafeSpec
CONSTANTS
  Concurrency = 2
  TotalMessages = 2
  Duration = 2
  MaxCycles = 3
  MaxTokens = 0
  MaxTime = 2
INVARIANTS
  TypeOK
  CapHeld
  DrainedWhenNotRunning
  NoWaitGroupReuse
  NaturalEndHasReason
  NoSessionOnSpentBudget
CHECK_DEADLOCK FALSE
