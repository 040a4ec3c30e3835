SPECIFICATION Spec
CONSTANTS
  BucketCount = 3
  Senders = {1, 2}
  Readers = {1}
  Names = {1}
  Latencies = {0, 4}
  Exact = 3
  Settings <- MCSettings
  MaxLag = 2
  MaxTime = 4
  MaxSent = 2
  MaxRestarts = 1
CHECK_DEADLOCK FALSE
INVARIANTS
  RateCountsTheWindow
  FileEndsFinal
  BarsMatchLabels
