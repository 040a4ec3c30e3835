SPECIFICATION Spec
CONSTANTS
  BucketCount = 2
  Senders = {1}
  Readers = {}
  Names = {1, 2}
  Latencies = {0, 4}
  Exact = 3
  Settings <- MCSettings
  MaxLag = 1
  MaxTime = 1
  MaxSent = 3
  MaxRestarts = 1
CHECK_DEADLOCK FALSE
INVARIANTS
  Rectangular
