SPECIFICATION SnapSpec
CONSTANTS
  Capacity = 1
  Kinds = {"err", "faf", "plain", "matched"}
  MaxStarts = 2
  MaxSent = 3
INVARIANTS
  TypeOK
  NothingLost
  FinalWhenStopped
  NoDoubleClose
  MatchedWithinReceived
CHECK_DEADLOCK FALSE
