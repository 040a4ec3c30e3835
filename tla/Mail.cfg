SPECIFICATION Spec
CONSTANTS
  EnvPass = {}
  Setups <- MCSetups
  MaxRuns = 2
  MaxKeys = 2
  MaxRequests = 1
CHECK_DEADLOCK FALSE
INVARIANTS
  OnlyWantedMail
  OneLiveTicker
  StatusSettles
  PasswordNeedsTLS
  HeadlessWaitsForMail
