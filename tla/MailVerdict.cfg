SPECIFICATION Spec
CONSTANTS
  EnvPass = {}
  Setups <- VerboseTui
  MaxRuns = 2
  MaxKeys = 2
  MaxRequests = 1
CHECK_DEADLOCK FALSE
PROPERTIES
  VerdictMatchesOutcome
