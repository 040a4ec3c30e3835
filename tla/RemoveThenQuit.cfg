SPECIFICATION Spec
CONSTANTS
  Files <- MCFiles
  Commands <- MCReported
  CwdDirs <- MCCwdDirs
  MaxRunners = 2
  MaxKeys = 4
  MaxLogged = 0
  Talkative = {}
  LogChannel = 1
  MaxLogLines = 1
  Page = 1
  TabCount = 4
CHECK_DEADLOCK FALSE
INVARIANTS
  NoDoubleTeardown
