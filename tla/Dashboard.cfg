SPECIFICATION Spec
CONSTANTS
  Files <- MCFiles
  Commands <- MCCommands
  CwdDirs <- MCCwdDirs
  MaxRunners = 4
  MaxKeys = 4
  MaxLogged = 2
  Talkative = {1}
  LogChannel = 1
  MaxLogLines = 1
  Page = 1
  TabCount = 2
CHECK_DEADLOCK FALSE
INVARIANTS
  ScreenOK
  TornDown
  StartsAsTold
PROPERTIES
  Exits
