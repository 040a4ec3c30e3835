SPECIFICATION Spec
CONSTANTS
  Numbers = {0, 200, 300, 404, 405, 500}
  Sessions = {1, 2}
  Setups <- MCSetups
INVARIANTS
  AcceptedScenarioRuns
  OwnIds
  OneOutcomeEach
PROPERTIES
  SessionsEnd
CHECK_DEADLOCK FALSE
