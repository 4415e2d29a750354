SPECIFICATION Spec
CONSTANTS
  Request = {r1, r2}
  User = {uma}
  Admin = {ann}
  Policy = {"threshold", "webhook"}
  Pattern = {plain}
  None = none
  MaxActive = 2
  Steps = 1
  MaxAttempts = 1
  Verdict = {"validated"}
  MayTear = FALSE
  RestartBound = 1
VIEW Remembered
SYMMETRY Symmetry
PROPERTIES
  ImplementsRequest
CHECK_DEADLOCK FALSE
