SPECIFICATION FairSpec
CONSTANTS
  Request = {r1}
  User = {uma}
  Admin = {ann, ben}
  Policy = {"manual", "auto", "threshold", "webhook", "multi-step"}
  Pattern = {plain}
  None = none
  MaxActive = 1
  Steps = 2
  MaxAttempts = 2
  Verdict = {"untested", "validated", "failed"}
  MayTear = TRUE
  RestartBound = 2
INVARIANTS
  ChainSeparated
  HookAgrees
  
PROPERTIES
  HooksSettle
  DeployedChecked
CHECK_DEADLOCK FALSE
