SPECIFICATION FairSpec
CONSTANTS
  Job = {w1, w2, w3}
  Type = {"deploy", "change"}
  Request <- LingerRequests
  NoLock = NoLock
  NoKey = NoKey
  Pausing = {"change"}
  Lingering = {"change"}
  Compensated = {}
  BatchLimit = 1
  AttemptCap = 2
  ApprovalBound = 0
  RestartBound = 1
INVARIANTS
  NoOrphanRun
PROPERTIES
  QueueDrains
CHECK_DEADLOCK FALSE
