SPECIFICATION Spec
CONSTANTS
  Job = {w1, w2}
  Type = {"deploy", "change"}
  Request <- DrainRequests
  NoLock = NoLock
  NoKey = NoKey
  Pausing = {"change"}
  Lingering = {}
  Compensated = {"deploy"}
  BatchLimit = 2
  AttemptCap = 4
  ApprovalBound = 1
  RestartBound = 2
INVARIANTS
  LockExclusive
  SingleFlight
PROPERTIES
  ImplementsLifecycle
CHECK_DEADLOCK FALSE
