SPECIFICATION FairSpec
CONSTANTS
  Run = {r1, r2}
  Request <- MCRequest
  Approval = {a1}
  a1 = a1
  None = None
  MaxPlans = 3
  Limit <- MCLimit
INVARIANTS
  QuotaHeld
  Accounted
  RowTrue
  ApprovalEach
PROPERTIES
  DeploymentsEnd
CHECK_DEADLOCK FALSE
