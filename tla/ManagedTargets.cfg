SPECIFICATION FairSpec
CONSTANTS
  Request = {r1}
  Conn = {c1, c2, c3}
  None = None
  Threshold = 2
INVARIANTS
  ServedOpen
  DisabledLeft
  HealthyIsLive
  NothingLeaked
  StopsAsked
PROPERTIES
  MonitorRecovers
CHECK_DEADLOCK FALSE
