SPECIFICATION FairSpec
CONSTANTS
  Request = {r1}
  Pass = {s1}
  Value = {1, 2}
  Stale = 2
  Hour = 2
  Keep = {2}
  Patience = 1
  LiveBound = 2
  SampleBound = 3
  MaxTime = 3
INVARIANTS
  ViewsAgree
  CursorBacked
  TimerSet
PROPERTIES
  PassesEnd
CHECK_DEADLOCK FALSE
