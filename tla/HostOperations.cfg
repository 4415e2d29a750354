SPECIFICATION Spec
CONSTANTS
  Op = {o1, o2}
  p1 = p1
  p2 = p2
  Path = {p1, p2}
  Asked <- MCAsked
INVARIANTS
  MaintenanceHeld
  HostBack
  PathsBack
  PathsMatch
CHECK_DEADLOCK FALSE
