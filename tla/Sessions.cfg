SPECIFICATION Spec
CONSTANTS
  Target = {pool, host}
  Server = {east, west}
  Managed = {edge}
  Ref = {r1, r2, r3}
  Client = {c1, c2}
  None = None
  Allowed = {operator}
  Own = operator
  Admin = admin
  ElevationBound = 2
  Extent <- MCExtent
SYMMETRY Symmetry
INVARIANTS
  OwnSession
  ServedAlive
  ActiveAttached
  ElevationEnds
CHECK_DEADLOCK FALSE
