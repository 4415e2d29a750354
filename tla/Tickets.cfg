SPECIFICATION Spec
CONSTANTS
  Ticket = {t1, t2}
  Scope = {s1}
  NoScope = NoScope
  ListLimit = 2
  EditBound = 2
  RestartBound = 1
INVARIANTS
  WorkShown
  OncePerScope
PROPERTIES
  OpenWorkKept
CHECK_DEADLOCK FALSE
