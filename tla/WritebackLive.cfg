SPECIFICATION Spec
CONSTANTS
  Calls = {c1, c2}
  Requests = {r1, r2}
  LiveRequests = {r1, r2}
  None = None
  Kinds <- LiveKinds
  MaxRevision = 1
  MaxToken = 1
  Switch = {TRUE, FALSE}
SYMMETRY Symmetry
CHECK_DEADLOCK FALSE
INVARIANTS
  PendingIsHeld
