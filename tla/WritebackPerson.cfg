SPECIFICATION Spec
CONSTANTS
  Calls = {c1, c2}
  Requests = {r1, r2}
  LiveRequests = {}
  None = None
  Kinds <- PersonKinds
  MaxRevision = 2
  MaxToken = 2
  Switch = {FALSE}
SYMMETRY Symmetry
CHECK_DEADLOCK FALSE
INVARIANTS
  SentAsStaged
  PostedIsCategorized
  VerifiedWasWritten
  PostedHasOneSource
PROPERTIES
  ImplementsAtMostOnceWrite
