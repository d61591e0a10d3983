SPECIFICATION Spec
CONSTANTS
  Calls = {c1, c2}
  c1 = c1
  c2 = c2
  Mixes <- ReceiptAlone
  RetainLocally = FALSE
  MaxOps = 2
  MaxFiles = 1
  MaxUploads = 1
  MaxRevision = 3
  None = None
SYMMETRY Symmetry
INVARIANTS
  AttachedWasVerified
CHECK_DEADLOCK FALSE
