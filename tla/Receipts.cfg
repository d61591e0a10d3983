SPECIFICATION Spec
CONSTANTS
  Calls = {c1, c2}
  c1 = c1
  c2 = c2
  Mixes <- ReceiptMixes
  RetainLocally = FALSE
  MaxOps = 3
  MaxFiles = 1
  MaxUploads = 2
  MaxRevision = 3
  None = None
SYMMETRY Symmetry
INVARIANTS
  BusyFileHasOperation
  ContentIsKept
PROPERTIES
  UndoneIsGone
CHECK_DEADLOCK FALSE
