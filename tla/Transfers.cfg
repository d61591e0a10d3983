SPECIFICATION Spec
CONSTANTS
  Calls = {c1, c2}
  Ops = {o1}
  None = None
  Kinds <- CommitKinds
  MaxRevision = 1
  MaxToken = 2
  Switch = {}
  LongStalls = FALSE
SYMMETRY Symmetry
INVARIANTS
  TypeOK
  UnsentIsUntouched
  VerifiedWasApplied
