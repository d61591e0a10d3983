SPECIFICATION Spec
CONSTANTS
  Calls = {c1}
  Ops = {o1, o2}
  None = None
  Kinds <- AllKinds
  MaxRevision = 2
  MaxToken = 1
  Switch = {TRUE, FALSE}
  LongStalls = FALSE
SYMMETRY Symmetry
INVARIANTS
  SecondAfterFirst
  NothingLeftBehind
  RowTellsOutcome
