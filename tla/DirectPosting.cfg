SPECIFICATION Spec
CONSTANTS
  Calls = {c1, c2}
  k1 = k1
  k2 = k2
  Categories = {k1}
  Amounts = {1, 2}
  Kinds <- AllKinds
  Switch = {TRUE, FALSE}
  MaxToken = 2
  None = None
SYMMETRY Symmetry
PROPERTIES
  PostKeepsTheTotal
  UndoSparesEdits
CHECK_DEADLOCK FALSE
