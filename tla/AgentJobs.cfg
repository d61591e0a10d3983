SPECIFICATION Spec
CONSTANTS
  t1 = t1
  t2 = t2
  w1 = w1
  w2 = w2
  None = None
  Txns <- OneTxn
  Workers <- TwoWorkers
  MaxTries = 2
  Capacity = 1
  Concurrency = 2
  WriteLimit = 1
  MaxRevision = 0
  MaxGeneration = 1
  c1 = c1
  Configs <- OneConfig
  PersonOps <- UndoOne
SYMMETRY Symmetry
INVARIANTS
  OpenRunIsCurrent
  UnsettledWriteStopsLive
  SentWriteOwnsRow
PROPERTIES
  SentIsNeverRearmed
  LateClaimChangesNothing
  PreparedKeepsItsJob
CHECK_DEADLOCK FALSE
