SPECIFICATION FairSpec
CONSTANTS
  t1 = t1
  t2 = t2
  w1 = w1
  w2 = w2
  None = None
  Txns <- TwoTxns
  Workers <- OneWorker
  MaxTries = 1
  Capacity = 1
  Concurrency = 2
  WriteLimit = 1
  MaxRevision = 0
  MaxGeneration = 0
  c1 = c1
  Configs <- OneConfig
  PersonOps <- PostOneUndoOther
INVARIANTS
  CapacityRespected
  OneUnsettledWrite
  WritesArePermitted
PROPERTIES
  JobsSettle
CHECK_DEADLOCK FALSE
