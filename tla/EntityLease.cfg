SPECIFICATION Spec
CONSTANTS
  Owners = {o1, o2}
  Keys = {1, 2}
  None = None
  TTL = 2
  TxTimeout = 2
  MaxDepth = 1
INVARIANTS
  FencedRowKept
  NoWaitRing
PROPERTIES
  TakeoverOnlyAfterExpiry
  AllKeysOrNone
  RemovedByItsOwnerAtTheEnd
  EveryTransactionEnds
