SPECIFICATION Spec
CONSTANTS
  t1 = t1
  t2 = t2
  t3 = t3
  Txs = {t1, t2, t3}
  Expiration <- TxExpiration
  Needs <- TxNeeds
  Conflicts <- TxConflicts
  Size <- TxSize
  MaxBlockSize = 3
  MaxUntil = 3
  MaxTime = 4
  MaxHeight = 3
  MaxPops = 2
INVARIANTS AppliedOnce OwnBlockApplies
PROPERTIES NothingLost
