SPECIFICATION Spec
CONSTANTS
  k1 = k1
  k2 = k2
  k3 = k3
  r1 = r1
  r2 = r2
  Key = {k1, k2, k3}
  Open = Open
  Account = {r1, r2}
  NONE = NONE
  RecoveryPeriod = 3
  RequestPeriod = 2
  UpdateLimit = 1
  MaxTime = 5
INVARIANTS HolderCanReturn NothingLeftOver
PROPERTIES ChangesAnnounced
SYMMETRY Symmetry
CHECK_DEADLOCK FALSE
