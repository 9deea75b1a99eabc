SPECIFICATION Spec
CONSTANTS
  w1 = w1
  w2 = w2
  w3 = w3
  NONE = NONE
  Witness = {w1, w2, w3}
  Local = {w1}
  Interval = 2
  MaxWitnesses = 3
  BlocksPerDay = 1
  WindowSize = 4
  MinFilled = 2
  HardforkQuorum = 2
  HardforkTimes <- Times
  Reports <- Versions
  MaxDelay = 1
  MaxTime = 15
INVARIANT SlotsSound
PROPERTIES InTurn HardforkByQuorum
SYMMETRY Symmetry
CHECK_DEADLOCK FALSE
