SPECIFICATION Spec
CONSTANTS
  MaxId = 3
  Keys = {k1, k2}
  Bodies = {b1, b2}
  NONE = NONE
  KeysFixed = TRUE
  MaxDepth = 3
  MaxRevision = 3
INVARIANTS IndexInv
PROPERTIES ImplementsStore UndoAllEnds
