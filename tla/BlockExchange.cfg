CONSTANTS
  left = left
  middle = middle
  right = right
  NONE = NONE
  Nodes <- MCNodes
  Links <- MCLinks
  Blocks <- MCBlocks
  Prev <- MCPrev
  Num <- MCNum
  Start <- MCStart
  Maker <- MCMaker
  Limit = 2
  MinIdsToPrefetch = 3
  MaxBlocksPerPeer = 2
  MaxHandled = 1
  MaxPrefetched = 1
  Grace = 0
  MaxCloses = 1
SPECIFICATION Spec
INVARIANTS ExchangeSound 
PROPERTY ExchangeEnds
CHECK_DEADLOCK FALSE
