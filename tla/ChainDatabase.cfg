SPECIFICATION FairSpec
CONSTANTS
  a1 = a1
  a2 = a2
  a3 = a3
  a4 = a4
  b2 = b2
  b3 = b3
  b4 = b4
  c3 = c3
  c4 = c4
  d4 = d4
  e4 = e4
  e5 = e5
  w1 = w1
  w2 = w2
  w3 = w3
  NONE = NONE
  Blocks = {a1, a2, a3, a4, b2, b3, b4, c3, c4, d4, e4, e5}
  Prev <- TreePrev
  Num <- TreeNum
  DefaultMaxSize = 8
  Fate <- SomeBad
  Witnesses = {w1, w2, w3}
  Producer <- Clustered
  MaxWitnesses = 2
  StartVotingBlock = 4
  MaxUndoHistory = 4
  MaxSpoils = 1
  Limit = 3
INVARIANTS ChainIsBranch LogSound OnHighestBranch PeersServed
PROPERTIES CommittedStays PushReturns
