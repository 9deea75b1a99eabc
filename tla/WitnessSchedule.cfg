SPECIFICATION Spec
CONSTANTS
  Witness = {1, 2, 3, 4, 5}
  Founders = {1, 2, 3, 4}
  NameRank <- Ranks
  MaxWitnesses = 3
  MaxVoted = 1
  Lap = 31
  TotalVesting = 3
  MaxChanges = 5
INVARIANT TurnsFair
PROPERTY RunnersGetTurns
CHECK_DEADLOCK FALSE
