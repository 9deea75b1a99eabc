SPECIFICATION Spec
CONSTANTS
  Account = {1, 2, 3, 4}
  Witness = {w}
  MaxProxyDepth = 2
  MaxVotes = 1
  VestTerms <- Vests
  RewardTerms <- Rewards
  PowerDowns <- Downs
  RouteTerms <- Routes
  DelegationTerms <- Loans
  ProxyTerms <- Arrows
  FirstProxies <- FirstOnes
  FirstStake <- Stakes
  FirstLiquid <- Liquids
  FirstFund = 7
  RewardFund = 3
  EmptyPrice = 2
  CreationFee = 3
  Intervals = 2
  IntervalLength = 1
  MaxRoutes = 2
  Whole = 2
  ReturnPeriod = 1
  RecoveryPeriod = 1
  MaxOps = 4
  MaxTime = 3
INVARIANTS VotesExact StakeSound
PROPERTY ShareKeepsWorth
CHECK_DEADLOCK FALSE
