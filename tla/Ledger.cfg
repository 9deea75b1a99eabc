SPECIFICATION MCSpec
CONSTANTS
  alice = alice
  bob = bob
  carol = carol
  nobody = nobody
  Account = {alice, bob, carol, nobody}
  Null = nobody
  Start <- Balances
  OrderTerms <- Offers
  MaxOrderLife = 3
  TransferTerms <- Payments
  DepositTerms <- Deposits
  WithdrawalTerms <- Withdrawals
  ConversionTerms <- Exchanges
  EscrowTerms <- Deals
  Feeds <- Prices
  SavingsTime = 1
  RequestLimit = 1
  ConversionDelay = 2
  MaxTime = 4
  MoneyTime = 3
  MaxOps = 6
  ContentOps = 4
  Post = {"post", "reply", "answer"}
  Top = "top"
  Author <- Authors
  Parent <- Parents
  AccountRank <- Ranks
  VoteWeights <- Weights
  OptionTerms <- Options
  Producers <- Producing
  FirstVests <- Vests
  FirstFund = 10
  FirstPosts = {"post"}
  Reward <- Rules
INVARIANTS SupplyConserved CountersAgree ObligationsMet MarketFair
PROPERTIES EscrowToParties PayoutFinal
CHECK_DEADLOCK FALSE
