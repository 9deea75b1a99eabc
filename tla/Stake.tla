-------------------------------- MODULE Stake --------------------------------
(***************************************************************************)
(* Stakes: liquid tokens turned into vesting shares, the withdrawals that  *)
(* pay them out again over several intervals and along routes, delegated   *)
(* shares and their return, rewards paid in shares, and the end of voting  *)
(* rights.  Every change of a stake goes through WitnessVotes.             *)
(*                                                                         *)
(* A block is its transactions, at the time of the block before, and then  *)
(* the processing at its own time; a block whose processing fails an       *)
(* assertion is not applied and leaves no trace.  Accounts are not created *)
(* here, and a claim is one of vesting shares.                             *)
(***************************************************************************)
EXTENDS WitnessVotes, Sequences, SequencesExt

CONSTANTS
  VestTerms,        \* transfers to vesting: from, to, amount
  RewardTerms,      \* rewards paid as shares: to, amount
  PowerDowns,       \* withdrawals asked for: account, shares
  RouteTerms,       \* routes set: from, to, percent, vest (auto_vest)
  DelegationTerms,  \* delegations: from, to, shares
  ProxyTerms,       \* proxies that are set: account, to
  FirstProxies,     \* the proxies there may be at the beginning
  FirstStake,       \* the stakes at the beginning
  FirstLiquid,      \* the liquid balances at the beginning
  FirstFund,        \* total_vesting_fund_liquid at the beginning
  RewardFund,       \* what there is to pay rewards from
  EmptyPrice,       \* shares per liquid token when nothing is vested
  CreationFee,      \* the witnesses' median account_creation_fee
  Intervals,        \* ZATTERA_VESTING_WITHDRAW_INTERVALS
  IntervalLength,   \* ZATTERA_VESTING_WITHDRAW_INTERVAL_SECONDS
  MaxRoutes,        \* ZATTERA_MAX_WITHDRAW_ROUTES
  Whole,            \* ZATTERA_100_PERCENT
  ReturnPeriod,     \* delegation_return_period
  RecoveryPeriod,   \* ZATTERA_OWNER_AUTH_RECOVERY_PERIOD
  MaxOps,           \* bound: operations
  MaxTime           \* bound: blocks

(* The validate() functions of the operations. *)
ASSUME StakeAssumption ==
  /\ \A t \in VestTerms \cup RewardTerms : t.to \in Account /\ t.amount \in Nat \ {0}
  /\ \A t \in RouteTerms : t.percent \in 0 .. Whole
  /\ \A t \in DelegationTerms : t.from # t.to /\ t.shares \in Nat
  /\ \A t \in ProxyTerms : t.account # t.to
  /\ \A p \in FirstProxies : \A a \in Account : a \notin Above(p, a)
  /\ FirstStake \in [Account -> Nat] /\ FirstLiquid \in [Account -> Nat]
  /\ EmptyPrice \in Nat \ {0} /\ Intervals \in Nat \ {0} /\ IntervalLength \in Nat \ {0}

VARIABLES
  now,          \* head_block_time(), in blocks
  liquid,       \* liquid_balance of an account
  fund,         \* total_vesting_fund_liquid
  withdraw,     \* the withdrawal of an account: rate, to (to_withdraw),
                \*   done (withdrawn), next (next_vesting_withdrawal)
  routes,       \* the withdraw_vesting_route_objects
  delegations,  \* the vesting_delegation_objects: from, to, shares
  returns,      \* the vesting_delegation_expiration_objects: to, shares, at
  delegated,    \* delegated_vesting_share_balance
  received,     \* received_vesting_share_balance
  reward,       \* reward_vesting_share_balance and reward_vesting_liquid_balance
  pending,      \* pending_rewarded_vesting_shares and _liquid
  rewardFund,   \* what is left to pay rewards from
  declines,     \* the decline_voting_rights_request_objects: account, at
  ops           \* history variable: operations so far

power == <<withdraw, routes>>
loans == <<delegations, returns, delegated, received>>
rewards == <<reward, pending, rewardFund>>
ballots == <<proxy, canVote, voted>>
vars == <<now, liquid, fund, vesting, total, tally, power, loans, rewards, ballots, declines, ops>>

(* time_point_sec::maximum() *)
Never == MaxTime + IntervalLength + 1

TypeOK ==
  /\ VotesTypeOK
  /\ liquid \in [Account -> Nat] /\ fund \in Nat /\ rewardFund \in Nat
  /\ delegated \in [Account -> Nat] /\ received \in [Account -> Nat]
  /\ reward \in [Account -> [shares : Nat, liquid : Nat]]
  /\ pending \in [shares : Nat, liquid : Nat]
  /\ \A a \in Account : withdraw[a].next \in Nat /\ withdraw[a].done \in Nat

Init ==
  /\ now = 0 /\ ops = 0
  /\ liquid = FirstLiquid /\ vesting = FirstStake
  /\ fund = FirstFund
  /\ total = SumOf(Account, LAMBDA a : FirstStake[a])
  /\ proxy \in FirstProxies
  /\ tally = [proxied |-> [a \in Account |-> [i \in Level |->
                            SumOf(Below(proxy, a, i), LAMBDA b : FirstStake[b])]],
              votes |-> [w \in Witness |-> 0]]
  /\ canVote = [a \in Account |-> TRUE]
  /\ voted = [a \in Account |-> {}]
  /\ withdraw = [a \in Account |-> [rate |-> 0, to |-> 0, done |-> 0, next |-> Never]]
  /\ routes = {} /\ delegations = {} /\ returns = << >> /\ declines = {}
  /\ delegated = [a \in Account |-> 0] /\ received = [a \in Account |-> 0]
  /\ reward = [a \in Account |-> [shares |-> 0, liquid |-> 0]]
  /\ pending = [shares |-> 0, liquid |-> 0] /\ rewardFund = RewardFund

Operation == ops < MaxOps /\ ops' = ops + 1 /\ now' = now

------------------------------------------------------------------------------

(* asset * get_vesting_share_price(), in the two directions, with f tokens *)
(* in the fund and s shares.                                               *)
SharesFor(f, s, n) == IF f = 0 \/ s = 0 THEN n * EmptyPrice ELSE (n * s) \div f

(* Mutant: rounds up. *)
LiquidForMore(f, s, n) ==
  IF f = 0 \/ s = 0 THEN n \div EmptyPrice ELSE (n * f + s - 1) \div s

LiquidFor(f, s, n) == IF f = 0 \/ s = 0 THEN n \div EmptyPrice ELSE (n * f) \div s

(* The stake of a grows by n, and so does the number of shares. *)
Grow(a, n) ==
  /\ vesting' = [vesting EXCEPT ![a] = @ + n]
  /\ total' = total + n
  /\ tally' = AdjustOwn(proxy, voted, tally, a, n)
  /\ WithinTotal(tally', Reached(proxy, voted, a), total')

(* transfer_to_vesting and create_vesting(). *)
TransferToVesting(t) ==
  /\ Operation
  /\ liquid[t.from] >= t.amount
  /\ liquid' = [liquid EXCEPT ![t.from] = @ - t.amount]
  /\ fund' = fund + t.amount
  /\ Grow(t.to, SharesFor(fund, total, t.amount))
  /\ UNCHANGED <<power, loans, rewards, ballots, declines>>

(* create_vesting() to the reward balance, at a price that counts the      *)
(* rewards not yet claimed.  A reward that buys no share is credited as    *)
(* liquid (reward_liquid_balance, which is no stake), and still set aside. *)
Reward(t) ==
  LET f == fund + pending.liquid
      s == total + pending.shares
  IN  /\ Operation
      /\ rewardFund >= t.amount /\ f > 0 /\ s > 0
      /\ \E n \in {(t.amount * s) \div f} :
           /\ reward' = IF n = 0 THEN reward
                        ELSE [reward EXCEPT ![t.to] = [shares |-> @.shares + n,
                                                       liquid |-> @.liquid + t.amount]]
           /\ pending' = [shares |-> pending.shares + n, liquid |-> pending.liquid + t.amount]
      /\ rewardFund' = rewardFund - t.amount
      /\ UNCHANGED <<liquid, fund, vesting, total, tally, power, loans, ballots, declines>>

(* The tokens that n of the shares of a reward bring into the fund. *)
Backing(r, n) == IF n = r.shares THEN r.liquid ELSE (n * r.liquid) \div r.shares

(* claim_reward_balance, for n shares. *)
ClaimReward(a, n) ==
  /\ Operation
  /\ n > 0 /\ n <= reward[a].shares
  /\ \E m \in {Backing(reward[a], n)} :
       /\ reward' = [reward EXCEPT ![a] = [shares |-> @.shares - n, liquid |-> @.liquid - m]]
       /\ pending' = [shares |-> pending.shares - n, liquid |-> pending.liquid - m]
       /\ fund' = fund + m
  /\ Grow(a, n)
  /\ UNCHANGED <<liquid, power, loans, rewardFund, ballots, declines>>

------------------------------------------------------------------------------

NoWithdrawal == [rate |-> 0, to |-> 0, done |-> 0, next |-> Never]

(* withdraw_vesting; no shares end the withdrawal.  A new withdrawal takes *)
(* the place of one under way, but must change the rate.                   *)
WithdrawVesting(a, n) ==
  /\ Operation
  /\ vesting[a] - delegated[a] >= n
  /\ \E rate \in {IF n = 0 THEN 0 ELSE Max({n \div Intervals, 1})} :
       /\ rate # withdraw[a].rate
       /\ withdraw' = [withdraw EXCEPT ![a] =
            IF n = 0 THEN NoWithdrawal
            ELSE [rate |-> rate, to |-> n, done |-> 0, next |-> now + IntervalLength]]
  /\ UNCHANGED <<routes, liquid, fund, vesting, total, tally, loans, rewards, ballots, declines>>

RoutesFrom(rs, a) == {r \in rs : r.from = a}

(* set_withdraw_vesting_route: created, changed, or with 0 % removed. *)
SetRoute(t) ==
  /\ Operation
  /\ \E others \in {{r \in routes : ~(r.from = t.from /\ r.to = t.to)}} :
       /\ t.percent = 0 => others # routes
       /\ others = routes => Cardinality(RoutesFrom(routes, t.from)) < MaxRoutes
       /\ routes' = IF t.percent = 0 THEN others ELSE others \cup {t}
  /\ SumOf(RoutesFrom(routes', t.from), LAMBDA r : r.percent) <= Whole
  /\ UNCHANGED <<withdraw, liquid, fund, vesting, total, tally, loans, rewards, ballots, declines>>

------------------------------------------------------------------------------

Available(a) == vesting[a] - delegated[a] - (withdraw[a].to - withdraw[a].done)

Lent(from, to) == {d \in delegations : d.from = from /\ d.to = to}

MinDelegation == SharesFor(fund, total, CreationFee \div 3)
MinUpdate == SharesFor(fund, total, CreationFee \div 30)

(* delegate_vesting_shares, when there is no delegation yet or t increases *)
(* it from the shares old.                                                 *)
Delegate(t) ==
  LET old == SumOf(Lent(t.from, t.to), LAMBDA d : d.shares)
  IN  /\ Operation
      /\ t.shares >= old
      /\ Available(t.from) >= t.shares - old
      /\ IF Lent(t.from, t.to) = {} THEN t.shares >= MinDelegation
                                    ELSE t.shares - old >= MinUpdate
      /\ delegations' = (delegations \ Lent(t.from, t.to)) \cup {t}
      /\ delegated' = [delegated EXCEPT ![t.from] = @ + t.shares - old]
      /\ received' = [received EXCEPT ![t.to] = @ + t.shares - old]
      /\ UNCHANGED <<returns, liquid, fund, vesting, total, tally, power, rewards, ballots,
                     declines>>

(* Mutant: the shares are the lender's again at once. *)
UndelegateAtOnce(d, t) ==
  /\ Operation
  /\ t.from = d.from /\ t.to = d.to /\ t.shares < d.shares
  /\ t.shares > 0 => t.shares >= MinDelegation /\ d.shares - t.shares >= MinUpdate
  /\ delegations' = (delegations \ {d}) \cup (IF t.shares > 0 THEN {t} ELSE {})
  /\ returns' = Append(returns, [to |-> d.from, shares |-> d.shares - t.shares,
                                 at |-> now + ReturnPeriod])
  /\ delegated' = [delegated EXCEPT ![d.from] = @ - (d.shares - t.shares)]
  /\ received' = [received EXCEPT ![d.to] = @ - (d.shares - t.shares)]
  /\ UNCHANGED <<liquid, fund, vesting, total, tally, power, rewards, ballots, declines>>

(* delegate_vesting_shares, when t decreases the delegation d: the         *)
(* difference is lost to the receiver and not yet the lender's.            *)
Undelegate(d, t) ==
  /\ Operation
  /\ t.from = d.from /\ t.to = d.to /\ t.shares < d.shares
  /\ t.shares > 0 => t.shares >= MinDelegation /\ d.shares - t.shares >= MinUpdate
  /\ delegations' = (delegations \ {d}) \cup (IF t.shares > 0 THEN {t} ELSE {})
  /\ returns' = Append(returns, [to |-> d.from, shares |-> d.shares - t.shares,
                                 at |-> now + ReturnPeriod])
  /\ received' = [received EXCEPT ![d.to] = @ - (d.shares - t.shares)]
  /\ UNCHANGED <<delegated, liquid, fund, vesting, total, tally, power, rewards, ballots,
                 declines>>

(* decline_voting_rights: asks for it, or takes the request back. *)
DeclineVoting(a) ==
  /\ Operation
  /\ \A q \in declines : q.account # a
  /\ declines' = declines \cup {[account |-> a, at |-> now + RecoveryPeriod]}
  /\ UNCHANGED <<liquid, fund, vesting, total, tally, power, loans, rewards, ballots>>

KeepVoting(q) ==
  /\ Operation
  /\ declines' = declines \ {q}
  /\ UNCHANGED <<liquid, fund, vesting, total, tally, power, loans, rewards, ballots>>

(* The operations of WitnessVotes. *)
Vote ==
  /\ Operation
  /\ \/ \E t \in ProxyTerms : SetProxy(t.account, t.to)
     \/ \E a \in Account : ClearProxy(a)
     \/ \E a \in Account : \E w \in Witness : Approve(a, w) \/ Disapprove(a, w)
  /\ UNCHANGED <<canVote, liquid, fund, vesting, total, power, loans, rewards, declines>>

------------------------------------------------------------------------------
(* The processing of a block works on a record s of what it changes; s.ok  *)
(* becomes false when the assertion of adjust_witness_vote() fails.        *)

Portion(r, n) == (n * r.percent) \div Whole

(* A route that deposits shares: they change hands and stay shares. *)
PayShares(s, r, n) ==
  LET t == AdjustOwn(proxy, voted, s.tally, r.to, n)
  IN  IF n = 0 THEN s
      ELSE [s EXCEPT !.vesting[r.to] = @ + n, !.tally = t,
                     !.ok = @ /\ WithinTotal(t, Reached(proxy, voted, r.to), s.total)]

(* n shares are paid out to a in tokens. *)
PayLiquid(s, a, n) ==
  LET m == LiquidFor(s.fund, s.total, n)
  IN  [s EXCEPT !.liquid[a] = @ + m, !.fund = @ - m, !.total = @ - n]

(* What is due: the rate, and at the end what is left over. *)
Due(s, a) ==
  LET w == s.withdraw[a]
  IN  Min({s.vesting[a], IF w.to - w.done < w.rate THEN w.to % w.rate ELSE w.rate})

ByReceiver(rs) == SetToSortSeq(rs, LAMBDA q, r : q.to < r.to)

(* process_vesting_withdrawals() for account a: first the routes that      *)
(* deposit shares, then those that pay, then what is left is paid to the   *)
(* account itself.                                                         *)
PayOut(s, a) ==
  LET n     == Due(s, a)
      rs    == RoutesFrom(routes, a)
      kept  == FoldLeft(LAMBDA x, r : PayShares(x, r, Portion(r, n)), s,
                        ByReceiver({r \in rs : r.vest}))
      paid  == FoldLeft(LAMBDA x, r : PayLiquid(x, r.to, Portion(r, n)), kept,
                        ByReceiver({r \in rs : ~r.vest}))
      last  == PayLiquid(paid, a, n - SumOf(rs, LAMBDA r : Portion(r, n)))
      w     == [s.withdraw[a] EXCEPT !.done = @ + n]
      over  == w.done >= w.to \/ last.vesting[a] - n = 0
      t     == AdjustOwn(proxy, voted, last.tally, a, -n)
  IN  [last EXCEPT
         !.vesting[a] = @ - n,
         !.tally = t,
         !.ok = @ /\ WithinTotal(t, Reached(proxy, voted, a), last.total),
         !.withdraw[a] = IF over THEN [w EXCEPT !.rate = 0, !.next = Never]
                                 ELSE [w EXCEPT !.next = @ + IntervalLength]]

(* The accounts with a payment due at time t, in the order of the index. *)
DueAccounts(t) ==
  SetToSortSeq({a \in Account : withdraw[a].next <= t},
               LAMBDA a, b : \/ withdraw[a].next < withdraw[b].next
                             \/ withdraw[a].next = withdraw[b].next /\ a < b)

Paid(t) ==
  FoldLeft(PayOut,
           [vesting |-> vesting, total |-> total, fund |-> fund, liquid |-> liquid,
            tally |-> tally, withdraw |-> withdraw, ok |-> TRUE],
           DueAccounts(t))

(* Mutant: what was proxied to the account is not taken away with it. *)
SilenceOwn(b, a, s) ==
  [tally |-> AdjustOwn(b.proxy, b.voted, b.tally, a, -s.vesting[a]),
   proxy |-> [b.proxy EXCEPT ![a] = Self],
   voted |-> [b.voted EXCEPT ![a] = {}],
   canVote |-> [b.canVote EXCEPT ![a] = FALSE]]

(* process_decline_voting_rights() for account a: the votes it stands for  *)
(* are taken away, and its own votes and its proxy are cleared.            *)
Silence(b, a, s) ==
  [tally |-> Adjust(b.proxy, b.voted, b.tally, a,
                    [i \in 0 .. MaxProxyDepth |->
                       IF i = 0 THEN -s.vesting[a] ELSE -b.tally.proxied[a][i]]),
   proxy |-> [b.proxy EXCEPT ![a] = Self],
   voted |-> [b.voted EXCEPT ![a] = {}],
   canVote |-> [b.canVote EXCEPT ![a] = FALSE]]

(* The requests in force at time t, in the order of their dates. *)
Declined(t) ==
  SetToSortSeq({q \in declines : q.at <= t},
               LAMBDA q, r : \/ q.at < r.at
                             \/ q.at = r.at /\ q.account < r.account)

Returned(t) == SelectSeq(returns, LAMBDA e : e.at < t)

(* clear_expired_delegations(), process_vesting_withdrawals() and          *)
(* process_decline_voting_rights(), in this order.                         *)
Block ==
  /\ now < MaxTime /\ now' = now + 1
  /\ returns' = SelectSeq(returns, LAMBDA e : e.at >= now')
  /\ delegated' = FoldLeft(LAMBDA f, e : [f EXCEPT ![e.to] = @ - e.shares],
                           delegated, Returned(now'))
  /\ \E s \in {Paid(now')} :
       \E b \in {FoldLeft(LAMBDA x, q : Silence(x, q.account, s),
                          [tally |-> s.tally, proxy |-> proxy, voted |-> voted,
                           canVote |-> canVote],
                          Declined(now'))} :
         /\ s.ok
         /\ vesting' = s.vesting /\ total' = s.total /\ fund' = s.fund
         /\ liquid' = s.liquid /\ withdraw' = s.withdraw
         /\ tally' = b.tally /\ proxy' = b.proxy /\ voted' = b.voted
         /\ canVote' = b.canVote
  /\ declines' = {q \in declines : q.at > now'}
  /\ UNCHANGED <<routes, delegations, received, rewards, ops>>

Next ==
  \/ \E t \in VestTerms : TransferToVesting(t)
  \/ \E t \in RewardTerms : Reward(t)
  \/ \E a \in Account : \E n \in {1, reward[a].shares} : ClaimReward(a, n)
  \/ \E t \in PowerDowns : WithdrawVesting(t.account, t.shares)
  \/ \E t \in RouteTerms : SetRoute(t)
  \/ \E t \in DelegationTerms : Delegate(t)
  \/ \E d \in delegations : \E t \in DelegationTerms : Undelegate(d, t)
  \/ \E a \in Account : DeclineVoting(a)
  \/ \E q \in declines : KeepVoting(q)
  \/ Vote
  \/ Block

Spec == Init /\ [][Next]_vars

------------------------------------------------------------------------------
(* Properties. *)

(* What validate_invariants() asserts of stakes: the shares are those of   *)
(* the accounts, every share is counted in exactly one place as a vote,    *)
(* rewards are backed by what is set aside for them, no token is created   *)
(* or lost, and no witness has more votes than there are shares.           *)
StakeBalanced ==
  /\ total + pending.shares =
       SumOf(Account, LAMBDA a : vesting[a] + reward[a].shares)
  /\ total = SumOf(Account, LAMBDA a : IF proxy[a] = Self THEN VoteWeight(a)
                                       ELSE tally.proxied[a][MaxProxyDepth])
  /\ pending.liquid = SumOf(Account, LAMBDA a : reward[a].liquid)
  /\ fund + pending.liquid + rewardFund + SumOf(Account, LAMBDA a : liquid[a]) =
       FirstFund + RewardFund + SumOf(Account, LAMBDA a : FirstLiquid[a])
  /\ \A w \in Witness : tally.votes[w] <= total

(* A stake covers what is lent, what is on its way back and what the       *)
(* withdrawal under way has yet to take, which never is more than was      *)
(* asked for; and a withdrawal is under way as long as something is left   *)
(* to take.                                                                *)
StakeReserved ==
  \A a \in Account :
    LET w == withdraw[a] IN
      /\ vesting[a] >= delegated[a] + w.to - w.done
      /\ w.done <= w.to
      /\ w.rate = 0 <=> w.done = w.to
      /\ w.rate = 0 <=> w.next = Never

(* The two balances of an account that three functions keep by hand are    *)
(* what its delegations, and the returns under way, add up to.             *)
DelegationsCounted ==
  \A a \in Account :
    /\ delegated[a] = SumOf({d \in delegations : d.from = a}, LAMBDA d : d.shares)
                      + FoldLeft(LAMBDA n, e : IF e.to = a THEN n + e.shares ELSE n,
                                 0, returns)
    /\ received[a] = SumOf({d \in delegations : d.to = a}, LAMBDA d : d.shares)

(* Nothing outstays its time, and the routes of an account never give away *)
(* more than there is, which process_vesting_withdrawals() relies on.      *)
StakeOnTime ==
  /\ \A a \in Account :
       /\ withdraw[a].next > now
       /\ SumOf(RoutesFrom(routes, a), LAMBDA r : r.percent) <= Whole
  /\ \A i \in DOMAIN returns : returns[i].at >= now
  /\ \A q \in declines : q.at > now

(* The shares of a withdrawal count twice for a moment: for the receiver,  *)
(* who is credited first, and for the sender.  That makes the assertion of *)
(* adjust_witness_vote(), and with it the block, fail only where a witness *)
(* lacks no more than the payments due to have the votes of all shares.    *)
BlocksApply ==
  now < MaxTime /\ ~Paid(now + 1).ok =>
    \E w \in Witness :
      tally.votes[w] + SumOf({a \in Account : withdraw[a].next <= now + 1},
                             LAMBDA a : withdraw[a].rate) > total

(* Stakes are all there, cover what was promised of them, and what is      *)
(* under way moves when it is due.                                         *)
StakeSound ==
  /\ TypeOK
  /\ StakeBalanced
  /\ StakeReserved
  /\ DelegationsCounted
  /\ StakeOnTime
  /\ BlocksApply

(* A share is never worth less than before: deposits, withdrawals along    *)
(* any routes and rewards round in favour of those who stay.  Only a       *)
(* claim, which brings in shares at the price of its reward, may lower it. *)
ShareKeepsWorth ==
  [][pending'.shares >= pending.shares /\ total > 0 /\ total' > 0
       => fund' * total >= fund * total']_vars
==============================================================================
