------------------------------- MODULE Ledger --------------------------------
(***************************************************************************)
(* Where the two liquid assets are: balances, savings, limit orders,       *)
(* escrows, savings withdrawals and conversions, the operations that move  *)
(* them and what the end of a block does with the objects that are due.    *)
(* New tokens and what posts earn come in with module Rewards.             *)
(*                                                                         *)
(* There is a price feed from the beginning: dollars only come into being  *)
(* with one, and it never goes away again.                                 *)
(***************************************************************************)
EXTENDS Market, Rewards

CONSTANTS
  Start,            \* Start[a][s]: the balances at the beginning
  TransferTerms,    \* transfers: from, to, asset, amount
  DepositTerms,     \* transfers to savings: the same
  WithdrawalTerms,  \* transfers from savings: the same and id
  ConversionTerms,  \* conversions: owner, id, amount
  EscrowTerms,      \* escrow transfers: from, id, to, agent, funds (by
                    \* asset), fee, feeAsset, ratify, expire
  Feeds,            \* price feeds: quote of liquid for base of dollars
  SavingsTime,      \* ZATTERA_SAVINGS_WITHDRAW_TIME
  RequestLimit,     \* ZATTERA_SAVINGS_WITHDRAW_REQUEST_LIMIT
  ConversionDelay,  \* ZATTERA_CONVERSION_DELAY
  MaxTime,          \* bound: blocks
  MaxOps            \* bound: operations

(* The validate() functions of the operations. *)
ASSUME LedgerAssumption ==
  /\ Null \in Account /\ Start \in [Account -> [Asset -> Nat]]
  /\ \A t \in TransferTerms \cup DepositTerms \cup WithdrawalTerms :
       {t.from, t.to} \subseteq Account /\ t.asset \in Asset /\ t.amount \in Nat \ {0}
  /\ \A t \in ConversionTerms : t.owner \in Account /\ t.amount \in Nat \ {0}
  /\ \A t \in EscrowTerms :
       /\ {t.from, t.to, t.agent} \subseteq Account /\ t.agent \notin {t.from, t.to}
       /\ t.funds \in [Asset -> Nat] /\ \E s \in Asset : t.funds[s] > 0
       /\ t.fee \in Nat /\ t.feeAsset \in Asset /\ t.ratify < t.expire
  /\ \A f \in Feeds : f.base \in Nat \ {0} /\ f.quote \in Nat \ {0}
  /\ {SavingsTime, RequestLimit, ConversionDelay, MaxTime, MaxOps} \subseteq Nat \ {0}

VARIABLES
  savings,      \* savings[a][s]: the savings balances
  requests,     \* requests[a]: savings_withdraw_requests
  withdrawals,  \* the savings_withdraw_objects: their terms and when
                \* they are complete
  conversions,  \* the convert_request_objects: their terms and their date
  escrows,      \* the escrow_objects: terms, funds, fee, to_approved,
                \* agent_approved and disputed
  supply,       \* supply[s]: current_liquid_supply, current_dollar_supply
  feed,         \* current_median_history
  ops           \* operations so far

vars == <<now, balance, book, closed, savings, requests, withdrawals, conversions,
          escrows, supply, feed, ops, rewardVars>>

objects == <<withdrawals, conversions, escrows>>

TypeOK ==
  /\ MarketTypeOK /\ RewardsTypeOK
  /\ now \in 0 .. MaxTime /\ ops \in 0 .. MaxOps
  /\ savings \in [Account -> [Asset -> Nat]]
  /\ requests \in [Account -> 0 .. RequestLimit]
  /\ withdrawals \subseteq [terms : WithdrawalTerms, complete : Nat]
  /\ conversions \subseteq [terms : ConversionTerms, date : Nat]
  /\ escrows \subseteq [terms : EscrowTerms, funds : [Asset -> Nat], fee : Nat,
                        toOK : BOOLEAN, agentOK : BOOLEAN, disputed : BOOLEAN]
  /\ supply \in [Asset -> Nat]
  /\ feed \in Feeds

Sum(b, s) == MapThenSumSet(LAMBDA a : b[a][s], Account)

Init ==
  /\ now = 0 /\ ops = 0
  /\ balance = Start
  /\ book = <<>> /\ closed = {}
  /\ RewardsInit
  /\ savings = [a \in Account |-> [s \in Asset |-> 0]]
  /\ requests = [a \in Account |-> 0]
  /\ withdrawals = {} /\ conversions = {} /\ escrows = {}
  /\ supply = [s \in Asset |-> Sum(Start, s) + (IF s = "liquid" THEN FirstFund ELSE 0)]
  /\ feed \in Feeds

------------------------------------------------------------------------------
(* Operations. *)

Op == ops < MaxOps /\ ops' = ops + 1

(* What every operation but those of the market leaves alone. *)
Elsewhere == UNCHANGED <<now, book, supply, feed, rewardVars>> /\ closed' = {}

(* What the operations of the market and those of the rewards leave alone. *)
Holdings == <<now, savings, requests, objects, supply, feed>>

Order(t) == Op /\ CreateOrder(t) /\ UNCHANGED <<Holdings, rewardVars>>

Cancel(i) == Op /\ CancelOrder(i) /\ UNCHANGED <<Holdings, rewardVars>>

Transfer(t) ==
  /\ Op
  /\ balance[t.from][t.asset] >= t.amount
  /\ balance' = Credit(Credit(balance, t.from, t.asset, -t.amount), t.to, t.asset, t.amount)
  /\ Elsewhere /\ UNCHANGED <<savings, requests, objects>>

TransferToSavings(t) ==
  /\ Op
  /\ balance[t.from][t.asset] >= t.amount
  /\ balance' = Credit(balance, t.from, t.asset, -t.amount)
  /\ savings' = Credit(savings, t.to, t.asset, t.amount)
  /\ Elsewhere /\ UNCHANGED <<requests, objects>>

TransferFromSavings(t) ==
  /\ Op
  /\ requests[t.from] < RequestLimit
  /\ savings[t.from][t.asset] >= t.amount
  /\ \A w \in withdrawals : <<w.terms.from, w.terms.id>> # <<t.from, t.id>>
  /\ savings' = Credit(savings, t.from, t.asset, -t.amount)
  /\ withdrawals' = withdrawals \cup {[terms |-> t, complete |-> now + SavingsTime]}
  /\ requests' = [requests EXCEPT ![t.from] = @ + 1]
  /\ Elsewhere /\ UNCHANGED <<balance, conversions, escrows>>

CancelTransferFromSavings(w) ==
  /\ Op
  /\ savings' = Credit(savings, w.terms.from, w.terms.asset, w.terms.amount)
  /\ withdrawals' = withdrawals \ {w}
  /\ requests' = [requests EXCEPT ![w.terms.from] = @ - 1]
  /\ Elsewhere /\ UNCHANGED <<balance, conversions, escrows>>

Convert(t) ==
  /\ Op
  /\ balance[t.owner]["dollar"] >= t.amount
  /\ \A c \in conversions : <<c.terms.owner, c.terms.id>> # <<t.owner, t.id>>
  /\ balance' = Credit(balance, t.owner, "dollar", -t.amount)
  /\ conversions' = conversions \cup {[terms |-> t, date |-> now + ConversionDelay]}
  /\ Elsewhere /\ UNCHANGED <<savings, requests, withdrawals, escrows>>

------------------------------------------------------------------------------
(* Escrow. *)

(* The funds and the fee of an escrow, together. *)
Held(e, s) == e.funds[s] + (IF e.terms.feeAsset = s THEN e.fee ELSE 0)

Approved(e) == e.toOK /\ e.agentOK

CreditAll(b, a, e) == [b EXCEPT ![a] = [s \in Asset |-> @[s] + Held(e, s)]]

EscrowTransfer(t) ==
  /\ Op
  /\ t.ratify > now /\ t.expire > now
  /\ \A e \in escrows : <<e.terms.from, e.terms.id>> # <<t.from, t.id>>
  /\ \E e \in {[terms |-> t, funds |-> t.funds, fee |-> t.fee,
                toOK |-> FALSE, agentOK |-> FALSE, disputed |-> FALSE]} :
       /\ \A s \in Asset : balance[t.from][s] >= Held(e, s)
       /\ balance' = [balance EXCEPT ![t.from] = [s \in Asset |-> @[s] - Held(e, s)]]
       /\ escrows' = escrows \cup {e}
  /\ Elsewhere /\ UNCHANGED <<savings, requests, withdrawals, conversions>>

(* The agent is paid when the second of the two approves. *)
Approve(e, f) ==
  /\ Op
  /\ e.terms.ratify >= now
  /\ f \in {[e EXCEPT !.toOK = TRUE], [e EXCEPT !.agentOK = TRUE]} \ {e}
  /\ IF Approved(f)
     THEN /\ balance' = Credit(balance, e.terms.agent, e.terms.feeAsset, e.fee)
          /\ escrows' = (escrows \ {e}) \cup {[f EXCEPT !.fee = 0]}
     ELSE /\ balance' = balance
          /\ escrows' = (escrows \ {e}) \cup {f}
  /\ Elsewhere /\ UNCHANGED <<savings, requests, withdrawals, conversions>>

(* Mutant: a rejected escrow goes to the receiver. *)
RejectPays(e) ==
  /\ Op
  /\ e.terms.ratify >= now
  /\ ~Approved(e)
  /\ balance' = CreditAll(balance, e.terms.to, e)
  /\ escrows' = escrows \ {e}
  /\ Elsewhere /\ UNCHANGED <<savings, requests, withdrawals, conversions>>

(* Whoever has not approved yet may reject. *)
Reject(e) ==
  /\ Op
  /\ e.terms.ratify >= now
  /\ ~Approved(e)
  /\ balance' = CreditAll(balance, e.terms.from, e)
  /\ escrows' = escrows \ {e}
  /\ Elsewhere /\ UNCHANGED <<savings, requests, withdrawals, conversions>>

Dispute(e) ==
  /\ Op
  /\ now < e.terms.expire
  /\ Approved(e) /\ ~e.disputed
  /\ escrows' = (escrows \ {e}) \cup {[e EXCEPT !.disputed = TRUE]}
  /\ Elsewhere /\ UNCHANGED <<balance, savings, requests, withdrawals, conversions>>

(* Whether who may release funds of e to the receiver. *)
MayRelease(e, who, receiver) ==
  /\ Approved(e)
  /\ IF e.disputed THEN who = e.terms.agent
     ELSE /\ who \in {e.terms.from, e.terms.to}
          /\ e.terms.expire > now =>
               /\ who = e.terms.from => receiver = e.terms.to
               /\ who # e.terms.from => receiver = e.terms.from

Release(e, who, receiver, amount) ==
  /\ Op
  /\ MayRelease(e, who, receiver)
  /\ balance' = [balance EXCEPT ![receiver] = [s \in Asset |-> @[s] + amount[s]]]
  /\ \E f \in {[e EXCEPT !.funds = [s \in Asset |-> @[s] - amount[s]]]} :
       escrows' = (escrows \ {e}) \cup (IF \A s \in Asset : f.funds[s] = 0 THEN {} ELSE {f})
  /\ Elsewhere /\ UNCHANGED <<savings, requests, withdrawals, conversions>>

(* The amounts that a release may name. *)
Part(e) == {m \in [Asset -> 0 .. Max({e.funds[s] : s \in Asset})] :
              /\ \A s \in Asset : m[s] <= e.funds[s]
              /\ \E s \in Asset : m[s] > 0}

------------------------------------------------------------------------------
(* The end of a block. *)

(* The withdrawals, conversions and unapproved escrows that are due at     *)
(* time t.                                                                 *)
Withdrawn(t) == {w \in withdrawals : w.complete <= t}
Converted(t) == {c \in conversions : c.date <= t}
Returned(t) == {e \in escrows : ~Approved(e) /\ e.terms.ratify <= t}

(* Credits the accounts of a set of objects: Who(x) receives Amount(x, s). *)
PayAll(b, S, Who(_), Amount(_, _)) ==
  [a \in Account |-> [s \in Asset |->
     b[a][s] + MapThenSumSet(LAMBDA x : Amount(x, s), {x \in S : Who(x) = a})]]

(* asset * price with the feed. *)
Issued(f, c) == (c.terms.amount * f.quote) \div f.base

(* clear_expired_orders(), update_median_feed(), update_virtual_supply(),  *)
(* clear_null_account_balance(), process_funds(), process_conversions(),   *)
(* process_comment_cashout(), process_savings_withdraws() and              *)
(* expire_escrow_ratification(), in this order, when the head is a block   *)
(* of witness w at time t.                                                 *)
EndOfBlock(t, f, w) ==
  LET cleared == Refund(balance, Expired(t))
      left    == [s \in Asset |-> supply[s] - cleared[Null][s] - savings[Null][s]]
      earned  == RewardsOfBlock(t, f, w, left, PrintRate(supply, f))
      after1  == [cleared EXCEPT ![Null] = [s \in Asset |-> 0]]
      after2  == PayAll(after1, Converted(t), LAMBDA c : c.terms.owner,
                        LAMBDA c, s : IF s = "liquid" THEN Issued(f, c) ELSE 0)
      after3  == PayAll(after2, Withdrawn(t), LAMBDA x : x.terms.to,
                        LAMBDA x, s : IF s = x.terms.asset THEN x.terms.amount ELSE 0)
  IN  /\ balance' = PayAll(after3, Returned(t), LAMBDA e : e.terms.from, Held)
      /\ book' = Unexpired(t)
      /\ savings' = [savings EXCEPT ![Null] = [s \in Asset |-> 0]]
      /\ supply' = [liquid |-> left["liquid"] + earned.issued["liquid"]
                               + MapThenSumSet(LAMBDA c : Issued(f, c), Converted(t)),
                    dollar |-> left["dollar"] + earned.issued["dollar"]
                               - MapThenSumSet(LAMBDA c : c.terms.amount, Converted(t))]
      /\ conversions' = conversions \ Converted(t)
      /\ withdrawals' = withdrawals \ Withdrawn(t)
      /\ requests' = [a \in Account |->
                        requests[a] - Cardinality({x \in Withdrawn(t) : x.terms.from = a})]
      /\ escrows' = escrows \ Returned(t)
      /\ vests' = earned.vests /\ rewards' = earned.rewards
      /\ pool' = earned.pool /\ content' = earned.content
      /\ AfterCashout(t) /\ UNCHANGED <<power, posted>>

Block ==
  /\ now < MaxTime /\ now' = now + 1
  /\ feed' \in Feeds
  /\ \E w \in Producers : EndOfBlock(now + 1, feed', w)
  /\ closed' = {}
  /\ UNCHANGED ops

(* The operations of module Rewards. *)
ContentOperation ==
  /\ Op
  /\ \/ \E p \in Post : Comment(p)
     \/ \E p \in DOMAIN comments : DeleteComment(p)
     \/ \E p \in DOMAIN comments, t \in OptionTerms : CommentOptions(p, t)
     \/ \E a \in Account, p \in DOMAIN comments, w \in VoteWeights : Vote(a, p, w)
     \/ \E v \in DOMAIN votes, w \in VoteWeights : ChangeVote(v[1], v[2], w)
     \/ \E a \in Account \ {Null} : ClaimAny(a)
  /\ UNCHANGED <<Holdings, book>> /\ closed' = {}

MoneyOperation ==
  \/ \E t \in OrderTerms : Order(t)
  \/ \E i \in DOMAIN book : Cancel(i)
  \/ \E t \in TransferTerms : Transfer(t)
  \/ \E t \in DepositTerms : TransferToSavings(t)
  \/ \E t \in WithdrawalTerms : TransferFromSavings(t)
  \/ \E w \in withdrawals : CancelTransferFromSavings(w)
  \/ \E t \in ConversionTerms : Convert(t)
  \/ \E t \in EscrowTerms : EscrowTransfer(t)
  \/ \E e \in escrows : \E f \in {[e EXCEPT !.toOK = TRUE], [e EXCEPT !.agentOK = TRUE]} :
       Approve(e, f)
  \/ \E e \in escrows : Reject(e)
  \/ \E e \in escrows : Dispute(e)
  \/ \E e \in escrows : \E who \in Account, receiver \in {e.terms.from, e.terms.to} :
       \E m \in Part(e) : Release(e, who, receiver, m)

Next == MoneyOperation \/ ContentOperation \/ Block

Spec == Init /\ [][Next]_vars

------------------------------------------------------------------------------
(* Properties. *)

(* What validate_invariants() asserts of the two liquid assets: the supply *)
(* is what is in balances, savings, orders, withdrawals, conversions,      *)
(* escrows, rewards and funds, whatever was issued, rounded, burnt,        *)
(* cancelled or returned on the way.                                       *)
SupplyConserved ==
  \A s \in Asset :
    supply[s] = Sum(balance, s) + Sum(savings, s)
                + FoldLeft(LAMBDA n, o : n + (IF o.terms.sells = s THEN o.rest ELSE 0), 0, book)
                + MapThenSumSet(LAMBDA w : IF w.terms.asset = s THEN w.terms.amount ELSE 0,
                                withdrawals)
                + MapThenSumSet(LAMBDA c : IF s = "dollar" THEN c.terms.amount ELSE 0,
                                conversions)
                + MapThenSumSet(LAMBDA e : Held(e, s), escrows)
                + MapThenSumSet(LAMBDA a : rewards[a][s], Account)
                + (IF s = "liquid" THEN pool.fund + pool.backing + content.balance ELSE 0)

(* savings_withdraw_requests, which three functions keep by hand, is the   *)
(* number of an account's withdrawals: an account below the limit can ask  *)
(* for one.                                                                *)
RequestsCounted ==
  \A a \in Account :
    requests[a] = Cardinality({w \in withdrawals : w.terms.from = a})

(* The agent's fee is held until both have approved and is paid once; an   *)
(* escrow in dispute is approved, and none is kept without funds.          *)
FeeUntilApproved ==
  \A e \in escrows :
    /\ e.fee = IF Approved(e) THEN 0 ELSE e.terms.fee
    /\ e.disputed => Approved(e)
    /\ ~Approved(e) => e.funds = e.terms.funds
    /\ \E s \in Asset : e.funds[s] > 0

(* Nothing outstays its time: after the block at which it is due, no       *)
(* withdrawal, conversion, unapproved escrow or expired order is left.     *)
NothingOverdue ==
  /\ \A w \in withdrawals : w.complete > now
  /\ \A c \in conversions : c.date > now
  /\ \A e \in escrows : Approved(e) \/ e.terms.ratify > now
  /\ \A i \in DOMAIN book : book[i].terms.expire >= now

(* What the evaluators count by hand, several of them each, is the number  *)
(* or the sum of the objects it counts.                                    *)
CountersAgree ==
  /\ TypeOK
  /\ RequestsCounted
  /\ PendingCounted
  /\ TallyExact
  /\ ChildrenCounted

(* What is promised can be paid and is paid in time: fees and funds of     *)
(* escrows, whatever is due at a block, and the posts that share a fund.   *)
ObligationsMet ==
  /\ FeeUntilApproved
  /\ NothingOverdue
  /\ FundSuffices

(* The funds of an escrow go to one of the two parties and nobody else,    *)
(* and before the second approval only all of them back to the payer.      *)
EscrowToParties ==
  [][now' = now =>
       \A e \in escrows : \A s \in Asset :
         LET left == {f \in escrows' : f.terms = e.terms}
             out  == Held(e, s) - MapThenSumSet(LAMBDA f : Held(f, s), left)
             gain(a) == balance'[a][s] - balance[a][s]
         IN  out > 0 =>
               \/ ~Approved(e) /\ left = {} /\ gain(e.terms.from) = out
               \/ ~Approved(e) /\ left # {} /\ gain(e.terms.agent) = e.terms.fee
               \/ Approved(e) /\ \E a \in {e.terms.from, e.terms.to} : gain(a) = out
    ]_vars

==============================================================================
