------------------------------ MODULE Rewards --------------------------------
(***************************************************************************)
(* Posts, votes and what they earn (the comment, vote and claim evaluators,*)
(* process_funds(), process_comment_cashout() and what these call in       *)
(* database.cpp and utils/reward.cpp).  New tokens go into a reward fund,  *)
(* into the vesting fund and to the witness of the block.  The fund is     *)
(* shared out among the posts whose voting is over; what they earn waits   *)
(* as reward balances until it is claimed.                                 *)
(*                                                                         *)
(* Posts are identified by author and permlink, and where a post belongs   *)
(* never changes: an edit changes the text only and so nothing here.       *)
(* Counts that no rule looks at (net_votes, children_abs_rshares, post and *)
(* reward totals) are left out.  The fund has the curves of the genesis:   *)
(* linear for authors, square root for curators.  Votes are cleared after  *)
(* the payout (CLEAR_VOTES, the default), so a later vote changes nothing. *)
(* Delegations, declined voting rights and the witness votes that follow   *)
(* the shares are in Stake.                                                *)
(***************************************************************************)
EXTENDS Accounts, Sequences, FiniteSets, FiniteSetsExt, SequencesExt

CONSTANTS
  Post, Author, Parent,  \* posts, their authors, what they reply to
  Top,                   \* the parent of a post that is no reply
  AccountRank,           \* the order of account ids and names
  VoteWeights,           \* the weights that are voted with
  OptionTerms,           \* comment options: cap (max_accepted_payout),
                         \* dollars (percent), votes, curation (allowed or
                         \* not) and beneficiaries, records of to, weight
  Producers,             \* witnesses: owner and weight, its kind's pay weight
  FirstPosts,            \* the posts at the beginning, one at most
  FirstVests,            \* the vesting shares at the beginning
  FirstFund,             \* total_vesting_fund_liquid at the beginning
  Reward                 \* the constants of config.hpp, a record

(* ZATTERA_100_PERCENT; the other percentages are parts of it. *)
Whole == Reward.whole

ASSUME RewardsAssumption ==
  /\ IsFiniteSet(Post) /\ Author \in [Post -> Account]
  /\ Parent \in [Post -> Post \cup {Top}] /\ Top \notin Post
  /\ FirstPosts \subseteq {p \in Post : Parent[p] = Top} /\ Cardinality(FirstPosts) <= 1
  /\ AccountRank \in [Account -> Nat]
  /\ \A a, b \in Account : AccountRank[a] = AccountRank[b] => a = b
  /\ VoteWeights \subseteq -Whole .. Whole
  /\ \A t \in OptionTerms :
       /\ t.cap \in Nat /\ t.dollars \in 0 .. Whole /\ {t.votes, t.curation} \subseteq BOOLEAN
       /\ \A i \in DOMAIN t.beneficiaries : t.beneficiaries[i].weight \in 0 .. Whole
       /\ FoldLeft(LAMBDA n, b : n + b.weight, 0, t.beneficiaries) <= Whole
  /\ \A w \in Producers : w.owner \in Account /\ w.weight \in Nat
  /\ FirstVests \in [Account -> Nat] /\ \E a \in Account : FirstVests[a] > 0
  /\ FirstFund \in Nat \ {0}
  /\ Reward.content + Reward.vesting <= Whole /\ Reward.curation <= Whole
  /\ Reward.regeneration * Reward.reserve > 0

VARIABLES
  comments,  \* the comment_objects, a function from posts
  votes,     \* the comment_vote_objects, a function from voters and posts
  power,     \* power[a]: voting_power and last_vote_time
  posted,    \* posted[a]: last_root_post and last_post
  vests,     \* vests[a]: vesting_share_balance
  rewards,   \* rewards[a]: the four reward balances: liquid, dollar, shares
             \* (reward_vesting_share_balance) and backing
             \* (reward_vesting_liquid_balance)
  pool,      \* total_vesting_fund_liquid and total_vesting_shares, and the
             \* two totals of pending rewarded vesting
  content    \* the reward_fund_object: reward_balance and recent_claims

rewardVars == <<comments, votes, power, posted, vests, rewards, pool, content>>

Never == -1  \* time_point_sec::maximum() as a cashout time

Paid(c) == c.cashout = Never

RewardsTypeOK ==
  /\ DOMAIN comments \subseteq Post
  /\ DOMAIN votes \subseteq Account \X DOMAIN comments
  /\ power \in [Account -> [left : 0 .. Whole, last : Int]]
  /\ vests \in [Account -> Nat]
  /\ rewards \in [Account -> [liquid : Nat, dollar : Nat, shares : Nat, backing : Nat]]
  /\ pool \in [fund : Nat, shares : Nat, backing : Nat, pending : Nat]
  /\ content.recent \in Nat

Total(f) == MapThenSumSet(LAMBDA x : f[x], DOMAIN f)

(* A post as it is created. *)
NewComment(id) ==
  [id |-> id, created |-> now, cashout |-> now + Reward.window, children |-> 0,
   net |-> 0, abs |-> 0, up |-> 0, weight |-> 0, cap |-> Reward.cap,
   dollars |-> Whole, votes |-> TRUE, curation |-> TRUE, beneficiaries |-> <<>>]

NextId == 1 + Max({comments[q].id : q \in DOMAIN comments} \cup {0})

RewardsInit ==
  /\ comments = [p \in FirstPosts |-> NewComment(1)] /\ votes = <<>>
  /\ power = [a \in Account |-> [left |-> Whole, last |-> -Reward.voteInterval]]
  /\ posted = [a \in Account |-> IF \E p \in FirstPosts : Author[p] = a
                                 THEN [root |-> 0, reply |-> 0]
                                 ELSE [root |-> -Reward.rootInterval - 1,
                                       reply |-> -Reward.replyInterval]]
  /\ vests = FirstVests
  /\ rewards = [a \in Account |-> [liquid |-> 0, dollar |-> 0, shares |-> 0, backing |-> 0]]
  /\ pool = [fund |-> FirstFund, shares |-> Total(FirstVests), backing |-> 0, pending |-> 0]
  /\ content = [balance |-> 0, recent |-> 0]

Without(f, S) == [x \in DOMAIN f \ S |-> f[x]]
With(f, x, y) == [z \in DOMAIN f \cup {x} |-> IF z = x THEN y ELSE f[z]]

------------------------------------------------------------------------------
(* Posts. *)

Ancestors[p \in Post] ==
  IF Parent[p] = Top THEN {} ELSE {Parent[p]} \cup Ancestors[Parent[p]]

(* Adds n to the children of all posts above p. *)
Count(cs, p, n) ==
  [q \in DOMAIN cs |-> IF q \in Ancestors[p] THEN [cs[q] EXCEPT !.children = @ + n] ELSE cs[q]]

(* The comment evaluator for a new post.  An id is larger than those of    *)
(* the older posts that are left, which is all that ids are for here.      *)
Comment(p) ==
  LET a == Author[p]
  IN  /\ p \notin DOMAIN comments
      /\ IF Parent[p] = Top
         THEN /\ now - posted[a].root > Reward.rootInterval
              /\ posted' = [posted EXCEPT ![a] = [root |-> now, reply |-> now]]
         ELSE /\ Parent[p] \in DOMAIN comments
              /\ Cardinality(Ancestors[Parent[p]]) < Reward.depth
              /\ now - posted[a].reply >= Reward.replyInterval
              /\ posted' = [posted EXCEPT ![a].reply = now]
      /\ comments' = Count(With(comments, p, NewComment(NextId)), p, 1)
      /\ UNCHANGED <<votes, power, vests, rewards, pool, content, balance>>

(* The delete_comment evaluator. *)
DeleteComment(p) ==
  /\ comments[p].children = 0 /\ ~Paid(comments[p]) /\ comments[p].net <= 0
  /\ comments' = Count(Without(comments, {p}), p, -1)
  /\ votes' = Without(votes, {v \in DOMAIN votes : v[2] = p})
  /\ UNCHANGED <<power, posted, vests, rewards, pool, content, balance>>

(* The comment_options evaluator: options can only be given up, and most   *)
(* of them only before there are votes.                                    *)
CommentOptions(p, t) ==
  LET c == comments[p]
  IN  /\ (~t.curation \/ ~t.votes \/ t.cap < c.cap \/ t.beneficiaries # <<>>) => c.abs = 0
      /\ t.curation => c.curation
      /\ t.votes => c.votes
      /\ t.cap <= c.cap /\ t.dollars <= c.dollars
      /\ t.beneficiaries # <<>> => c.beneficiaries = <<>>
      /\ comments' = [comments EXCEPT ![p] =
                        [@ EXCEPT !.cap = t.cap, !.dollars = t.dollars, !.votes = t.votes,
                                  !.curation = t.curation,
                                  !.beneficiaries = @ \o t.beneficiaries]]
      /\ UNCHANGED <<votes, power, posted, vests, rewards, pool, content, balance>>

------------------------------------------------------------------------------
(* Votes. *)

(* approx_sqrt(): the highest bit and half of the bits below it. *)
ApproxSqrt(x) ==
  IF x = 0 THEN 0
  ELSE LET m == CHOOSE k \in 0 .. 30 : 2 ^ k <= x /\ x < 2 ^ (k + 1)
           z == m \div 2
       IN  2 ^ z + ((IF m % 2 = 1 THEN 2 ^ z ELSE 0) + (x - 2 ^ m) \div 2 ^ (m - z)) \div 2

Abs(n) == IF n < 0 THEN -n ELSE n

(* The voting power of a now, and what a vote of weight w uses up of it.   *)
CurrentPower(a) ==
  Min({power[a].left + (Whole * (now - power[a].last)) \div Reward.regeneration, Whole})

UsedPower(a, w) ==
  LET limit == Reward.reserve * Reward.regeneration
  IN  (((CurrentPower(a) * Abs(w)) \div Whole) * Reward.day + limit - 1) \div limit

(* What such a vote counts. *)
AbsRshares(a, w) == Max({0, (vests[a] * UsedPower(a, w)) \div Whole - Reward.dust})

Rshares(a, w) == IF w < 0 THEN -AbsRshares(a, w) ELSE AbsRshares(a, w)

(* Increasing a payout is not allowed shortly before it is made. *)
BeforeLockout(c) == now < c.cashout - Reward.lockout

(* What a first vote and a changed one have in common. *)
CastVote(a, p, w) ==
  /\ ~Paid(comments[p])
  /\ w > 0 => comments[p].votes
  /\ vests[a] > Reward.minVests
  /\ now - power[a].last >= Reward.voteInterval
  /\ CurrentPower(a) > 0 /\ UsedPower(a, w) <= CurrentPower(a)
  /\ power' = [power EXCEPT ![a] = [left |-> CurrentPower(a) - UsedPower(a, w), last |-> now]]
  /\ UNCHANGED <<posted, vests, rewards, pool, content, balance>>

(* Mutant: the reverse auction is for the post and not for the voter. *)
VoteSwapped(a, p, w) ==
  LET c    == comments[p]
      r    == Rshares(a, w)
      up   == c.up + Max({r, 0})
      gain == IF r > 0 /\ c.curation /\ Reward.curation > 0
              THEN ApproxSqrt(up) - ApproxSqrt(c.up) ELSE 0
      late == Min({now - c.created, Reward.auction})
  IN  /\ <<a, p>> \notin DOMAIN votes
      /\ CastVote(a, p, w)
      /\ w # 0 /\ r # 0
      /\ r > 0 => BeforeLockout(c)
      /\ comments' = [comments EXCEPT ![p] =
                        [@ EXCEPT !.net = @ + r, !.abs = @ + Abs(r), !.up = up,
                                  !.weight = @ + (gain * late) \div Reward.auction]]
      /\ votes' = With(votes, <<a, p>>,
                       [rshares |-> r, percent |-> w, changes |-> 0,
                        weight |-> gain])

(* The first vote of a on p.  Its curation weight is what it adds to the   *)
(* square root of the positive votes; it counts in full for the post, and  *)
(* for the voter by how late it came in the reverse auction.               *)
Vote(a, p, w) ==
  LET c    == comments[p]
      r    == Rshares(a, w)
      up   == c.up + Max({r, 0})
      gain == IF r > 0 /\ c.curation /\ Reward.curation > 0
              THEN ApproxSqrt(up) - ApproxSqrt(c.up) ELSE 0
      late == Min({now - c.created, Reward.auction})
  IN  /\ <<a, p>> \notin DOMAIN votes
      /\ CastVote(a, p, w)
      /\ w # 0 /\ r # 0
      /\ r > 0 => BeforeLockout(c)
      /\ comments' = [comments EXCEPT ![p] =
                        [@ EXCEPT !.net = @ + r, !.abs = @ + Abs(r), !.up = up,
                                  !.weight = @ + gain]]
      /\ votes' = With(votes, <<a, p>>,
                       [rshares |-> r, percent |-> w, changes |-> 0,
                        weight |-> (gain * late) \div Reward.auction])

(* Mutant: any change may come at the last minute. *)
ChangeLate(a, p, w) ==
  LET v == votes[a, p]
      r == Rshares(a, w)
  IN  /\ v.changes < Reward.maxChanges /\ v.percent # w
      /\ CastVote(a, p, w)
      /\ comments' = [comments EXCEPT ![p] =
                        [@ EXCEPT !.net = @ - v.rshares + r, !.abs = @ + Abs(r),
                                  !.weight = @ - v.weight]]
      /\ votes' = [votes EXCEPT ![a, p] =
                     [rshares |-> r, percent |-> w, weight |-> 0, changes |-> @.changes + 1]]

(* A voter changes its mind and gives up its curation reward. *)
ChangeVote(a, p, w) ==
  LET c == comments[p]
      v == votes[a, p]
      r == Rshares(a, w)
  IN  /\ v.changes < Reward.maxChanges /\ v.percent # w
      /\ CastVote(a, p, w)
      /\ v.rshares < r => BeforeLockout(c)
      /\ comments' = [comments EXCEPT ![p] =
                        [@ EXCEPT !.net = @ - v.rshares + r, !.abs = @ + Abs(r),
                                  !.weight = @ - v.weight]]
      /\ votes' = [votes EXCEPT ![a, p] =
                     [rshares |-> r, percent |-> w, weight |-> 0, changes |-> @.changes + 1]]

------------------------------------------------------------------------------
(* Claims. *)

(* The claim_reward_balance evaluator.  With the shares goes the part of   *)
(* the liquid that backs them, all of it with the last ones.               *)
Claim(a, liquid, dollar, shares) ==
  LET r    == rewards[a]
      move == IF shares = r.shares THEN r.backing ELSE (shares * r.backing) \div r.shares
  IN  /\ liquid + dollar + shares > 0
      /\ balance' = [balance EXCEPT ![a] = [liquid |-> @["liquid"] + liquid,
                                            dollar |-> @["dollar"] + dollar]]
      /\ vests' = [vests EXCEPT ![a] = @ + shares]
      /\ rewards' = [rewards EXCEPT ![a] =
                       [liquid |-> @.liquid - liquid, dollar |-> @.dollar - dollar,
                        shares |-> @.shares - shares, backing |-> @.backing - move]]
      /\ pool' = [fund |-> pool.fund + move, shares |-> pool.shares + shares,
                  backing |-> pool.backing - move, pending |-> pool.pending - shares]
      /\ UNCHANGED <<comments, votes, power, posted, content>>

ClaimAny(a) ==
  LET r == rewards[a]
  IN  \E shares \in {r.shares \div 2, r.shares} : Claim(a, r.liquid, r.dollar, shares)

------------------------------------------------------------------------------
(* The end of a block works on a record s of vests, rewards, pool, content *)
(* and issued, by how much the two supplies have changed.                  *)

Issue(s, liquid, dollar) ==
  [s EXCEPT !.issued = [liquid |-> @["liquid"] + liquid, dollar |-> @["dollar"] + dollar]]

(* The rest of clear_null_account_balance(): shares and rewards of the     *)
(* null account.                                                           *)
BurnRewards(s) ==
  LET r     == s.rewards[Null]
      worth == IF s.vests[Null] > 0 THEN (s.vests[Null] * s.pool.fund) \div s.pool.shares ELSE 0
      back  == IF r.shares > 0 THEN r.backing ELSE 0
  IN  Issue([s EXCEPT !.vests[Null] = 0,
                      !.rewards[Null] = [liquid |-> 0, dollar |-> 0, shares |-> 0,
                                         backing |-> r.backing - back],
                      !.pool = [fund |-> @.fund - worth, shares |-> @.shares - s.vests[Null],
                                backing |-> @.backing - back, pending |-> @.pending - r.shares]],
            -(worth + r.liquid + back), -r.dollar)

(* create_vesting() for the witness, at the price of shares. *)
PayWitness(s, a, n) ==
  LET new == (n * s.pool.shares) \div s.pool.fund
  IN  [s EXCEPT !.vests[a] = @ + new,
                !.pool = [@ EXCEPT !.fund = @ + n, !.shares = @ + new]]

(* What a block at time t brings, when the supplies are liquid and virtual *)
(* (which counts the dollars at the feed's price).                         *)
NewLiquid(t, liquid, virtual) ==
  IF liquid < Reward.threshold THEN Reward.fixed
  ELSE (virtual * Max({Reward.rateStart - t \div Reward.narrowing, Reward.rateStop}))
         \div (Whole * Reward.blocksPerYear)

(* process_funds() and pay_reward_funds(). *)
ProcessFunds(s, w, t, liquid, virtual) ==
  LET new     == NewLiquid(t, liquid, virtual)
      toPosts == (new * Reward.content) \div Whole
      toPool  == IF s.pool.shares < Reward.minPool THEN 0 ELSE (new * Reward.vesting) \div Whole
      rest    == new - toPosts - toPool
      pay     == IF liquid < Reward.threshold THEN rest
                 ELSE (rest * Reward.maxWitnesses * w.weight) \div Reward.normalization
  IN  PayWitness(Issue([s EXCEPT !.content.balance = @ + toPosts, !.pool.fund = @ + toPool],
                       toPosts + toPool + pay, 0), w.owner, pay)

(* create_vesting() into the reward balance of an account.  Where the      *)
(* liquid buys no share at all modify_reward_balance() credits it as       *)
(* liquid.                                                                 *)
RewardVests(s, a, n) ==
  LET new == (n * (s.pool.shares + s.pool.pending)) \div (s.pool.fund + s.pool.backing)
  IN  [s EXCEPT !.rewards[a] = IF new = 0 THEN [@ EXCEPT !.liquid = @ + n]
                               ELSE [@ EXCEPT !.shares = @ + new, !.backing = @ + n],
                !.pool = [@ EXCEPT !.pending = @ + new, !.backing = @ + n]]

(* create_dollar() into the reward balance: the part that the print rate   *)
(* allows turns into dollars at the feed f.                                *)
RewardDollars(s, a, n, f, rate) ==
  LET print  == (rate * n) \div Whole
      dollar == (print * f.base) \div f.quote
  IN  Issue([s EXCEPT !.rewards[a] = [@ EXCEPT !.liquid = @ + n - print, !.dollar = @ + dollar]],
            -print, dollar)

(* update_virtual_supply(): how much of a payout in dollars is printed.    *)
PrintRate(supply, f) ==
  LET worth   == (supply["dollar"] * f.quote) \div f.base
      percent == (worth * Whole) \div (supply["liquid"] + worth)
  IN  IF percent <= Reward.printStart THEN Whole
      ELSE IF percent >= Reward.printStop THEN 0
      ELSE ((Reward.printStop - percent) * Whole) \div (Reward.printStop - Reward.printStart)

(* get_rshare_reward(): the share of the post in the fund, which is total  *)
(* against the claims, unless that is dust or more than it accepts.        *)
RshareReward(c, total, claims, f) ==
  LET share == (total * c.net) \div claims
      cap   == (c.cap * f.quote) \div f.base
  IN  Min({IF (share * f.base) \div f.quote < Reward.minPayout THEN 0 ELSE share, cap})

(* pay_curators(): who gets how much of n, by weight. *)
CuratorShares(p, n) ==
  LET c == comments[p]
      voters == SetToSortSeq({a \in Account : <<a, p>> \in DOMAIN votes},
                  LAMBDA a, b : \/ votes[a, p].weight > votes[b, p].weight
                                \/ /\ votes[a, p].weight = votes[b, p].weight
                                   /\ AccountRank[a] < AccountRank[b])
  IN  IF ~c.curation \/ c.weight = 0 THEN <<>>
      ELSE [i \in DOMAIN voters |->
              [to |-> voters[i], n |-> (n * votes[voters[i], p].weight) \div c.weight]]

SumOf(shares) == FoldLeft(LAMBDA n, x : n + x.n, 0, shares)

(* The payout of a post in cashout_comment_helper().  The curation reward  *)
(* that nobody gets stays in the fund.                                     *)
PayPost(s, p, total, claims, f, rate) ==
  LET c        == comments[p]
      reward   == RshareReward(c, total, claims, f)
      curation == (reward * Reward.curation) \div Whole
      curators == CuratorShares(p, curation)
      author   == reward - curation
      others   == [i \in DOMAIN c.beneficiaries |->
                     [to |-> c.beneficiaries[i].to,
                      n |-> (author * c.beneficiaries[i].weight) \div Whole]]
      rest     == author - SumOf(others)
      dollars  == (rest * c.dollars) \div (2 * Whole)
      paid     == FoldLeft(LAMBDA x, y : RewardVests(x, y.to, y.n), s,
                           curators \o others \o <<[to |-> Author[p], n |-> rest - dollars]>>)
  IN  IF c.net <= 0 \/ reward = 0 THEN s
      ELSE RewardDollars([paid EXCEPT !.awarded = @ + author + SumOf(curators)],
                         Author[p], dollars, f, rate)

(* Mutant: each post adds its own claim when its turn comes. *)
ClaimsSingly(due, recent) == recent + Max({0} \cup {comments[due[i]].net : i \in DOMAIN due})

(* The claims on the fund: the recent ones and those of all posts due. *)
Claims(due, recent) ==
  FoldLeft(LAMBDA n, p : n + Max({comments[p].net, 0}), recent, due)

Due(t) == {p \in DOMAIN comments : ~Paid(comments[p]) /\ comments[p].cashout <= t}

(* process_comment_cashout(): all posts due are paid from what was in the  *)
(* fund before, the oldest first.                                          *)
ProcessCashout(s, t, f, rate) ==
  LET decayed == s.content.recent - s.content.recent \div Reward.decay
      due     == SetToSortSeq(Due(t), LAMBDA p, q :
                   \/ comments[p].cashout < comments[q].cashout
                   \/ comments[p].cashout = comments[q].cashout /\ comments[p].id < comments[q].id)
      claims  == Claims(due, decayed)
      end     == FoldLeft(LAMBDA x, p : PayPost(x, p, s.content.balance, claims, f, rate), s, due)
  IN  [end EXCEPT !.content = [balance |-> @.balance - end.awarded, recent |-> claims]]

(* What the cashout leaves of a post and of its votes. *)
AfterCashout(t) ==
  /\ comments' = [p \in DOMAIN comments |->
                    IF p \notin Due(t) THEN comments[p]
                    ELSE [comments[p] EXCEPT !.net = Min({@, 0}), !.abs = 0, !.up = 0,
                                             !.weight = 0, !.cashout = Never]]
  /\ votes' = Without(votes, {v \in DOMAIN votes : v[2] \in Due(t)})

(* The part of a block at time t: supply is the supply without what the    *)
(* balances of the null account held, rate the print rate.                 *)
RewardsOfBlock(t, f, w, supply, rate) ==
  LET s0 == BurnRewards([vests |-> vests, rewards |-> rewards, pool |-> pool, content |-> content,
                         issued |-> [liquid |-> 0, dollar |-> 0], awarded |-> 0])
      liquid  == supply["liquid"] + s0.issued["liquid"]
      virtual == liquid + ((supply["dollar"] + s0.issued["dollar"]) * f.quote) \div f.base
  IN  ProcessCashout(ProcessFunds(s0, w, t, liquid, virtual), t, f, rate)

------------------------------------------------------------------------------
(* Properties. *)

(* The totals of pending rewards are those of the accounts, and the shares *)
(* too: validate_invariants(), through payouts that round for each         *)
(* receiver, claims of a part and the burning of the null account's.       *)
PendingCounted ==
  /\ pool.shares = Total(vests)
  /\ pool.pending = Total([a \in Account |-> rewards[a].shares])
  /\ pool.backing = Total([a \in Account |-> rewards[a].backing])

(* The posts of a block share what was in the fund and no more, although   *)
(* each is paid without looking at what the others have taken.             *)
FundSuffices == content.balance >= 0

(* Until the payout a post counts exactly its votes, however often they    *)
(* are changed, and the curation weights of the voters are within the      *)
(* post's weight, so that curators never get more than the curation part.  *)
TallyExact ==
  \A p \in DOMAIN comments :
    LET own == {v \in DOMAIN votes : v[2] = p}
    IN  ~Paid(comments[p]) =>
          /\ comments[p].net = MapThenSumSet(LAMBDA v : votes[v].rshares, own)
          /\ comments[p].weight >= MapThenSumSet(LAMBDA v : votes[v].weight, own)

(* children is the number of all posts below a post, so no post with       *)
(* replies is deleted and every reply has its parent and its root.         *)
ChildrenCounted ==
  \A p \in DOMAIN comments :
    /\ Ancestors[p] \subseteq DOMAIN comments
    /\ comments[p].children = Cardinality({q \in DOMAIN comments : p \in Ancestors[q]})

(* Shortly before its payout nobody can raise what a post gets, neither    *)
(* with a first vote nor by taking back or turning an earlier one.         *)
NotRaisedLate ==
  [][\A p \in DOMAIN comments \cap DOMAIN comments' :
       ~Paid(comments[p]) /\ ~BeforeLockout(comments[p]) /\ comments[p].id = comments'[p].id
         => comments'[p].net <= comments[p].net]_<<now, rewardVars>>

(* A post is paid once: after its payout it stays where it is, so that it  *)
(* cannot be posted anew, and votes count for nothing.                     *)
PaidOnce ==
  [][\A p \in DOMAIN comments :
       Paid(comments[p]) =>
         /\ p \in DOMAIN comments' /\ Paid(comments'[p])
         /\ comments'[p].net = comments[p].net]_<<now, rewardVars>>

(* A payout is final: it is not raised at the last minute nor repeated.    *)
PayoutFinal == NotRaisedLate /\ PaidOnce
==============================================================================
