---------------------------- MODULE WitnessVotes -----------------------------
(***************************************************************************)
(* Votes for witnesses and the proxies that cast them (the account_        *)
(* witness_proxy and account_witness_vote evaluators, adjust_proxied_      *)
(* witness_votes() and what it calls).  Nothing is counted when a vote is  *)
(* needed: every change of a stake is carried up the chain of proxies and  *)
(* on to the witnesses, level by level, and no further than MaxProxyDepth  *)
(* levels.  Module Stake adds what changes the stakes.                     *)
(*                                                                         *)
(* An operation that fails an assertion changes nothing, so it has no      *)
(* action: the assertions are guards.                                      *)
(***************************************************************************)
EXTENDS Integers, FiniteSets, FiniteSetsExt

CONSTANTS
  Account,        \* accounts; names are numbers because names are ordered
  Witness,        \* witnesses
  MaxProxyDepth,  \* ZATTERA_MAX_PROXY_RECURSION_DEPTH
  MaxVotes        \* ZATTERA_MAX_ACCOUNT_WITNESS_VOTES

(* ZATTERA_PROXY_TO_SELF_ACCOUNT: the account votes for itself. *)
Self == 0

ASSUME VotesAssumption ==
  /\ Account \subseteq Nat \ {Self}
  /\ IsFiniteSet(Account) /\ IsFiniteSet(Witness)
  /\ MaxProxyDepth \in Nat \ {0}
  /\ MaxVotes \in Nat

VARIABLES
  vesting,  \* vesting_share_balance of an account
  total,    \* total_vesting_shares
  proxy,    \* the account's proxy, or Self
  canVote,  \* can_vote
  voted,    \* the witness_vote_objects: the witnesses an account votes for
  tally     \* tally.proxied[a][i]: proxied_vsf_votes, counted from 1;
            \* tally.votes[w]: the votes of witness w

Level == 1 .. MaxProxyDepth

VotesTypeOK ==
  /\ vesting \in [Account -> Nat] /\ total \in Nat
  /\ proxy \in [Account -> Account \cup {Self}]
  /\ canVote \in [Account -> BOOLEAN]
  /\ voted \in [Account -> SUBSET Witness]
  /\ tally.proxied \in [Account -> [Level -> Nat]]
  /\ tally.votes \in [Witness -> Nat]

SumOf(S, f(_)) == MapThenSumSet(f, S)

------------------------------------------------------------------------------

(* The chain of proxies of an account: Up(p, a)[d] is d levels above a, or *)
(* Self above the end of the chain.                                        *)
Up(p, a) ==
  LET up[d \in 0 .. Cardinality(Account)] ==
        IF d = 0 THEN a
        ELSE IF up[d - 1] = Self THEN Self ELSE p[up[d - 1]]
  IN  up

Above(p, a) == {Up(p, a)[d] : d \in 1 .. Cardinality(Account)} \ {Self}

(* The accounts from which a is reached in exactly d steps. *)
Below(p, a, d) == {b \in Account : Up(p, b)[d] = a}

(* The levels at which the chain of a ends and is still followed. *)
Top(p, a) ==
  {d \in 0 .. MaxProxyDepth : Up(p, a)[d] # Self /\ p[Up(p, a)[d]] = Self}

(* The witnesses that a change of a's stake reaches. *)
Reached(p, v, a) == UNION {v[Up(p, a)[d]] : d \in Top(p, a)}

(* adjust_proxied_witness_votes(), with the proxies p and the votes v:     *)
(* delta[0] is added for the account itself, delta[i] for the accounts i   *)
(* levels below it.  The account d levels above takes what is at most      *)
(* MaxProxyDepth levels below itself; the end of the chain passes the sum  *)
(* on to the witnesses it votes for (adjust_witness_votes()).              *)
Adjust(p, v, t, a, delta) ==
  LET up == Up(p, a)
      at(x, i) == {d \in 1 .. i : up[d] = x}
      sum(d) == SumOf(0 .. MaxProxyDepth - d, LAMBDA i : delta[i])
  IN  [proxied |-> [x \in Account |-> [i \in Level |->
                      t.proxied[x][i] + SumOf(at(x, i), LAMBDA d : delta[i - d])]],
       votes   |-> [w \in Witness |->
                      t.votes[w] + SumOf({d \in Top(p, a) : w \in v[up[d]]}, sum)]]

(* The second adjust_proxied_witness_votes(): only the account's own stake *)
(* changes.                                                                *)
AdjustOwn(p, v, t, a, n) ==
  Adjust(p, v, t, a, [i \in 0 .. MaxProxyDepth |-> IF i = 0 THEN n ELSE 0])

(* What the account has and what is proxied to it. *)
Weights(a) ==
  [i \in 0 .. MaxProxyDepth |-> IF i = 0 THEN vesting[a] ELSE tally.proxied[a][i]]

Negative(delta) == [i \in DOMAIN delta |-> -delta[i]]

(* witness_vote_weight(). *)
VoteWeight(a) == vesting[a] + SumOf(Level, LAMBDA i : tally.proxied[a][i])

(* The assertion of adjust_witness_vote() for the witnesses ws. *)
WithinTotal(t, ws, sum) == \A w \in ws : t.votes[w] <= sum

------------------------------------------------------------------------------

(* The loop over the proxies above the new one: it must not meet the       *)
(* account, and the chain from the account to its end is limited.  What    *)
(* hangs below the account is not looked at.                               *)
ProxyAllowed(a, to) ==
  LET chain == Above(proxy, to)
  IN  /\ a \notin chain
      /\ chain # {} => Cardinality(chain \cup {a, to}) <= MaxProxyDepth

(* account_witness_proxy with a proxy: everything the account stands for   *)
(* is taken away, its own votes are cleared, and it is added again for the *)
(* new proxy.                                                              *)
SetProxy(a, to) ==
  /\ to # proxy[a] /\ to # a /\ canVote[a]
  /\ ProxyAllowed(a, to)
  /\ \E off \in {Adjust(proxy, voted, tally, a, Negative(Weights(a)))},
        p \in {[proxy EXCEPT ![a] = to]}, v \in {[voted EXCEPT ![a] = {}]} :
          \E on \in {Adjust(p, v, off, a, Weights(a))} :
            /\ WithinTotal(on, Reached(p, v, a), total)
            /\ proxy' = p /\ voted' = v /\ tally' = on

(* account_witness_proxy without one: it has no votes of its own. *)
ClearProxy(a) ==
  /\ proxy[a] # Self /\ canVote[a]
  /\ tally' = Adjust(proxy, voted, tally, a, Negative(Weights(a)))
  /\ proxy' = [proxy EXCEPT ![a] = Self]
  /\ UNCHANGED voted

(* account_witness_vote. *)
Approve(a, w) ==
  /\ proxy[a] = Self /\ canVote[a]
  /\ w \notin voted[a] /\ Cardinality(voted[a]) < MaxVotes
  /\ tally' = [tally EXCEPT !.votes[w] = @ + VoteWeight(a)]
  /\ WithinTotal(tally', {w}, total)
  /\ voted' = [voted EXCEPT ![a] = @ \cup {w}]
  /\ UNCHANGED proxy

Disapprove(a, w) ==
  /\ proxy[a] = Self
  /\ w \in voted[a]
  /\ tally' = [tally EXCEPT !.votes[w] = @ - VoteWeight(a)]
  /\ voted' = [voted EXCEPT ![a] = @ \ {w}]
  /\ UNCHANGED proxy

------------------------------------------------------------------------------

(* What proxied_vsf_votes stands for: the stake that is exactly i levels   *)
(* below an account, whatever chains were joined, cut and lengthened and   *)
(* however stakes changed meanwhile.                                       *)
ProxiedExact ==
  \A a \in Account : \A i \in Level :
    tally.proxied[a][i] = SumOf(Below(proxy, a, i), LAMBDA b : vesting[b])

(* The votes of a witness are the stakes of those who voted for it and of  *)
(* those who vote through them, up to MaxProxyDepth levels, counted from   *)
(* the stakes themselves.                                                  *)
VotesCounted ==
  \A w \in Witness :
    tally.votes[w] =
      SumOf({a \in Account : w \in voted[a]},
            LAMBDA a : SumOf(0 .. MaxProxyDepth,
                             LAMBDA d : SumOf(Below(proxy, a, d), LAMBDA b : vesting[b])))

(* Chains of proxies have an end.  Who votes through a proxy, or has       *)
(* declined to vote, has no votes and, declined, no proxy either.          *)
OneVoice ==
  \A a \in Account :
    /\ a \notin Above(proxy, a)
    /\ proxy[a] # Self => voted[a] = {}
    /\ ~canVote[a] => proxy[a] = Self /\ voted[a] = {}

(* Every stake speaks once: chains of proxies end, and the tallies that    *)
(* are carried up them by differences are the stakes themselves.           *)
VotesExact ==
  /\ OneVoice
  /\ ProxiedExact
  /\ VotesCounted
==============================================================================
