------------------------------ MODULE MCLedger -------------------------------
(* The operations of a small instance of Ledger. *)
EXTENDS Ledger

CONSTANTS alice, bob, carol, nobody

Balances ==
  [a \in Account |-> [s \in Asset |->
     CASE a = alice /\ s = "liquid" -> 5 [] a = bob /\ s = "dollar" -> 4
       [] a = carol /\ s = "dollar" -> 1 [] OTHER -> 0]]

Offer(owner, id, sells, for, base, quote, expire, kill) ==
  [owner |-> owner, id |-> id, sells |-> sells, for |-> for, base |-> base,
   quote |-> quote, expire |-> expire, kill |-> kill]

(* Prices that leave something over when orders are matched. *)
Offers == {Offer(alice, 1, "liquid", 5, 5, 3, 2, FALSE),
           Offer(alice, 2, "liquid", 2, 2, 1, 1, FALSE),
           Offer(bob, 1, "dollar", 2, 1, 2, 2, FALSE),
           Offer(bob, 2, "dollar", 3, 3, 2, 2, TRUE),
           Offer(carol, 1, "dollar", 1, 1, 1, 3, FALSE)}

Payments == {[from |-> alice, to |-> nobody, asset |-> "liquid", amount |-> 1],
             [from |-> bob, to |-> alice, asset |-> "dollar", amount |-> 1]}

Deposits == {[from |-> alice, to |-> bob, asset |-> "liquid", amount |-> 2],
             [from |-> bob, to |-> nobody, asset |-> "dollar", amount |-> 1]}

Withdrawals == {[from |-> bob, to |-> t, id |-> i, asset |-> "liquid", amount |-> 1] :
                  t \in {alice}, i \in {1, 2}}

Exchanges == {[owner |-> bob, id |-> 1, amount |-> 3]}

Deals == {[from |-> alice, id |-> 1, to |-> bob, agent |-> carol, ratify |-> 1, expire |-> 2,
           funds |-> [liquid |-> 2, dollar |-> 0], fee |-> 1, feeAsset |-> "liquid"],
          [from |-> bob, id |-> 1, to |-> alice, agent |-> carol, ratify |-> 2, expire |-> 3,
           funds |-> [liquid |-> 0, dollar |-> 1], fee |-> 0, feeAsset |-> "dollar"]}

Prices == {[base |-> 1, quote |-> 2], [base |-> 2, quote |-> 1]}

(* A post of alice, a reply of bob and one of alice to it. *)
Authors == [p \in Post |-> IF p = "reply" THEN bob ELSE alice]
Parents == [p \in Post |-> CASE p = "post" -> Top [] p = "reply" -> "post" [] OTHER -> "reply"]

Ranks == [a \in Account |-> CASE a = alice -> 1 [] a = bob -> 2 [] a = carol -> 3 [] OTHER -> 4]

Options == {[cap |-> 100, dollars |-> 10, votes |-> TRUE, curation |-> TRUE,
             beneficiaries |-> <<[to |-> nobody, weight |-> 7]>>],
            [cap |-> 9, dollars |-> 20, votes |-> TRUE, curation |-> FALSE,
             beneficiaries |-> <<>>]}

Weights == {-20, 0, 20}

Producing == {[owner |-> carol, weight |-> 2]}

Vests == [a \in Account |-> CASE a = alice -> 9 [] a = bob -> 20 [] OTHER -> 1]

(* Twentieths; a vote uses half of the power there is. *)
Rules ==
  [whole |-> 20, content |-> 15, vesting |-> 3, curation |-> 5,
   window |-> 3, lockout |-> 1, auction |-> 2, decay |-> 3, depth |-> 2,
   rootInterval |-> 1, replyInterval |-> 1, voteInterval |-> 1, maxChanges |-> 2,
   minVests |-> 1, dust |-> 1, day |-> 2, reserve |-> 1, regeneration |-> 4,
   cap |-> 100, minPayout |-> 1, printStart |-> 4, printStop |-> 8,
   threshold |-> 60, fixed |-> 20, rateStart |-> 9, rateStop |-> 8, narrowing |-> 1,
   blocksPerYear |-> 2, minPool |-> 31, maxWitnesses |-> 3, normalization |-> 4]

(* A behaviour moves money or writes posts, the latter at one price of the *)
(* feed.                                                                   *)
CONSTANTS
  MoneyTime,  \* bound: blocks in the first case
  ContentOps  \* bound: operations in the second

VARIABLE kind

MCInit == Init /\ kind \in {"money", "content"}

MCNext ==
  /\ \/ kind = "money" /\ MoneyOperation
     \/ kind = "content" /\ ops < ContentOps /\ ContentOperation
     \/ kind = "money" /\ now < MoneyTime /\ Block
     \/ kind = "content" /\ Block /\ feed' = feed
  /\ UNCHANGED kind

MCSpec == MCInit /\ [][MCNext]_<<vars, kind>>
==============================================================================
