------------------------------- MODULE MCStake -------------------------------
(* The operations of a small instance of Stake. *)
EXTENDS Stake

Stakes == [a \in Account |-> CASE a = 1 -> 5 [] a = 2 -> 2 [] OTHER -> 1]
Liquids == [a \in Account |-> IF a = 3 THEN 2 ELSE 0]

Arrow(a, b) == [account |-> a, to |-> b]

(* The chain 4, 3, 2, 1 is longer than a stake is carried; the loops are   *)
(* there to be refused.                                                    *)
Chain == [a \in Account |-> a - 1]
Nobody == [a \in Account |-> Self]
FirstOnes == {Chain, Nobody}
Arrows == {Arrow(4, 3), Arrow(3, 2), Arrow(2, 3), Arrow(2, 1), Arrow(4, 1)}

Vests == {[from |-> 3, to |-> 3, amount |-> 2]}
Rewards == {[to |-> 2, amount |-> 3]}
Downs == {[account |-> 1, shares |-> n] : n \in {0, 3, 5}}
Routes == {[from |-> 1, to |-> 2, percent |-> 1, vest |-> TRUE],
           [from |-> 1, to |-> 3, percent |-> 1, vest |-> FALSE],
           [from |-> 1, to |-> 1, percent |-> 2, vest |-> TRUE],
           [from |-> 1, to |-> 3, percent |-> 0, vest |-> FALSE]}
Loans == {[from |-> 1, to |-> 2, shares |-> n] : n \in {0, 1, 2}}
==============================================================================
