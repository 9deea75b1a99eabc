--------------------------- MODULE MCChainDatabase ---------------------------
(* A block tree for ChainDatabase.  A block is named by its branch and its *)
(* number: b forks off after a1, c after a2, d after b3 and e after c3.    *)
EXTENDS P2pSync

CONSTANTS a1, a2, a3, a4, b2, b3, b4, c3, c4, d4, e4, e5, w1, w2, w3

TreePrev ==
  [b \in Blocks |->
     CASE b = a1 -> NONE [] b = a2 -> a1 [] b = a3 -> a2 [] b = a4 -> a3
       [] b = b2 -> a1 [] b = b3 -> b2 [] b = b4 -> b3
       [] b = c3 -> a2 [] b = c4 -> c3
       [] b = d4 -> b3
       [] b = e4 -> c3 [] b = e5 -> e4]

TreeNum ==
  [b \in Blocks |->
     CASE b = a1 -> 1 [] b \in {a2, b2} -> 2 [] b \in {a3, b3, c3} -> 3
       [] b \in {a4, b4, c4, d4, e4} -> 4 [] b = e5 -> 5]

(* One branch ends in an invalid block, one in a block whose processing    *)
(* throws, one in a block that a handler vetoes; at another block          *)
(* something throws from time to time.                                     *)
SomeBad ==
  [b \in Blocks |-> CASE b = c4 -> "early" [] b = b4 -> "late" [] b = d4 -> "veto"
                      [] b = a3 -> "flaky" [] OTHER -> "ok"]

(* Every witness produces on every branch, as the owners of nodes that     *)
(* switched branches do.  w1 produces alone at the end of branch a, which  *)
(* stalls the irreversible block there; on d and e it advances.            *)
Clustered ==
  [b \in Blocks |-> CASE b \in {a1, a4, b4, d4, e4} -> w1
                      [] b \in {a2, b2, c4, e5} -> w2
                      [] OTHER -> w3]
==============================================================================
