------------------------- MODULE MCBlockProduction ---------------------------
(* Three witnesses, one of them produced for here; two hardforks known.    *)
EXTENDS BlockProduction

CONSTANTS w1, w2, w3

Times == <<6, 12>>

(* Nodes of three versions: one that has nothing new to say, one like this *)
(* one, and one that knows a hardfork more.                                *)
Versions ==
  {[version |-> NONE, vote |-> NONE],
   [version |-> 2, vote |-> [version |-> 2, time |-> 12]],
   [version |-> 3, vote |-> [version |-> 3, time |-> 8]]}

Symmetry == Permutations({w2, w3})
==============================================================================
