------------------------- MODULE MCAccountRecovery ---------------------------
(* Three keys and two recovery accounts. *)
EXTENDS AccountRecovery, TLC

CONSTANTS k1, k2, k3, r1, r2

Symmetry == Permutations({k1, k2, k3}) \cup Permutations({r1, r2})
==============================================================================
