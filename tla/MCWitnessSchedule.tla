------------------------- MODULE MCWitnessSchedule ---------------------------
(* Five witnesses; names are in another order than ids.                    *)
EXTENDS WitnessSchedule

Ranks == [w \in Witness |-> (w * 3) % 5]
==============================================================================
