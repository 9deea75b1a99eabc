--------------------------- MODULE MCBlockExchange ---------------------------
(* A node in the middle of two others that are one block ahead; the right  *)
(* one produces one more meanwhile.  The middle one connects to the left   *)
(* one, and the right one to it.                                           *)
EXTENDS BlockExchange

CONSTANTS left, middle, right

MCNodes == {left, middle, right}
MCLinks == {<<middle, left>>, <<right, middle>>}
MCBlocks == 1 .. 3
MCPrev == [x \in MCBlocks |-> IF x = 1 THEN NONE ELSE x - 1]
MCNum == [x \in MCBlocks |-> x]
MCStart == [n \in MCNodes |-> IF n = middle THEN 1 ELSE 2]
MCMaker == [x \in MCBlocks |-> IF x = 3 THEN right ELSE NONE]
==============================================================================
