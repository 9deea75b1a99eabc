----------------------------- MODULE MCBlockLog ------------------------------
(* BlockLog with a handful of blocks.                                      *)
EXTENDS BlockLog
==============================================================================
