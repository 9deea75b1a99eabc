-------------------------- MODULE MCChainbaseIndex ---------------------------
(* ChainbaseIndex on a small table.                                        *)
EXTENDS ChainbaseIndex
==============================================================================
