------------------------------ MODULE UndoStore ------------------------------
(***************************************************************************)
(* What a chainbase index promises its users: a table that changes freely  *)
(* and a stack of earlier contents of it.  Starting a session saves the    *)
(* table, undoing restores the last one saved, squashing forgets the last  *)
(* one saved, committing forgets the oldest ones.                          *)
(***************************************************************************)
EXTENDS Naturals, Sequences

CONSTANT Tables      \* the contents a table can have

VARIABLES
  table,             \* the current contents
  saved              \* the contents saved by the sessions, oldest first

vars == <<table, saved>>

Init == table \in Tables /\ saved = << >>

Write == table' \in Tables /\ UNCHANGED saved

Begin == saved' = Append(saved, table) /\ UNCHANGED table

Restore ==
  /\ saved # << >>
  /\ table' = saved[Len(saved)]
  /\ saved' = SubSeq(saved, 1, Len(saved) - 1)

Merge ==
  /\ saved # << >>
  /\ saved' = SubSeq(saved, 1, Len(saved) - 1)
  /\ UNCHANGED table

Forget ==
  /\ \E n \in 0..Len(saved) : saved' = SubSeq(saved, n + 1, Len(saved))
  /\ UNCHANGED table

Next == Write \/ Begin \/ Restore \/ Merge \/ Forget

Spec == Init /\ [][Next]_vars
==============================================================================
