----------------------- MODULE MCPendingTransactions -------------------------
(* Three transactions: t2 relies on t1, and t3 conflicts with t2.          *)
EXTENDS PendingTransactions

CONSTANTS t1, t2, t3

TxExpiration == [t \in Txs |-> IF t = t1 THEN 2 ELSE 3]
TxNeeds == [t \in Txs |-> IF t = t2 THEN {t1} ELSE {}]
TxConflicts == {{t2, t3}}
TxSize == [t \in Txs |-> IF t = t1 THEN 2 ELSE 1]
==============================================================================
