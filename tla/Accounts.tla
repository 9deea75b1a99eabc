------------------------------ MODULE Accounts -------------------------------
(* The accounts and their balances of the two liquid assets, which the     *)
(* modules Market, Rewards and Ledger work on.                             *)
EXTENDS Integers

CONSTANTS
  Account,  \* accounts
  Null      \* the account that burns what it is sent

Asset == {"liquid", "dollar"}

VARIABLES
  now,     \* head_block_time(), in blocks
  balance  \* balance[a][s]: what account a has of asset s

Credit(b, a, s, n) == [b EXCEPT ![a][s] = @ + n]
==============================================================================
