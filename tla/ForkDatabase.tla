---------------------------- MODULE ForkDatabase -----------------------------
(***************************************************************************)
(* fork_database (fork_database.cpp): the tree of recent blocks, kept in   *)
(* memory only.  A value of the fork database is a record                  *)
(*   index     the blocks of _index                                        *)
(*   linked    the blocks of _index whose weak pointer prev still locks    *)
(*   head      _head, which need not be in the index, and                  *)
(*   anchored  whether its own pointer prev still locks                    *)
(*   max_size  _max_size                                                   *)
(* and each method is an operator from such records to such records.  The  *)
(* cache of unlinked blocks is always empty: push_block rethrows before it *)
(* would insert there.  Nothing ever sets fork_item::invalid.              *)
(***************************************************************************)
EXTENDS Integers, Sequences, FiniteSets, FiniteSetsExt

CONSTANTS
  Blocks,          \* the blocks peers and producers may deliver
  Prev,            \* block header field previous; NONE is the null id
  Num,             \* block_num()
  NONE,
  DefaultMaxSize   \* initial _max_size (1024 in the code)

ASSUME TreeAssumption ==
  /\ NONE \notin Blocks
  /\ Prev \in [Blocks -> Blocks \cup {NONE}]
  /\ Num \in [Blocks -> Nat \ {0}]
  /\ \A b \in Blocks : Num[b] = IF Prev[b] = NONE THEN 1 ELSE Num[Prev[b]] + 1
  /\ DefaultMaxSize \in Nat \ {0}

ForkDatabases ==
  [index : SUBSET Blocks, linked : SUBSET Blocks, head : Blocks \cup {NONE},
   anchored : BOOLEAN, max_size : Nat]

EmptyForkDb(size) ==
  [index |-> {}, linked |-> {}, head |-> NONE, anchored |-> FALSE,
   max_size |-> size]

(* The oldest block number worth keeping next to the fork head.            *)
Horizon(f) == Max({0, Num[f.head] - f.max_size})

(* A weak pointer dies with the last owner of the block it points to: the  *)
(* index, _head, or the caller, who holds the branches it was given.  An   *)
(* item is told by its block: a _head that is a second item of a block in  *)
(* the index counts as the owner of the first one too, which matters only  *)
(* once that block is removed from the index.                              *)
Expire(f, held) ==
  [f EXCEPT !.linked = {b \in @ : Prev[b] \in f.index \cup {f.head} \cup held},
            !.anchored = @ /\ Prev[f.head] \in f.index \cup held]

StartBlock(f, b) == [f EXCEPT !.index = @ \cup {b}, !.head = b]

TooOld(f, b) == f.head # NONE /\ Num[b] <= Horizon(f)

Unlinkable(f, b) == f.head # NONE /\ Prev[b] # NONE /\ Prev[b] \notin f.index

CanPush(f, b) == ~ TooOld(f, b) /\ ~ Unlinkable(f, b)

(* _push_block() of an acceptable block: a new item, linked to its parent. *)
(* A block that is known already is not inserted again, but its new item   *)
(* becomes _head if it is higher.                                          *)
PushItem(f, b) ==
  LET links == f.head # NONE /\ Prev[b] # NONE
      higher == f.head = NONE \/ Num[b] > Num[f.head]
  IN [f EXCEPT
        !.index = @ \cup {b},
        !.linked = IF links /\ b \notin f.index THEN @ \cup {b} ELSE @,
        !.head = IF higher THEN b ELSE @,
        !.anchored = IF higher THEN links ELSE @]

SetHead(f, b) == [f EXCEPT !.head = b, !.anchored = b \in f.linked]

(* pop_block() throws when the previous block is gone.                     *)
CanPopItem(f) == f.head # NONE /\ f.anchored
(* Mutant: the head stays.                                                 *)
PopNothing(f) == f
PopItem(f) == SetHead(f, Prev[f.head])

RemoveItems(f, bs) == [f EXCEPT !.index = @ \ bs]

SetMaxSize(f, size) ==
  LET g == [f EXCEPT !.max_size = size] IN
    IF f.head = NONE THEN g
    ELSE [g EXCEPT !.index = {b \in @ : Num[b] >= Horizon(g)}]

(* The ancestor of b numbered n, following live prev pointers; NONE when   *)
(* they end before it.                                                     *)
Ancestor(f, b, n) ==
  LET walk[c \in Blocks] ==
        IF Num[c] = n THEN c
        ELSE IF Num[c] > n /\ c \in f.linked THEN walk[Prev[c]] ELSE NONE
  IN walk[b]

(* Mutant: the first block of that height, whatever branch it is on.       *)
FetchFirst(f, n) ==
  LET at == {b \in f.index : Num[b] = n} IN
    IF at = {} THEN NONE ELSE CHOOSE b \in at : TRUE

(* fetch_block_on_main_branch_by_number(): a block that is alone at its    *)
(* height is returned whatever branch it is on.                            *)
FetchOnMainBranch(f, n) ==
  LET at == {b \in f.index : Num[b] = n} IN
    IF Cardinality(at) = 1 THEN CHOOSE b \in at : TRUE
    ELSE IF at = {} \/ f.head = NONE THEN NONE
    ELSE IF Num[f.head] = n THEN f.head
    ELSE IF f.anchored THEN Ancestor(f, Prev[f.head], n) ELSE NONE

(* The heights at which the branches of two blocks have the same parent:   *)
(* fetch_branch_from() stops at the highest one, and throws if a pointer   *)
(* is dead before it gets there.                                           *)
MeetingHeights(f, first, second) ==
  {n \in 1 .. Min({Num[first], Num[second]}) :
     /\ Ancestor(f, first, n) # NONE
     /\ Ancestor(f, second, n) # NONE
     /\ Prev[Ancestor(f, first, n)] = Prev[Ancestor(f, second, n)]}

CanFetchBranches(f, first, second) ==
  /\ {first, second} \subseteq f.index
  /\ MeetingHeights(f, first, second) # {}

(* The branch of a block from the meeting height up, oldest block first.   *)
BranchFrom(f, b, other) ==
  LET m == Max(MeetingHeights(f, b, other)) IN
    [i \in 1 .. Num[b] - m + 1 |-> Ancestor(f, b, m + i - 1)]
==============================================================================
