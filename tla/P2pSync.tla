------------------------------- MODULE P2pSync -------------------------------
(***************************************************************************)
(* What the p2p plugin (p2p_plugin.cpp) answers to the network layer from  *)
(* the chain database: a synopsis of the node's chain up to a reference    *)
(* point, the ids of the blocks a peer's synopsis leaves out, and the      *)
(* blocks themselves.  The answers are computed under the read lock, so    *)
(* between two calls of push_block(), and change nothing: they are         *)
(* operators on the state of ChainDatabase.                                *)
(***************************************************************************)
EXTENDS ChainDatabase

CONSTANT Limit   \* most block ids in one answer

ASSUME LimitAssumption == Limit \in Nat \ {0}

(* find_block_id_for_num(): the block summaries are part of the chain      *)
(* state, then the log, then the fork database; NONE makes                 *)
(* get_block_id_for_num() throw.                                           *)
IdForNum(n) ==
  IF n <= Len(chain) THEN chain[n]
  ELSE IF n <= Len(log) THEN log[n]
  ELSE FetchOnMainBranch(fork, n)

Included(b) == IdForNum(Num[b]) = b

(* fetch_block_by_id(), behind get_item().                                 *)
Fetched(b) == b \in fork.index \/ (Num[b] <= Len(log) /\ log[Num[b]] = b)

------------------------------------------------------------------------------

(* The numbers a synopsis names between low and high, halving the rest of  *)
(* the way to the end; after more blocks are known to follow high.         *)
SynopsisNums(low, high, after) ==
  LET from[n \in Nat] ==
        IF n > high THEN << >>
        ELSE <<n>> \o from[n + (high + after - n + 2) \div 2]
  IN from[low]

(* get_block_ids_on_fork() throws when the fork database does not lead     *)
(* from the head and from the reference point to a common parent.          *)
CanFollow(ref) == HeadBlock # NONE /\ CanFetchBranches(fork, HeadBlock, ref)

(* The part of the fork of ref that is not on the chain, oldest first, and *)
(* the number of the last block that is.                                   *)
ForkHistory(ref) == BranchFrom(fork, ref, HeadBlock)
LastCommon(ref) == Num[ref] - Len(ForkHistory(ref))

(* From the irreversible block to the reference point, which may be older. *)
SummaryNums(ref, after) ==
  SynopsisNums(Max({1, Min({Lib(chain), Num[ref]})}), Num[ref], after)

Synopsis(ref, after) ==
  LET nums == SummaryNums(ref, after)
      common == IF Included(ref) THEN Num[ref] ELSE LastCommon(ref)
  IN [i \in 1 .. Len(nums) |->
        IF nums[i] <= common THEN IdForNum(nums[i])
        ELSE ForkHistory(ref)[nums[i] - common]]

(* get_blockchain_synopsis(ref, after) throws at a height without an id,   *)
(* at a fork that cannot be followed and at one that begins below the      *)
(* irreversible block.                                                     *)
CanSummarize(ref, after) ==
  /\ IdForNum(Num[ref]) # NONE
  /\ ~ Included(ref) => CanFollow(ref) /\ LastCommon(ref) >= Lib(chain)
  /\ NONE \notin Range(Synopsis(ref, after))

------------------------------------------------------------------------------

(* The blocks of a peer's synopsis at which get_block_ids() stops: one     *)
(* that is known and on the chain, or known at a height with no id, where  *)
(* it throws.                                                              *)
Stops(s) == {i \in 1 .. Len(s) : Known(s[i]) /\ IdForNum(Num[s[i]]) \in {s[i], NONE}}

(* Mutant: a block that is known is taken for one that is on the chain.    *)
LastKnownAnywhere(s) == s[Max({i \in 1 .. Len(s) : Known(s[i])})]

LastKnown(s) == s[Max(Stops(s))]

(* It also throws when the peer is on a fork it cannot be led back from.   *)
CanAnswer(s) == s # << >> => Stops(s) # {} /\ Included(LastKnown(s))

GetBlockIds(s) ==
  LET first == IF s = << >> THEN 1 ELSE Num[LastKnown(s)] IN
    [i \in 1 .. Min({Limit, Max({0, Len(chain) + 1 - first})}) |-> IdForNum(first + i - 1)]

Remaining(ids) == IF ids = << >> THEN 0 ELSE Len(chain) - Num[Last(ids)]

------------------------------------------------------------------------------

(* The blocks up to b, oldest first.                                       *)
PathTo(b) ==
  LET path[c \in Blocks] == IF Prev[c] = NONE THEN <<c>> ELSE Append(path[Prev[c]], c)
  IN path[b]

(* The synopses of peers: the peer is at some block and has made one of    *)
(* the blocks up to it irreversible.                                       *)
PeerSynopses ==
  {<< >>} \cup
  UNION {{LET nums == SynopsisNums(low, Num[b], 0) IN
            [i \in 1 .. Len(nums) |-> PathTo(b)[nums[i]]] : low \in 1 .. Num[b]} : b \in Blocks}

(* A peer that shares its irreversible block with this node is answered,   *)
(* and the answer goes on from the last block of its synopsis that is on   *)
(* this node's chain, every block the parent of the next, with nothing     *)
(* left out: whatever branches both know, and after switches and restarts. *)
(* A push that throws can leave blocks above the chain, which are taken    *)
(* for included, so this and the next property are stated up to there.     *)
SyncContinues ==
  pc = "idle" /\ clean => \A s \in PeerSynopses :
    s = << >> \/ s[1] \in Range(chain) =>
      /\ CanAnswer(s)
      /\ LET ids == GetBlockIds(s)
             shared == {1} \cup {Num[s[i]] : i \in {j \in 1 .. Len(s) : s[j] \in Range(chain)}}
         IN ids \o SubSeq(chain, Len(chain) - Remaining(ids) + 1, Len(chain))
              = SubSeq(chain, Max(shared), Len(chain))

(* A synopsis names blocks of the reference point's branch only, in their  *)
(* order and up to the reference point, be that on the chain or on a fork; *)
(* and one can be given for every known block that descends from the last  *)
(* committed block.  After a switch to a branch with fewer confirmations   *)
(* the irreversible block of the chain is below that one.                  *)
SynopsisIsBranch ==
  pc = "idle" /\ clean => \A ref \in fork.index, after \in 0 .. 2 :
    /\ CanSummarize(ref, after) =>
         LET s == Synopsis(ref, after) IN
           /\ \A i \in 1 .. Len(s) : s[i] = PathTo(ref)[Num[s[i]]]
           /\ \A i \in 1 .. Len(s) - 1 : Num[s[i]] < Num[s[i + 1]]
           /\ after = 0 => Last(s) = ref
    /\ base > 0 /\ Num[ref] >= base /\ PathTo(ref)[base] = chain[base]
         => CanSummarize(ref, after)

(* Every block the node offers in an answer can be served: what the fork   *)
(* database has pruned, or lost at a restart, is in the log.               *)
OffersServed == pc = "idle" /\ clean => \A b \in Range(chain) : Fetched(b)

(* What the node tells its peers in a synchronisation is true of one       *)
(* branch and can be served (get_block_ids, get_blockchain_synopsis,       *)
(* get_item).                                                              *)
PeersServed ==
  /\ SyncContinues
  /\ SynopsisIsBranch
  /\ OffersServed
==============================================================================
