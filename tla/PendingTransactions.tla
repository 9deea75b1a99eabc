------------------------ MODULE PendingTransactions --------------------------
(***************************************************************************)
(* Transactions that are not in a block yet (database.cpp, db_with.hpp):   *)
(* push_transaction() applies them on top of the head block in a session   *)
(* of their own; push_block() drops that session, and when it is done the  *)
(* restorer's destructor applies them again, those of popped blocks first; *)
(* _generate_block() makes a block of them.                                *)
(*                                                                         *)
(* What _push_block() does to the chain is taken from ChainDatabase: it    *)
(* extends it by a block, or pops blocks, applies those of another branch, *)
(* and on a failure pops these and applies the old ones again; it may stop *)
(* with an exception at any point of that.                                 *)
(***************************************************************************)
EXTENDS Integers, Sequences, FiniteSets, SequencesExt

CONSTANTS
  Txs,
  Expiration,      \* transaction field expiration, in blocks' time slots
  Needs,           \* Needs[t]: transactions whose effects t relies on
  Conflicts,       \* pairs of transactions of which only one can be applied
  Size,            \* pack_size() of a transaction
  MaxBlockSize,    \* maximum_block_size, less what the header takes
  MaxUntil,        \* ZATTERA_MAX_TIME_UNTIL_EXPIRATION
  MaxTime,         \* bound: time slots
  MaxHeight,       \* bound: blocks on the chain
  MaxPops          \* bound: reversible blocks

ASSUME TxAssumption ==
  /\ IsFiniteSet(Txs)
  /\ Expiration \in [Txs -> Nat] /\ Size \in [Txs -> Nat \ {0}]
  /\ Needs \in [Txs -> SUBSET Txs]
  /\ Conflicts \subseteq {{t, u} : t, u \in Txs}
  /\ {MaxBlockSize, MaxUntil, MaxTime, MaxHeight, MaxPops} \subseteq Nat

VARIABLES
  chain,    \* the applied blocks
  pending,  \* _pending_tx, whose effects are those of _pending_tx_session
  pc,       \* "idle"; in push_block(): "extend", or "pop", "apply",
            \* "pop_bad", "reapply" of a fork switch
  block,    \* the block that extends the chain
  own,      \* it comes from _generate_block()
  saved,    \* _pending_transactions of the restorer
  popped,   \* _popped_tx
  old,      \* blocks of the branch being left, oldest first
  new       \* how many blocks of the other branch are applied

vars == <<chain, pending, pc, block, own, saved, popped, old, new>>

BlockTxs == {s \in SeqOf(Txs, Cardinality(Txs)) : IsInjective(s)}
Blocks == [txs : BlockTxs, time : 1 .. MaxTime]
NoBlock == [txs |-> << >>, time |-> 0]

TypeOK ==
  /\ chain \in Seq(Blocks)
  /\ pending \in BlockTxs /\ saved \in BlockTxs
  /\ popped \in Seq(Txs)
  /\ pc \in {"idle", "extend", "pop", "apply", "pop_bad", "reapply"}
  /\ block \in Blocks \cup {NoBlock} /\ own \in BOOLEAN
  /\ old \in Seq(Blocks)
  /\ new \in 0 .. MaxHeight

Init ==
  /\ chain = << >> /\ pending = << >>
  /\ pc = "idle" /\ block = NoBlock /\ own = FALSE
  /\ saved = << >> /\ popped = << >> /\ old = << >> /\ new = 0

------------------------------------------------------------------------------

Time(c) == IF c = << >> THEN 0 ELSE Last(c).time

TxsOf(c) == FlattenSeq([i \in 1 .. Len(c) |-> c[i].txs])

(* Mutant: a transaction is forgotten one slot before it expires.          *)
ForgotEarly(c, s) ==
  {t \in Range(TxsOf(c)) : Time(c) + 1 < Expiration[t]} \cup Range(s)

(* The transaction index once the blocks of c and then s are applied:      *)
(* clear_expired_transactions() ends every block.                          *)
Known(c, s) ==
  {t \in Range(TxsOf(c)) : Time(c) <= Expiration[t]} \cup Range(s)

(* The evaluators' verdict on t after the blocks of c and then s.          *)
Evaluates(t, c, s) ==
  LET applied == Range(TxsOf(c)) \cup Range(s) IN
    /\ Needs[t] \subseteq applied
    /\ \A u \in applied : {t, u} \notin Conflicts

(* _apply_transaction(t) succeeds.                                         *)
Applies(t, c, s) ==
  /\ t \notin Known(c, s)
  /\ c # << >> => /\ Expiration[t] <= Time(c) + MaxUntil
                  /\ Time(c) < Expiration[t]
  /\ Evaluates(t, c, s)

TotalSize(s) == FoldLeft(LAMBDA n, t : n + Size[t], 0, s)

(* _apply_block(b) gets through header, size and transactions.             *)
BlockApplies(b, c) ==
  /\ Time(c) < b.time
  /\ TotalSize(b.txs) <= MaxBlockSize
  /\ \A i \in 1 .. Len(b.txs) : Applies(b.txs[i], c, SubSeq(b.txs, 1, i - 1))

(* A peer's transaction; a failing one leaves nothing behind.              *)
PushTransaction(t) ==
  /\ pc = "idle"
  /\ Applies(t, chain, pending)
  /\ pending' = Append(pending, t)
  /\ UNCHANGED <<chain, pc, block, own, saved, popped, old, new>>

(* The restorer's constructor: the session is undone.                      *)
Begin(b, mine, where) ==
  /\ pc = "idle"
  /\ saved' = pending /\ pending' = << >>
  /\ block' = b /\ own' = mine /\ pc' = where
  /\ UNCHANGED <<chain, popped, old, new>>

(* Its destructor: every transaction that is not known and still applies.  *)
Restored(c, list) ==
  FoldLeft(LAMBDA s, t : IF Applies(t, c, s) THEN Append(s, t) ELSE s, << >>, list)

End ==
  /\ pending' = Restored(chain', popped \o saved)
  /\ pc' = "idle" /\ block' = NoBlock /\ own' = FALSE
  /\ saved' = << >> /\ popped' = << >> /\ old' = << >> /\ new' = 0

PushBlock(b) ==
  /\ BlockApplies(b, chain)
  /\ Begin(b, FALSE, "extend")

PushToSwitch ==
  /\ chain # << >>
  /\ Begin(NoBlock, FALSE, "pop")

(* Mutant: what is pending goes into the block without being applied.      *)
CandidatesUnapplied(when) ==
  FoldLeft(LAMBDA s, t :
             IF /\ Expiration[t] >= when
                /\ TotalSize(s) + Size[t] < MaxBlockSize
             THEN Append(s, t) ELSE s,
           << >>, pending)

(* The transactions _generate_block() puts into a block: not expired, not  *)
(* too big for what is left of it, and applied one after the other.        *)
Candidates(when) ==
  FoldLeft(LAMBDA s, t :
             IF /\ Expiration[t] >= when
                /\ TotalSize(s) + Size[t] < MaxBlockSize
                /\ Applies(t, chain, s)
             THEN Append(s, t) ELSE s,
           << >>, pending)

GenerateBlock(when) ==
  /\ Len(chain) < MaxHeight
  /\ Time(chain) < when
  /\ Begin([txs |-> Candidates(when), time |-> when], TRUE, "extend")

ExtendChain ==
  /\ pc = "extend"
  /\ BlockApplies(block, chain)
  /\ chain' = Append(chain, block)
  /\ End

(* The block is invalid, or a plugin throws.                               *)
ExtendFails ==
  /\ pc = "extend"
  /\ UNCHANGED chain
  /\ End

(* Mutant: the transactions of a popped block go behind those popped       *)
(* before it.                                                              *)
PopToBack ==
  /\ chain # << >>
  /\ popped' = popped \o Last(chain).txs
  /\ chain' = Front(chain)

(* pop_block(): the transactions go before those popped already.           *)
PopBlock ==
  /\ chain # << >>
  /\ popped' = Last(chain).txs \o popped
  /\ chain' = Front(chain)

PopOld ==
  /\ pc = "pop"
  /\ Len(old) < MaxPops
  /\ PopBlock
  /\ old' = <<Last(chain)>> \o old
  /\ UNCHANGED <<pending, pc, block, own, saved, new>>

ApplyNew(b) ==
  /\ pc \in {"pop", "apply"} /\ old # << >>
  /\ Len(chain) < MaxHeight
  /\ b # old[1]
  /\ BlockApplies(b, chain)
  /\ chain' = Append(chain, b)
  /\ pc' = "apply" /\ new' = new + 1
  /\ UNCHANGED <<pending, block, own, saved, popped, old>>

(* The switch succeeds: the other branch is longer.                        *)
SwitchDone ==
  /\ pc = "apply" /\ new > Len(old)
  /\ UNCHANGED chain
  /\ End

(* A block of the other branch fails: its applied blocks are popped.       *)
ApplyNewFails ==
  /\ pc \in {"pop", "apply"} /\ old # << >>
  /\ pc' = "pop_bad"
  /\ UNCHANGED <<chain, pending, block, own, saved, popped, old, new>>

PopNew ==
  /\ pc = "pop_bad" /\ new > 0
  /\ PopBlock
  /\ new' = new - 1
  /\ UNCHANGED <<pending, pc, block, own, saved, old>>

Reapply ==
  /\ pc \in {"pop_bad", "reapply"} /\ new = 0 /\ old # << >>
  /\ chain' = Append(chain, old[1])
  /\ IF Len(old) = 1 THEN End
     ELSE /\ pc' = "reapply" /\ old' = Tail(old)
          /\ UNCHANGED <<pending, block, own, saved, popped, new>>

(* An exception of pop_block(), or of a block applied again, leaves        *)
(* push_block() with the chain as it is then.                              *)
PushThrows ==
  /\ pc \in {"pop", "pop_bad", "reapply"}
  /\ UNCHANGED chain
  /\ End

Next ==
  \/ \E t \in Txs : PushTransaction(t)
  \/ \E b \in Blocks : Len(chain) < MaxHeight /\ PushBlock(b)
  \/ PushToSwitch
  \/ \E when \in 1 .. MaxTime : GenerateBlock(when)
  \/ ExtendChain \/ ExtendFails
  \/ PopOld \/ \E b \in Blocks : ApplyNew(b)
  \/ SwitchDone \/ ApplyNewFails \/ PopNew \/ Reapply \/ PushThrows

Spec == Init /\ [][Next]_vars

------------------------------------------------------------------------------

(* No transaction is applied twice on one branch, neither by two blocks    *)
(* nor by a block and the pending session, also when it was popped, saved  *)
(* and restored in between, and at the very slot in which it expires and   *)
(* leaves the index of known transactions.                                 *)
AppliedOnce ==
  /\ TypeOK
  /\ IsInjective(TxsOf(chain) \o pending)

(* The restorer loses nothing: a transaction that was pending, or in a     *)
(* block that was popped, is on the chain or pending again when            *)
(* push_block() returns, or cannot be applied any more.                    *)
NothingLost ==
  [][pc # "idle" /\ pc' = "idle" =>
       \A t \in Range(popped) \cup Range(saved) :
         \/ t \in Range(TxsOf(chain')) \cup Range(pending')
         \/ ~ Applies(t, chain', pending')]_vars

(* A block that _generate_block() made applies to the head it was made     *)
(* for, although transactions that expired or did not fit were left out.   *)
OwnBlockApplies == pc = "extend" /\ own => BlockApplies(block, chain)
==============================================================================
