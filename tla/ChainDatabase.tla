---------------------------- MODULE ChainDatabase ----------------------------
(***************************************************************************)
(* database (database.cpp): the chain of applied blocks with its undo      *)
(* sessions, the fork database that chooses between branches, and the      *)
(* block log that irreversible blocks are written to.  push_block() runs   *)
(* under the write lock, one call at a time; its pops and applications of  *)
(* blocks are separate steps because each of them can throw and each       *)
(* commits, logs and prunes on its own.                                    *)
(*                                                                         *)
(* The chain state is a function of the blocks applied, so the model keeps *)
(* their sequence; ChainbaseIndex is where undoing a session is shown to   *)
(* restore the state before it.  What a block contains is reduced to how   *)
(* applying it ends.                                                       *)
(***************************************************************************)
EXTENDS ForkDatabase, SequencesExt

CONSTANTS
  Fate,               \* Fate[b]: "ok"; "early": the header or a transaction is
                      \* invalid; "veto": a handler of the irreversible-block
                      \* signal throws a plugin_exception; "late": what follows
                      \* the irreversibility update throws; "flaky": that may
                      \* happen or not
  Producer,           \* block header field witness
  Witnesses,          \* the scheduled witnesses, the same set in every round
  MaxWitnesses,       \* ZATTERA_MAX_WITNESSES
  StartVotingBlock,   \* ZATTERA_START_WITNESS_VOTING_BLOCK
  MaxUndoHistory,     \* ZATTERA_MAX_UNDO_HISTORY
  MaxSpoils           \* bound: how far spoils counts, and how often a block is
                      \* pushed again with the consequences told there

ASSUME ChainAssumption ==
  /\ Fate \in [Blocks -> {"ok", "early", "veto", "late", "flaky"}]
  /\ IsFiniteSet(Witnesses) /\ Witnesses # {}
  /\ Producer \in [Blocks -> Witnesses]
  /\ {MaxWitnesses, StartVotingBlock, MaxUndoHistory, MaxSpoils} \subseteq Nat \ {0}

VARIABLES
  chain,    \* the applied blocks, oldest first
  base,     \* blocks whose undo state was committed: undo() stops here
  log,      \* the block log on disk
  fork,     \* the fork database
  pc,       \* where push_block() is: "idle" between calls, "extend" applying
            \* the pushed block, "pop", "apply" switching to a branch,
            \* "pop_bad", "reapply" going back after a failed switch; "down"
            \* while the node is not running, "broken" when no start of it
            \* gets through any more
  new,      \* branches.first, oldest first; the pushed block in "extend"
  old,      \* branches.second, oldest first
  at,       \* position in new or old of the next block to apply
  clean,    \* history variable: no call has thrown since the node came up,
            \* other than for a block the fork database refuses, and Tidy
  spoils    \* history variable: how often a switch of branches threw, a block
            \* was vetoed, or one that the fork database holds was pushed again
            \* while the fork head is a block that failed to be applied

vars == <<chain, base, log, fork, pc, new, old, at, clean, spoils>>

Tidy == spoils = 0

HeadBlock == IF chain = << >> THEN NONE ELSE Last(chain)

TypeOK ==
  /\ chain \in Seq(Blocks)
  /\ base \in 0 .. Len(chain)
  /\ log \in Seq(Blocks)
  /\ fork \in ForkDatabases
  /\ pc \in {"idle", "extend", "pop", "apply", "pop_bad", "reapply",
             "down", "broken"}
  /\ new \in Seq(Blocks) /\ old \in Seq(Blocks) /\ at \in Nat
  /\ clean \in BOOLEAN /\ spoils \in 0 .. MaxSpoils

Init ==
  /\ chain = << >> /\ base = 0 /\ log = << >>
  /\ fork = EmptyForkDb(DefaultMaxSize)
  /\ pc = "idle" /\ new = << >> /\ old = << >> /\ at = 0
  /\ clean = TRUE /\ spoils = 0

------------------------------------------------------------------------------

(* last_confirmed_block_num of witness w after the blocks of c.            *)
LastConfirmed(c, w) ==
  Max({0} \cup {i \in 1 .. Len(c) : Producer[c[i]] = w})

(* The element nth_element() puts at the offset that leaves 75 % of the    *)
(* scheduled witnesses at or above it.                                     *)
ConfirmedByMost(c) ==
  LET offset == (2500 * Cardinality(Witnesses)) \div 10000
      last == [w \in Witnesses |-> LastConfirmed(c, w)]
  IN  CHOOSE n \in 0 .. Len(c) :
        /\ Cardinality({w \in Witnesses : last[w] < n}) <= offset
        /\ Cardinality({w \in Witnesses : last[w] <= n}) > offset

(* last_irreversible_block_num once the blocks of c are applied.           *)
Lib(c) ==
  IF Len(c) < StartVotingBlock
  THEN Max({0, Len(c) - MaxWitnesses})
  ELSE Max({ConfirmedByMost(c), Max({0, StartVotingBlock - 1 - MaxWitnesses})})

(* The blocks update_last_irreversible_block() appends to the log, up to   *)
(* the first one that the fork database cannot name.                       *)
Appended(lib) ==
  LET missing == {n \in Len(log) + 1 .. lib : FetchOnMainBranch(fork, n) = NONE}
      last == IF missing = {} THEN Max({Len(log), lib}) ELSE Min(missing) - 1
  IN [i \in 1 .. last - Len(log) |-> FetchOnMainBranch(fork, Len(log) + i)]

(* Mutant: the header's previous id is not checked.                        *)
AcceptsAnyParent(b) ==
  /\ Fate[b] # "early"
  /\ Len(chain) + 1 - Lib(chain) < MaxUndoHistory

(* apply_block(b) up to the irreversibility update.                        *)
Accepts(b) ==
  /\ Prev[b] = HeadBlock
  /\ Fate[b] # "early"
  /\ Len(chain) + 1 - Lib(chain) < MaxUndoHistory

(* update_last_irreversible_block(): commit, append to the log, prune the  *)
(* fork database g; the log assertion throws between the last two.         *)
LogComplete(lib) == Len(log) + Len(Appended(lib)) >= lib

CommitLib(lib) ==
  /\ base' = Max({base, lib})
  /\ log' = log \o Appended(lib)

PrunedFork(lib) ==
  IF LogComplete(lib) THEN SetMaxSize(fork, Len(chain) + 1 - lib + 1) ELSE fork

(* The last irreversible block once b is applied.                          *)
LibWith(b) == Lib(Append(chain, b))

(* apply_block(b), where lib is LibWith(b).                                *)
ApplyBlock(b, lib) ==
  /\ Accepts(b)
  /\ LogComplete(lib)
  /\ Fate[b] \in {"ok", "flaky"}
  /\ chain' = Append(chain, b)
  /\ CommitLib(lib)

(* notify_irreversible_block() throws between the commit and the log.      *)
Vetoed(b) == Accepts(b) /\ Fate[b] = "veto"

(* A failed application: the session's destructor takes the block's        *)
(* changes back, unless the commit has already dropped its undo state; the *)
(* commit and the log keep what they did.                                  *)
FailToApply(b, lib) ==
  /\ Accepts(b) /\ LogComplete(lib) => Fate[b] \in {"veto", "late", "flaky"}
  /\ IF Accepts(b)
     THEN /\ IF Vetoed(b) THEN base' = Max({base, lib}) /\ UNCHANGED log ELSE CommitLib(lib)
          /\ chain' = IF lib > Len(chain) THEN Append(chain, b) ELSE chain
     ELSE UNCHANGED <<chain, base, log>>

(* The fork database as apply_block(b) leaves it.                          *)
ForkAfter(b, lib) == IF Accepts(b) /\ ~ Vetoed(b) THEN PrunedFork(lib) ELSE fork

------------------------------------------------------------------------------

Held == Range(new) \cup Range(old)

Spoil(bad) == spoils' = IF bad /\ spoils < MaxSpoils THEN spoils + 1 ELSE spoils

(* The call ends: nothing but the index and _head owns blocks any more.    *)
(* After the calls that end in "spoilt" later ones may go wrong: a switch  *)
(* that threw, and a block whose commit did not reach the log.             *)
Return(how, f) ==
  /\ \E g \in {f} : fork' = Expire(g, {})
  /\ pc' = "idle" /\ new' = << >> /\ old' = << >> /\ at' = 0
  /\ clean' = (clean /\ how = "done")
  /\ Spoil(how = "spoilt")

(* is_known_block(), behind the p2p plugin's has_item().  push_block() does *)
(* not ask it.                                                             *)
Known(b) == b \in fork.index \cup Range(log)

(* A block comes in from a peer, a producer or the broadcast API, for the  *)
(* first time or again.                                                    *)
Deliver(b) ==
  /\ pc = "idle"
  /\ UNCHANGED <<chain, base, log>>

(* fork_db.push_block() throws: too old, or no known parent.               *)
PushRejected(b) ==
  /\ Deliver(b)
  /\ ~ CanPush(fork, b)
  /\ Return("done", fork)

(* Mutant: a branch that is higher by one block is not switched to.        *)
PushStoredHigher(b) ==
  LET f == PushItem(fork, b) IN
    /\ Deliver(b)
    /\ CanPush(fork, b)
    /\ Prev[f.head] # HeadBlock
    /\ Num[f.head] <= Len(chain) + 1
    /\ Return("done", f)

(* The fork head neither extends the chain nor is higher: stored only.     *)
PushStored(b) ==
  LET f == PushItem(fork, b) IN
    /\ Deliver(b)
    /\ CanPush(fork, b)
    /\ Prev[f.head] # HeadBlock
    /\ Num[f.head] <= Len(chain)
    /\ Return("done", f)

(* The fork head builds on the chain head: the pushed block, be it that    *)
(* one or another, is going to be applied.  One that the index held before *)
(* is of the chain, or beside it, and cannot be: ExtendFails takes it out. *)
PushExtends(b) ==
  LET f == PushItem(fork, b) IN
    /\ Deliver(b)
    /\ CanPush(fork, b)
    /\ Prev[f.head] = HeadBlock
    /\ fork' = f
    /\ pc' = "extend" /\ new' = <<b>>
    /\ b \in fork.index => spoils < MaxSpoils
    /\ Spoil(b \in fork.index) /\ clean' = (clean /\ b \notin fork.index)
    /\ UNCHANGED <<old, at>>

(* The fork head is higher and on another branch: switch to it.            *)
PushSwitches(b) ==
  LET f == PushItem(fork, b) IN
    /\ Deliver(b)
    /\ CanPush(fork, b)
    /\ Prev[f.head] # HeadBlock
    /\ Num[f.head] > Len(chain)
    /\ IF HeadBlock # NONE /\ CanFetchBranches(f, f.head, HeadBlock)
       THEN /\ fork' = f
            /\ pc' = "pop"
            /\ new' = BranchFrom(f, f.head, HeadBlock)
            /\ old' = BranchFrom(f, HeadBlock, f.head)
            /\ at' = 1
            /\ UNCHANGED <<clean, spoils>>
       ELSE Return("spoilt", f)

ExtendChain ==
  /\ pc = "extend"
  /\ \E lib \in {LibWith(new[1])} :
       ApplyBlock(new[1], lib) /\ Return("done", ForkAfter(new[1], lib))

(* The catch block removes the pushed block and leaves _head where it is.  *)
ExtendFails ==
  /\ pc = "extend"
  /\ \E lib \in {LibWith(new[1])} :
       /\ FailToApply(new[1], lib)
       /\ Return(IF Vetoed(new[1]) THEN "spoilt" ELSE "failed",
                 RemoveItems(ForkAfter(new[1], lib), {new[1]}))

------------------------------------------------------------------------------

ForkPoint == Prev[old[1]]

(* pop_block() needs the head block, from the fork database or the log,    *)
(* and the parent of the fork database's head.                             *)
CanPop ==
  /\ HeadBlock # NONE
  /\ HeadBlock \notin fork.index => Len(log) >= Len(chain) /\ log[Len(chain)] = HeadBlock
  /\ CanPopItem(fork)

(* pop_block(): undo() does nothing once all undo state is committed.      *)
PopBlock ==
  /\ pc \in {"pop", "pop_bad"}
  /\ HeadBlock # ForkPoint
  /\ CanPop
  /\ chain' = IF Len(chain) > base THEN Front(chain) ELSE chain
  /\ fork' = PopItem(fork)
  /\ UNCHANGED <<base, log, pc, new, old, at, clean, spoils>>

PopThrows ==
  /\ pc \in {"pop", "pop_bad"}
  /\ HeadBlock # ForkPoint
  /\ ~ CanPop
  /\ Return("spoilt", fork)
  /\ UNCHANGED <<chain, base, log>>

PopsDone ==
  /\ pc \in {"pop", "pop_bad"}
  /\ HeadBlock = ForkPoint
  /\ pc' = IF pc = "pop" THEN "apply" ELSE "reapply"
  /\ UNCHANGED <<chain, base, log, fork, new, old, at, clean, spoils>>

ApplyNew ==
  /\ pc = "apply"
  /\ \E lib \in {LibWith(new[at])} :
       /\ ApplyBlock(new[at], lib)
       /\ \E f \in {ForkAfter(new[at], lib)} :
            IF at = Len(new)
            THEN Return("done", f)
            ELSE /\ fork' = Expire(f, Held)
                 /\ at' = at + 1
                 /\ UNCHANGED <<pc, new, old, clean, spoils>>

(* The rest of the new branch is removed and the old head becomes the fork *)
(* head again.                                                             *)
ApplyNewFails ==
  /\ pc = "apply"
  /\ \E lib \in {LibWith(new[at])} :
       /\ FailToApply(new[at], lib)
       /\ \E f \in {RemoveItems(ForkAfter(new[at], lib), Range(SubSeq(new, at, Len(new))))} :
            fork' = SetHead(f, Last(old))
  /\ Spoil(Vetoed(new[at])) /\ clean' = (clean /\ ~ Vetoed(new[at]))
  /\ pc' = "pop_bad" /\ at' = 1
  /\ UNCHANGED <<new, old>>

Reapply ==
  /\ pc = "reapply"
  /\ \E lib \in {LibWith(old[at])} :
       /\ ApplyBlock(old[at], lib)
       /\ \E f \in {ForkAfter(old[at], lib)} :
            IF at = Len(old)
            THEN Return("spoilt", f)
            ELSE /\ fork' = Expire(f, Held)
                 /\ at' = at + 1
                 /\ UNCHANGED <<pc, new, old, clean, spoils>>

ReapplyFails ==
  /\ pc = "reapply"
  /\ \E lib \in {LibWith(old[at])} :
       FailToApply(old[at], lib) /\ Return("spoilt", ForkAfter(old[at], lib))

------------------------------------------------------------------------------

(* The process ends, by close() between two calls or by a crash in one.    *)
(* What is in the memory-mapped file of the chain state and in the log     *)
(* stays; the fork database is gone.                                       *)
Down ==
  /\ pc' = "down" /\ new' = << >> /\ old' = << >> /\ at' = 0
  /\ fork' = EmptyForkDb(DefaultMaxSize)
  /\ clean' = Tidy /\ UNCHANGED spoils

Stop ==
  /\ pc \notin {"down", "broken"}
  /\ Down
  /\ UNCHANGED <<chain, base, log>>

(* The block that push_block() is about to apply.                          *)
Applying(b) ==
  \/ pc = "extend" /\ b = new[1]
  \/ pc = "apply" /\ b = new[at]
  \/ pc = "reapply" /\ b = old[at]

(* A crash inside update_last_irreversible_block(): the undo state is      *)
(* committed, only some of the blocks have reached the log.                *)
CrashInCommit(b) ==
  \E lib \in {LibWith(b)} :
    /\ Applying(b)
    /\ Accepts(b)
    /\ \E k \in 0 .. Len(Appended(lib)) : log' = log \o SubSeq(Appended(lib), 1, k)
    /\ base' = Max({base, lib})
    /\ chain' = IF lib > Len(chain) THEN Append(chain, b) ELSE chain
    /\ Down

(* open() of the database with its plugin's two fallbacks.  undo_all()     *)
(* goes back to the committed blocks, whose last one has to be in the log. *)
HeadInLog == base > 0 => base <= Len(log) /\ log[base] = chain[base]

Started ==
  /\ pc = "down" /\ pc' = "idle"
  /\ UNCHANGED <<new, old, at, clean, spoils>>

Open ==
  /\ Started
  /\ HeadInLog
  /\ chain' = SubSeq(chain, 1, base)
  /\ fork' = IF base = 0 THEN fork ELSE StartBlock(fork, chain[base])
  /\ UNCHANGED <<base, log>>

(* Mutant: the block log is wiped as well.                                 *)
ReindexWipesLog ==
  /\ Started
  /\ log # << >>
  /\ chain' = << >> /\ base' = 0 /\ log' = << >>
  /\ UNCHANGED fork

(* The blocks of the log up to the n-th can be replayed.  What makes a     *)
(* block invalid may be a check that reindex() skips.                      *)
Replays(n) ==
  \A i \in 1 .. n : /\ Prev[log[i]] = IF i = 1 THEN NONE ELSE log[i - 1]
                    /\ Fate[log[i]] \notin {"veto", "late"}

(* reindex(), because open() threw or on request: the state is wiped and   *)
(* rebuilt from the log without undo sessions and with no fork database.   *)
Reindex ==
  /\ Started
  /\ log # << >> /\ Replays(Len(log))
  /\ chain' = log
  /\ base' = Len(log)
  /\ fork' = StartBlock(EmptyForkDb(Len(log) - Lib(log) + 1), Last(log))
  /\ UNCHANGED log

(* apply_block() throws at block n + 1 of the log and ends the program,    *)
(* with the revision of the chain state not yet set: the next open()       *)
(* throws at that, and reindex() is at this block again.                   *)
ReindexThrows ==
  \E n \in 0 .. Len(log) - 1 :
    /\ pc = "down"
    /\ Replays(n) /\ (Replays(n + 1) => Fate[log[n + 1]] = "early")
    /\ pc' = "broken"
    /\ chain' = SubSeq(log, 1, n) /\ base' = n
    /\ UNCHANGED <<log, fork, new, old, at, clean, spoils>>

StartAgain == pc = "broken" /\ UNCHANGED vars

(* reindex() has wiped the state and finds no block to replay.             *)
Resync ==
  /\ Started
  /\ ~ HeadInLog
  /\ log = << >>
  /\ chain' = << >> /\ base' = 0
  /\ UNCHANGED <<log, fork>>

Startup == Open \/ Reindex \/ Resync \/ ReindexThrows \/ StartAgain

(* What push_block() does between its call and its return.                 *)
Step ==
  \/ ExtendChain \/ ExtendFails
  \/ PopBlock \/ PopThrows \/ PopsDone
  \/ ApplyNew \/ ApplyNewFails \/ Reapply \/ ReapplyFails

Next ==
  \/ \E b \in Blocks :
       PushRejected(b) \/ PushStored(b) \/ PushExtends(b) \/ PushSwitches(b)
  \/ Step
  \/ Stop \/ \E b \in Blocks : CrashInCommit(b)
  \/ Startup

Spec == Init /\ [][Next]_vars

(* A call that has begun runs on, its thread holds the write lock; a node  *)
(* that is down is started again.                                          *)
FairSpec == Spec /\ WF_vars(Step) /\ WF_vars(Startup)

Called == pc \notin {"idle", "down", "broken"}

------------------------------------------------------------------------------

(* The applied blocks form one branch and every one of them was applied to *)
(* the end: no switch, failed switch, pop or restart leaves apply_block()  *)
(* half done or stacks a block on another one's parent.  Only a log that   *)
(* has gone wrong can bring in a block that was never valid, at a replay.  *)
ChainIsBranch ==
  /\ TypeOK
  /\ \A i \in 1 .. Len(chain) :
       /\ Prev[chain[i]] = IF i = 1 THEN NONE ELSE chain[i - 1]
       /\ Fate[chain[i]] \in {"ok", "flaky"} \/ (~ Tidy /\ Fate[chain[i]] = "early")

(* The log holds blocks of the node's chain only:                          *)
(* fetch_block_on_main_branch_by_number() names the block that was applied *)
(* even while the fork database's head lags behind the chain, sits on      *)
(* another branch or is a block that failed.                               *)
LogFollowsChain == IsPrefix(log, SubSeq(chain, 1, base))

(* open() finds its head block in the log of a node that is stopped        *)
(* between two calls, which then need not replay the chain.                *)
RestartFindsHead == pc = "idle" => HeadInLog

(* The log is what a restart needs, through switches of branches, blocks   *)
(* that fail to extend the chain, crashes and restarts, as long as no      *)
(* switch has thrown, no handler has vetoed a block, and no block was      *)
(* pushed again on top of one that failed.  push_block() does not prevent  *)
(* the last: then, and after a switch that threw, a block of another       *)
(* branch can get into the log.                                            *)
LogSound == Tidy => LogFollowsChain /\ RestartFindsHead

(* An irreversible block stays: nothing is removed from the log, and a     *)
(* committed block leaves the chain only when the state is rebuilt from    *)
(* the log, which a crash or an exception kept from receiving it or which  *)
(* cannot be replayed that far.                                            *)
CommittedStays ==
  [][/\ IsPrefix(log, log')
     /\ \/ IsPrefix(SubSeq(chain, 1, base), chain')
        \/ pc = "down" /\ chain' = SubSeq(log, 1, base')]_vars

(* Every call of push_block() returns: the two loops that pop blocks until *)
(* the fork point end although undo() does nothing below the last commit.  *)
(* And a node that went down comes up again while its log is sound: one of *)
(* open(), reindex() and the resync gets through.                          *)
PushReturns ==
  /\ Called ~> ~ Called
  /\ pc = "down" /\ Tidy ~> pc = "idle"

(* Between calls the node is on a branch at least as high as any block it  *)
(* knows, in whatever order branches arrived and stops fell: no longer     *)
(* branch is left behind by push_block(), until a call of it throws.       *)
OnHighestBranch ==
  pc = "idle" /\ clean => \A b \in fork.index : Num[b] <= Len(chain)
==============================================================================
