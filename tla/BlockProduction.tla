--------------------------- MODULE BlockProduction ---------------------------
(***************************************************************************)
(* Slots, the block production loop and hardforks (database.cpp,           *)
(* witness_schedule.cpp, witness_plugin.cpp), as one node sees them.  Time *)
(* is divided into slots, each belongs to one witness of the schedule.     *)
(* Blocks arrive from the network or are produced here: the main thread    *)
(* looks at the chain without taking a lock and puts a request into the    *)
(* write queue, the writer thread carries it out later.  Every block may   *)
(* report its witness's version and vote on the next hardfork; hardforks   *)
(* that are past when the chain begins are applied with the first block.   *)
(*                                                                         *)
(* All witnesses with a key fit into the schedule here; who gets in when   *)
(* they do not is in module WitnessSchedule.                               *)
(***************************************************************************)
EXTENDS Integers, Sequences, FiniteSets, FiniteSetsExt, SequencesExt

CONSTANTS
  Witness,
  Local,           \* the witnesses whose keys this node has
  Interval,        \* ZATTERA_BLOCK_INTERVAL, in seconds
  MaxWitnesses,    \* ZATTERA_MAX_WITNESSES, also the blocks of a round
  BlocksPerDay,    \* ZATTERA_BLOCKS_PER_DAY
  WindowSize,      \* bits of recent_slots_filled
  MinFilled,       \* filled slots in it that required-participation asks for
  HardforkQuorum,  \* ZATTERA_HARDFORK_REQUIRED_WITNESSES
  HardforkTimes,   \* _hardfork_times of the hardforks this node knows
  Reports,         \* what blocks of others report: their version, or NONE,
                   \* and a hardfork vote, [version, time], or NONE
  MaxTime,         \* bound: the clock
  MaxDelay,        \* bound: the seconds a block is under way
  NONE

NumHardforks == Len(HardforkTimes)

Votes == [version : Nat, time : Nat]

ASSUME ProductionAssumption ==
  /\ IsFiniteSet(Witness) /\ Witness # {} /\ Local \subseteq Witness
  /\ Cardinality(Witness) <= MaxWitnesses
  /\ {Interval, MaxWitnesses, BlocksPerDay, WindowSize} \subseteq Nat \ {0}
  /\ {MinFilled, HardforkQuorum, MaxTime, MaxDelay} \subseteq Nat
  /\ HardforkTimes \in Seq(Nat)
  /\ Reports \subseteq [version : Nat \cup {NONE}, vote : Votes \cup {NONE}]
  /\ NONE \notin Nat /\ NONE \notin Votes

VARIABLES
  clock,      \* the node's clock, in seconds since genesis
  time,       \* head_block_time
  number,     \* head_block_number
  aslot,      \* current_aslot
  window,     \* recent_slots_filled, oldest bit first
  count,      \* participation_count
  schedule,   \* current_shuffled_witnesses
  keyed,      \* witnesses with a signing key
  confirmed,  \* confirmed[w]: last_confirmed_block_num
  running,    \* running[w]: running_version, the hardfork it knows
  ballot,     \* ballot[w]: hardfork_version_vote and hardfork_time_vote
  next,       \* next_hardfork and next_hardfork_time
  hardfork,   \* last_hardfork
  incoming,   \* the block the writer thread is working on, or NONE
  asked,      \* the production loop's request in the write queue, or NONE
  enabled,    \* _production_enabled
  filled,     \* history variable: the slots that have a block
  mandate     \* history variable: who voted for next at the last count

chainState == <<time, number, aslot, window, count, schedule, keyed, confirmed,
                running, ballot, next, hardfork, filled, mandate>>
vars == <<clock, chainState, incoming, asked, enabled>>

NoVote == [version |-> 0, time |-> 0]

Blocks ==
  [time : Nat, witness : Witness, version : Nat \cup {NONE},
   vote : Votes \cup {NONE}, rekeyed : SUBSET Witness]

TypeOK ==
  /\ clock \in 0 .. MaxTime /\ time \in 0 .. MaxTime
  /\ number \in Nat /\ aslot \in Nat
  /\ window \in [1 .. WindowSize -> {0, 1}] /\ count \in 0 .. WindowSize
  /\ schedule \in Seq(Witness) /\ schedule # << >>
  /\ keyed \subseteq Witness
  /\ confirmed \in [Witness -> 0 .. number]
  /\ running \in [Witness -> Nat]
  /\ ballot \in [Witness -> Votes]
  /\ next \in Votes
  /\ hardfork \in 0 .. NumHardforks
  /\ incoming \in Blocks \cup {NONE}
  /\ asked \in [time : 1 .. MaxTime, witness : Local] \cup {NONE}
  /\ enabled \in BOOLEAN

(* A schedule of all witnesses, a full window, hardfork 0.                 *)
Init ==
  /\ clock = 0 /\ time = 0 /\ number = 0 /\ aslot = 0
  /\ window = [i \in 1 .. WindowSize |-> 1] /\ count = WindowSize
  /\ schedule \in SetToSeqs(Witness) /\ keyed = Witness
  /\ confirmed = [w \in Witness |-> 0]
  /\ running = [w \in Witness |-> 0]
  /\ ballot = [w \in Witness |-> NoVote]
  /\ next = NoVote /\ hardfork = 0
  /\ incoming = NONE /\ asked = NONE /\ enabled = FALSE
  /\ filled = {} /\ mandate = {}

------------------------------------------------------------------------------

(* get_slot_time(): slot 0 is the one of the head block.                   *)
SlotTime(n) == IF n = 0 THEN 0 ELSE (time \div Interval) * Interval + n * Interval

(* get_slot_at_time().                                                     *)
SlotAt(t) == IF t < SlotTime(1) THEN 0 ELSE (t - SlotTime(1)) \div Interval + 1

(* get_scheduled_witness().                                                *)
Scheduled(n) == schedule[((aslot + n) % Len(schedule)) + 1]

(* Mutant: whoever has a key may produce.                                  *)
ValidHeaderAnyone(b) ==
  /\ time < b.time
  /\ b.witness \in keyed
  /\ SlotAt(b.time) > 0

(* validate_block_header(); the empty key signs nothing.                   *)
ValidHeader(b) ==
  /\ time < b.time
  /\ b.witness \in keyed
  /\ SlotAt(b.time) > 0
  /\ b.witness = Scheduled(SlotAt(b.time))

(* The hardforks that are past when the chain begins, and what             *)
(* _apply_block() makes of the state with them before it looks at b.       *)
GenesisHardforks(b) ==
  IF number = 0
  THEN Max({n \in 0 .. NumHardforks : \A i \in 1 .. n : HardforkTimes[i] <= b.time})
  ELSE 0

AtGenesis(b) == GenesisHardforks(b) > 0

HardforkAt(b) == IF AtGenesis(b) THEN GenesisHardforks(b) ELSE hardfork

NextAt(b) ==
  IF AtGenesis(b) THEN [version |-> GenesisHardforks(b), time |-> time] ELSE next

RunningAt(b) ==
  IF AtGenesis(b) THEN [w \in Witness |-> GenesisHardforks(b)] ELSE running

BallotAt(b) ==
  IF AtGenesis(b)
  THEN [w \in Witness |-> [version |-> GenesisHardforks(b),
                           time |-> HardforkTimes[GenesisHardforks(b)]]]
  ELSE ballot

(* process_header_extensions(): what b reports and votes for.              *)
RunningAfter(b) ==
  [RunningAt(b) EXCEPT ![b.witness] = IF b.version = NONE THEN @ ELSE b.version]

VotesAfter(b) ==
  [BallotAt(b) EXCEPT ![b.witness] = IF b.vote = NONE THEN @ ELSE b.vote]

(* The witness runs the current hardfork, counting what b reports.         *)
Upgraded(b) == RunningAfter(b)[b.witness] >= HardforkAt(b)

(* Mutant: one missed slot is enough.                                      *)
ShutDownEarly(b) ==
  {Scheduled(i) : i \in 1 .. SlotAt(b.time) - 1} \ {b.witness}

(* Witnesses that lose their key because they missed a slot before b and   *)
(* have not produced for a day.                                            *)
ShutDown(b) ==
  {w \in {Scheduled(i) : i \in 1 .. SlotAt(b.time) - 1} \ {b.witness} :
     number - confirmed[w] > BlocksPerDay}

(* The bits of recent_slots_filled after one for the block and then one    *)
(* for every missed slot have been shifted in.                             *)
Shifted(missed) ==
  LET bits == window \o <<1>> \o [i \in 1 .. missed |-> 0]
  IN SubSeq(bits, Len(bits) - WindowSize + 1, Len(bits))

(* participation_count goes down for every set bit that is shifted out.    *)
Counted(missed) ==
  LET bits == window \o <<1>> \o [i \in 1 .. missed |-> 0]
      out == SubSeq(bits, 1, missed + 1)
  IN count + 1 - Cardinality({i \in DOMAIN out : out[i] = 1})

(* update_witness_schedule4()'s count of the votes of the round that ends, *)
(* in the order of the votes; without a quorum next falls back.            *)
Supporters(votes, v) == {w \in Range(schedule) : votes[w] = v}

Wanted(votes) ==
  {v \in Range(votes) : Cardinality(Supporters(votes, v)) >= HardforkQuorum}

FirstVote(V) ==
  CHOOSE v \in V : \A u \in V :
    v.version < u.version \/ (v.version = u.version /\ v.time <= u.time)

(* Mutant: what once had a quorum stays.                                   *)
TallyOnce(b) ==
  LET wanted == Wanted(VotesAfter(b)) IN IF wanted # {} THEN FirstVote(wanted) ELSE NextAt(b)

Tally(b) ==
  LET wanted == Wanted(VotesAfter(b))
  IN IF wanted # {} THEN FirstVote(wanted) ELSE [NextAt(b) EXCEPT !.version = HardforkAt(b)]

(* The votes are counted at the end of a round.                            *)
RoundEnds == (number + 1) % MaxWitnesses = 0

NextAfter(b) == IF RoundEnds THEN Tally(b) ELSE NextAt(b)

(* process_hardforks() applies one after the other; one that this node     *)
(* does not know throws.                                                   *)
HardforkDue(b) == HardforkAt(b) < NextAfter(b).version /\ NextAfter(b).time <= b.time

CanApply(b) ==
  /\ ValidHeader(b)
  /\ Upgraded(b)
  /\ HardforkDue(b) => NextAfter(b).version <= NumHardforks

(* _apply_block(b).                                                        *)
ApplyBlock(b) ==
  LET missed == SlotAt(b.time) - 1
      left == (keyed \cup b.rekeyed) \ ShutDown(b)
  IN /\ CanApply(b)
     /\ running' = RunningAfter(b)
     /\ ballot' = VotesAfter(b)
     /\ keyed' = left
     /\ window' = Shifted(missed) /\ count' = Counted(missed)
     /\ number' = number + 1 /\ time' = b.time /\ aslot' = aslot + missed + 1
     /\ confirmed' = [confirmed EXCEPT ![b.witness] = number + 1]
     /\ schedule' \in IF RoundEnds THEN SetToSeqs(left) ELSE {schedule}
     /\ next' = NextAfter(b)
     /\ hardfork' = IF HardforkDue(b) THEN NextAfter(b).version ELSE HardforkAt(b)
     /\ filled' = filled \cup {b.time \div Interval}
     /\ mandate' = IF RoundEnds THEN Supporters(VotesAfter(b), next') ELSE mandate

------------------------------------------------------------------------------

Tick ==
  /\ clock < MaxTime
  /\ clock' = clock + 1
  /\ UNCHANGED <<chainState, incoming, asked, enabled>>

(* The writer thread begins with a block from the network.  It may give a  *)
(* witness its key back.                                                   *)
Receive(t, w, r, rekeyed) ==
  /\ incoming = NONE
  /\ clock - MaxDelay <= t /\ t <= clock
  /\ incoming' = [time |-> t, witness |-> w, version |-> r.version,
                  vote |-> r.vote, rekeyed |-> rekeyed]
  /\ ValidHeader(incoming')
  /\ UNCHANGED <<clock, chainState, asked, enabled>>

Apply ==
  /\ incoming # NONE
  /\ ApplyBlock(incoming)
  /\ incoming' = NONE
  /\ UNCHANGED <<clock, asked, enabled>>

(* The block fails and its session is undone: the witness is not upgraded, *)
(* the header does not fit any more, or a hardfork is unknown.             *)
ApplyFails ==
  /\ incoming # NONE
  /\ ~ CanApply(incoming)
  /\ incoming' = NONE
  /\ UNCHANGED <<clock, chainState, asked, enabled>>

(* maybe_produce_block() on a chain that is not being written to.  The     *)
(* clock, rounded to a second, has to be that of the slot.                 *)
DueNow(w) ==
  /\ SlotAt(clock) > 0
  /\ w = Scheduled(SlotAt(clock))
  /\ w \in keyed
  /\ Cardinality({i \in DOMAIN window : window[i] = 1}) >= MinFilled
  /\ SlotTime(SlotAt(clock)) = clock

(* The production loop wakes up.  It reads without a lock: while a block   *)
(* is being applied it can see any mixture of fields, so any witness of    *)
(* its own may look due, but the slot time is the clock's.                 *)
Wake(w) ==
  /\ asked = NONE
  /\ enabled' = (enabled \/ SlotTime(1) >= clock)
  /\ enabled'
  /\ incoming = NONE => DueNow(w)
  /\ clock % Interval = 0 /\ clock > 0
  /\ asked' = [time |-> clock, witness |-> w]
  /\ UNCHANGED <<clock, chainState, incoming>>

(* It wakes up, finds the chain in sync for the first time and has nothing *)
(* else to do.                                                             *)
Synced ==
  /\ ~ enabled
  /\ SlotTime(1) >= clock
  /\ enabled' = TRUE
  /\ UNCHANGED <<clock, chainState, incoming, asked>>

(* _generate_block() looks at slot, witness and key again.                 *)
CanGenerate ==
  /\ SlotAt(asked.time) > 0
  /\ Scheduled(SlotAt(asked.time)) = asked.witness
  /\ asked.witness \in keyed

(* The node reports its version when it is new, and votes for the next     *)
(* hardfork it knows, or against one it does not.                          *)
OwnVersion == IF running[asked.witness] # NumHardforks THEN NumHardforks ELSE NONE

OwnVote ==
  LET v == ballot[asked.witness]
      known(h) == [version |-> h, time |-> IF h = 0 THEN 0 ELSE HardforkTimes[h]]
  IN IF hardfork < NumHardforks
     THEN IF v # known(hardfork + 1) THEN known(hardfork + 1) ELSE NONE
     ELSE IF v.version > NumHardforks THEN known(hardfork) ELSE NONE

OwnBlock ==
  [time |-> asked.time, witness |-> asked.witness, version |-> OwnVersion,
   vote |-> OwnVote, rekeyed |-> {}]

(* The writer thread takes the request, between two blocks.                *)
Generate ==
  /\ asked # NONE /\ incoming = NONE
  /\ CanGenerate
  /\ ApplyBlock(OwnBlock)
  /\ asked' = NONE
  /\ UNCHANGED <<clock, incoming, enabled>>

GenerateFails ==
  /\ asked # NONE /\ incoming = NONE
  /\ ~ (CanGenerate /\ CanApply(OwnBlock))
  /\ asked' = NONE
  /\ UNCHANGED <<clock, chainState, incoming, enabled>>

Next ==
  \/ Tick
  \/ \E t \in 1 .. MaxTime, w \in Witness \ Local, r \in Reports,
        rekeyed \in SUBSET (Witness \ keyed) : Receive(t, w, r, rekeyed)
  \/ Apply \/ ApplyFails
  \/ Synced \/ \E w \in Local : Wake(w)
  \/ Generate \/ GenerateFails

Spec == Init /\ [][Next]_vars

------------------------------------------------------------------------------

(* current_aslot is "the total number of slots since genesis", whatever    *)
(* slots were missed and wherever in its slot a block has its timestamp.   *)
SlotIsTime == aslot = time \div Interval

(* A block is only ever accepted from the witness whose turn the time of   *)
(* the block alone says it is, and with it no slot gets a second block.    *)
InTurn ==
  [][number' # number =>
       /\ confirmed'[schedule[((time' \div Interval) % Len(schedule)) + 1]] = number'
       /\ time' \div Interval \notin filled]_vars

(* The participation a node bases its production on is not overstated: it  *)
(* is the number of bits set, and at most the number of recent slots that  *)
(* were filled, those before genesis included.                             *)
ParticipationHonest ==
  /\ count = Cardinality({i \in DOMAIN window : window[i] = 1})
  /\ count <= Cardinality({s \in aslot - WindowSize + 1 .. aslot : s <= 0 \/ s \in filled})

(* A witness that produced within a day keeps its key.                     *)
ActiveKeepKeys ==
  \A w \in Witness \ keyed : number - confirmed[w] > BlocksPerDay

(* What update_global_dynamic_data() keeps by increments over blocks and   *)
(* missed slots, is what the slots themselves say.                         *)
SlotsSound ==
  /\ TypeOK
  /\ SlotIsTime
  /\ ParticipationHonest
  /\ ActiveKeepKeys

(* A hardfork is applied only on the votes of a quorum of the last full    *)
(* round, for a hardfork at least as high and for a time that has come.    *)
(* The one exception is the first block of the chain: it applies, without  *)
(* a vote, hardforks whose times were past already.                        *)
HardforkByQuorum ==
  [][hardfork' # hardfork =>
       \/ /\ Cardinality(mandate') >= HardforkQuorum
          /\ hardfork' = next'.version /\ next'.time <= time'
       \/ number = 0 /\ \A i \in 1 .. hardfork' : HardforkTimes[i] <= time']_vars
==============================================================================
