--------------------------- MODULE WitnessSchedule ---------------------------
(***************************************************************************)
(* How the witnesses of a round are chosen (witness_schedule.cpp and       *)
(* adjust_witness_vote() in database.cpp).  The most voted ones are in     *)
(* every round.  The others take turns in virtual time: each runs laps at  *)
(* the speed of its votes, and whoever completes a lap first is next.      *)
(* Virtual time is an unsigned integer whose largest value is the length   *)
(* of a lap, so sums have to be checked for overflow.                      *)
(*                                                                         *)
(* The order in which update_witness_schedule4() shuffles the witnesses    *)
(* and its count of hardfork votes are in module BlockProduction.          *)
(***************************************************************************)
EXTENDS Integers, FiniteSets, FiniteSetsExt

CONSTANTS
  Witness,       \* witness ids, numbers in the order of registration
  Founders,      \* the witnesses registered before the first round
  NameRank,      \* NameRank[w]: where the name of w is in the order of names
  MaxWitnesses,  \* ZATTERA_MAX_WITNESSES
  MaxVoted,      \* max_voted_witnesses
  Lap,           \* ZATTERA_VIRTUAL_SCHEDULE_LAP_LENGTH2, the largest uint128
  TotalVesting,  \* total_vesting_shares
  MaxChanges     \* bound: how often votes and keys change

(* Shares have 63 bits and virtual time has 128: whoever has more votes    *)
(* runs a shorter lap, also once it is rounded.                            *)
ASSUME ScheduleAssumption ==
  /\ Witness \subseteq Nat /\ IsFiniteSet(Witness)
  /\ Founders \subseteq Witness /\ Founders # {}
  /\ NameRank \in [Witness -> Nat]
  /\ MaxVoted \in Nat /\ MaxWitnesses \in Nat /\ MaxVoted < MaxWitnesses
  /\ Lap \in Nat /\ TotalVesting \in Nat /\ TotalVesting * (TotalVesting + 1) < Lap
  /\ MaxChanges \in Nat

VARIABLES
  registered,  \* witnesses with a witness_object
  keyed,       \* those with a signing key
  votes,       \* votes[w]
  position,    \* virtual_position, at the time of the last update
  updated,     \* virtual_last_update
  due,         \* virtual_scheduled_time
  now,         \* current_virtual_time
  scheduled,   \* current_shuffled_witnesses
  changes,     \* changes of votes and keys so far
  overtaken    \* history variable: overtaken[w][v], the rounds v has had a
               \* turn while w waited for one, since votes or keys changed;
               \* three stands for more

vars == <<registered, keyed, votes, position, updated, due, now, scheduled,
          changes, overtaken>>

Time == 0 .. Lap

TypeOK ==
  /\ registered \subseteq Witness /\ keyed \subseteq registered
  /\ votes \in [Witness -> 0 .. TotalVesting]
  /\ position \in [Witness -> Time]
  /\ updated \in [Witness -> Time]
  /\ due \in [Witness -> Time]
  /\ now \in Time
  /\ scheduled \in SUBSET Witness
  /\ changes \in 0 .. MaxChanges
  /\ overtaken \in [Witness -> [Witness -> 0 .. 3]]

Nobody == [w \in Witness |-> [v \in Witness |-> 0]]

(* Before the first round: one of the founders, that of genesis, produces. *)
(* A witness_object has its defaults until votes arrive, and so has the    *)
(* entry of a witness that has none yet.                                   *)
Init ==
  /\ registered = Founders /\ keyed = Founders
  /\ votes = [w \in Witness |-> 0]
  /\ position = [w \in Witness |-> 0]
  /\ updated = [w \in Witness |-> 0]
  /\ due = [w \in Witness |-> Lap]
  /\ now = 0
  /\ scheduled \in {{w} : w \in Founders}
  /\ changes = 0 /\ overtaken = Nobody

------------------------------------------------------------------------------

Change ==
  /\ changes < MaxChanges
  /\ changes' = changes + 1
  /\ overtaken' = Nobody

(* witness_update: registers a witness or replaces its key, by the empty   *)
(* one to leave the schedule.  A witness that missed its blocks for a day  *)
(* loses its key the same way.  One key in place of another is no change.  *)
SetKey(w, hasKey) ==
  /\ Change
  /\ w \in registered => (w \in keyed) # hasKey
  /\ registered' = registered \cup {w}
  /\ keyed' = IF hasKey THEN keyed \cup {w} ELSE keyed \ {w}
  /\ UNCHANGED <<votes, position, updated, due, now, scheduled>>

(* The sum, difference or product of unsigned integers.                    *)
Wrap(x) == x % (Lap + 1)

(* adjust_witness_vote(): w has run at its old speed until now and goes on *)
(* at its new one.                                                         *)
AdjustVote(w, delta) ==
  LET covered == Wrap(position[w] + Wrap(votes[w] * Wrap(now - updated[w])))
      lapEnd == Wrap(now + Wrap(Lap - covered) \div (votes[w] + delta + 1))
  IN /\ Change
     /\ w \in registered
     /\ votes[w] + delta \in 0 .. TotalVesting
     /\ votes' = [votes EXCEPT ![w] = @ + delta]
     /\ position' = [position EXCEPT ![w] = covered]
     /\ updated' = [updated EXCEPT ![w] = now]
     /\ due' = [due EXCEPT ![w] = IF lapEnd < now THEN Lap ELSE lapEnd]
     /\ UNCHANGED <<registered, keyed, now, scheduled>>

------------------------------------------------------------------------------

(* The order of index by_vote_name.                                        *)
MoreVoted(v, w) ==
  votes[v] > votes[w] \/ (votes[v] = votes[w] /\ NameRank[v] < NameRank[w])

(* The order of index by_schedule_time.                                    *)
Sooner(v, w) == due[v] < due[w] \/ (due[v] = due[w] /\ v < w)

(* selected_voted: the first witnesses with a key.                         *)
Voted == {w \in keyed : Cardinality({v \in keyed : MoreVoted(v, w)}) < MaxVoted}

(* processed_witnesses: everyone the loop comes past until the seats are   *)
(* taken by runners, elected witnesses and those without a key too.        *)
Processed(runners, seats) ==
  {w \in registered : Cardinality({v \in runners : Sooner(v, w)}) < seats}

(* Mutant: virtual time stands still. *)
LeadTimeStuck(processed) == now

(* new_virtual_time: that of the last one the loop came past.              *)
LeadTime(processed) == IF processed = {} THEN now ELSE Max({due[w] : w \in processed})

LapTime(w) == Lap \div (votes[w] + 1)

(* reset_virtual_schedule_time(), in place of all that was updated.        *)
ResetVirtualTime ==
  /\ now' = 0
  /\ position' = [w \in Witness |-> 0]
  /\ updated' = [w \in Witness |-> 0]
  /\ due' = [w \in Witness |-> IF w \in registered THEN LapTime(w) ELSE Lap]

(* Mutant: a lap takes the same time whatever the votes.                   *)
AdvanceEqually(processed, t) ==
  /\ now' = t
  /\ position' = [w \in Witness |-> IF w \in processed THEN 0 ELSE position[w]]
  /\ updated' = [w \in Witness |-> IF w \in processed THEN t ELSE updated[w]]
  /\ due' = [w \in Witness |-> IF w \in processed THEN Min({Lap, t + 1}) ELSE due[w]]

(* The witnesses in the set start a new lap at time t; t is not their own  *)
(* but that of the last of them, "everyone advances to at least this time".*)
AdvanceVirtualTime(processed, t) ==
  /\ now' = t
  /\ position' = [w \in Witness |-> IF w \in processed THEN 0 ELSE position[w]]
  /\ updated' = [w \in Witness |-> IF w \in processed THEN t ELSE updated[w]]
  /\ due' = [w \in Witness |-> IF w \in processed THEN t + LapTime(w) ELSE due[w]]

(* Who waited, and who had a turn meanwhile.                               *)
CountTurns(runners, turn) ==
  overtaken' = [w \in Witness |-> [v \in Witness |->
    IF w \in runners \ turn
    THEN Min({3, overtaken[w][v] + (IF v \in turn THEN 1 ELSE 0)})
    ELSE 0]]

(* update_witness_schedule4(), every MaxWitnesses blocks.  With nobody to  *)
(* schedule, update_median_witness_props() throws at the empty name.       *)
UpdateSchedule ==
  \E voted \in {Voted} :
  \E processed \in {Processed(keyed \ voted, MaxWitnesses - Cardinality(voted))} :
  \E t \in {LeadTime(processed)} :
    LET overflow == \E w \in processed : Wrap(t + LapTime(w)) < t
        turn == (processed \cap keyed) \ voted
    IN /\ keyed # {}
       /\ scheduled' = voted \cup turn
       /\ IF overflow THEN ResetVirtualTime ELSE AdvanceVirtualTime(processed, t)
       /\ CountTurns(keyed \ voted, turn)
       /\ UNCHANGED <<registered, keyed, votes, changes>>

Next ==
  \/ \E w \in Witness, k \in BOOLEAN : SetKey(w, k)
  \/ \E w \in Witness, d \in -TotalVesting .. TotalVesting : d # 0 /\ AdjustVote(w, d)
  \/ UpdateSchedule

(* Blocks are produced and so rounds go by; nobody has to vote.            *)
Spec == Init /\ [][Next]_vars /\ WF_vars(UpdateSchedule)

------------------------------------------------------------------------------

(* The unsigned arithmetic of virtual time never wraps unnoticed: nobody   *)
(* is due in the past, and nobody gets further than the end of its lap     *)
(* before it is due.                                                       *)
LapsHold ==
  \A w \in registered :
    /\ updated[w] <= now /\ now <= due[w]
    /\ position[w] + votes[w] * (due[w] - updated[w]) <= Lap

(* While votes and keys stay as they are, a runner-up with a vote is not   *)
(* passed over: nobody with fewer votes gets two turns while it waits,     *)
(* across resets of virtual time too.                                      *)
TurnsByVotes ==
  \A w, v \in Witness :
    w \in keyed /\ votes[w] >= 1 /\ votes[v] < votes[w] => overtaken[w][v] < 2

(* Turns go by votes, in arithmetic that wraps nowhere unnoticed           *)
(* (update_witness_schedule4, adjust_witness_vote,                         *)
(* reset_virtual_schedule_time).                                           *)
TurnsFair ==
  /\ TypeOK
  /\ LapsHold
  /\ TurnsByVotes

(* Every witness with a key and a vote produces again and again, once      *)
(* votes and keys have settled: it is scheduled infinitely often unless it *)
(* is without one of them infinitely often.                                *)
RunnersGetTurns ==
  \A w \in Witness : []<>(w \in scheduled \/ w \notin keyed \/ votes[w] = 0)
==============================================================================
