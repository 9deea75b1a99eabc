------------------------ MODULE WitnessScheduleProofs -------------------------
(***************************************************************************)
(* Proofs about WitnessSchedule, for any witnesses, votes and length of a  *)
(* lap: virtual time wraps nowhere unnoticed, and turns go by votes.       *)
(***************************************************************************)
EXTENDS WitnessSchedule, FiniteSetsExt, FiniteSetTheorems, SequenceTheorems, TLAPS

------------------------------------------------------------------------------
(* Numbers and sequences. *)

(* Every set of natural numbers that is not empty has a least one: what    *)
(* the proofs use in place of induction, for a set of counterexamples.     *)
LEMMA LeastNumber ==
  ASSUME NEW T \in SUBSET Nat, T # {}
  PROVE  \E x \in T : \A y \in T : x <= y
<1> DEFINE R == OpToRel(<, Nat)
<1>1. IsWellFoundedOn(R, Nat)
  BY NatLessThanWellFounded
<1>2. \A x, y \in Nat : x < y => <<x, y>> \in R
  BY DEF OpToRel
<1> HIDE DEF R
<1>3. PICK x \in T : \A y \in T : ~ (<<y, x>> \in R)
  BY <1>1, WFMin
<1>4. \A y \in T : ~ (y < x)
  BY <1>2, <1>3, Zenon
<1> QED
  BY <1>4

(* Division rounds down, and its result is the only number that fits.      *)
LEMMA Quotient ==
  ASSUME NEW a \in Nat, NEW d \in Nat, d > 0
  PROVE  /\ a \div d \in Nat
         /\ (a \div d) * d <= a
         /\ a < (a \div d) * d + d
OBVIOUS

(* The largest of some numbers that are bounded.                           *)
LEMMA LargestWithin ==
  ASSUME NEW n \in Nat, NEW s \in SUBSET (0 .. n), s # {}
  PROVE  Max(s) \in s /\ \A y \in s : y <= Max(s)
<1> DEFINE T == {n - y : y \in s}
<1>1. T \in SUBSET Nat /\ T # {}
  <2>1. \A y \in s : y \in Nat /\ y <= n
    OBVIOUS
  <2>2. \A y \in s : n - y \in Nat
    BY <2>1
  <2> QED BY <2>2
<1>2. PICK t \in T : \A u \in T : t <= u
  BY <1>1, LeastNumber
<1>3. PICK x \in s : t = n - x
  OBVIOUS
<1>4. \A y \in s : x >= y
  <2>1. TAKE y \in s
  <2>2. n - x <= n - y
    BY <1>2, <1>3
  <2>3. x \in Int /\ y \in Int
    OBVIOUS
  <2> QED BY <2>2, <2>3
<1>5. Max(s) \in s /\ \A y \in s : Max(s) >= y
  BY <1>4 DEF Max
<1>6. \A y \in s : y \in Int
  OBVIOUS
<1>7. Max(s) \in Int
  BY <1>5, <1>6
<1> QED BY <1>5, <1>6, <1>7


------------------------------------------------------------------------------
(* The inductive invariant. *)

(* A witness that has no object yet has the defaults of one.               *)
Defaults ==
  \A w \in Witness \ registered :
    votes[w] = 0 /\ position[w] = 0 /\ updated[w] = 0 /\ due[w] = Lap

(* Nobody has to wait for longer than a lap of its own takes.              *)
WithinLap == \A w \in Witness : due[w] <= now + LapTime(w)

(* Who had a turn while another one with more votes waited is behind it    *)
(* now.                                                                    *)
Behind ==
  \A w, v \in Witness :
    overtaken[w][v] > 0 =>
      /\ w \in registered /\ v \in registered
      /\ votes[v] < votes[w] => overtaken[w][v] = 1 /\ due[w] < due[v]

ScheduleInv ==
  /\ TypeOK
  /\ LapsHold
  /\ Defaults
  /\ WithinLap
  /\ Behind

------------------------------------------------------------------------------
(* Arithmetic of virtual time. *)

(* The constants and the variables one by one, as the provers need them.   *)
LEMMA Constants ==
  /\ Lap \in Nat /\ TotalVesting \in Nat /\ TotalVesting * (TotalVesting + 1) < Lap
  /\ Witness \in SUBSET Nat /\ IsFiniteSet(Witness) /\ Founders \in SUBSET Witness
  /\ MaxChanges \in Nat
BY ScheduleAssumption

(* What the types say of one witness.                                      *)
LEMMA Typed ==
  ASSUME TypeOK, NEW w \in Witness
  PROVE  /\ votes[w] \in Nat /\ votes[w] <= TotalVesting
         /\ position[w] \in Nat /\ position[w] <= Lap
         /\ updated[w] \in Nat /\ updated[w] <= Lap
         /\ due[w] \in Nat /\ due[w] <= Lap
         /\ now \in Nat /\ now <= Lap
BY Constants DEF TypeOK, Time

(* The time a lap takes with n votes: the position stays within the lap.   *)
LEMMA LapOf ==
  ASSUME NEW n \in Nat
  PROVE  /\ Lap \div (n + 1) \in Nat /\ Lap \div (n + 1) <= Lap
         /\ n * (Lap \div (n + 1)) <= Lap
<1> DEFINE q == Lap \div (n + 1)
<1>1. q \in Nat /\ q * (n + 1) <= Lap
  BY Constants, Quotient
<1> HIDE DEF q
<1>2. q * (n + 1) = n * q + q /\ n * q \in Nat
  BY <1>1
<1>3. q <= Lap /\ n * q <= Lap
  BY <1>1, <1>2, Constants
<1> QED BY <1>1, <1>3 DEF q

(* More votes, a shorter lap.                                              *)
LEMMA ShorterLap ==
  ASSUME NEW m \in Nat, NEW n \in Nat, m < n, n <= TotalVesting
  PROVE  Lap \div (n + 1) < Lap \div (m + 1)
<1> DEFINE p == Lap \div (n + 1)
           q == Lap \div (m + 1)
<1>1. p \in Nat /\ p * (n + 1) <= Lap
  BY Constants, Quotient
<1>2. q \in Nat /\ Lap < q * (m + 1) + (m + 1)
  BY Constants, Quotient
<1> HIDE DEF p, q
<1>3. SUFFICES ASSUME q <= p PROVE FALSE
  BY <1>1, <1>2 DEF p, q
<1>4. q * (m + 1) <= p * n
  <2>1. q * (m + 1) <= p * (m + 1)
    BY <1>1, <1>2, <1>3
  <2>2. p * (m + 1) <= p * n
    BY <1>1
  <2> QED BY <1>1, <1>2, <2>1, <2>2
<1>5. p * (n + 1) = p * n + p /\ p * n \in Nat
  BY <1>1
<1>6. p < n
  BY <1>1, <1>2, <1>4, <1>5, Constants
<1>7. p * n <= (n - 1) * n /\ (n - 1) * n = n * n - n
  BY <1>1, <1>6
<1>8. n * n <= TotalVesting * TotalVesting
  <2>1. n * n <= TotalVesting * n
    BY Constants
  <2>2. TotalVesting * n <= TotalVesting * TotalVesting
    BY Constants
  <2> QED BY <2>1, <2>2, Constants
<1>9. TotalVesting * (TotalVesting + 1) = TotalVesting * TotalVesting + TotalVesting
  BY Constants
<1>10. q * (m + 1) \in Int /\ p * n \in Int /\ n * n \in Int /\ TotalVesting * TotalVesting \in Int
  BY <1>1, <1>2, Constants
<1> QED BY <1>2, <1>4, <1>7, <1>8, <1>9, <1>10, Constants

(* A sum of two unsigned integers that is too large is recognized by being *)
(* less than its parts.                                                    *)
LEMMA WrapSum ==
  ASSUME NEW x \in Nat, NEW y \in Nat, x <= Lap, y <= Lap
  PROVE  /\ x + y <= Lap => Wrap(x + y) = x + y
         /\ Wrap(x + y) < x <=> x + y > Lap
<1> DEFINE m == Lap + 1
<1>1. m \in Nat /\ m > 0 /\ x < m /\ y < m
  BY Constants
<1>2. CASE x + y <= Lap
  <2>1. (x + y) % (Lap + 1) = x + y
    BY <1>2, Constants
  <2> QED BY <1>2, <2>1, Constants DEF Wrap
<1>3. CASE x + y > Lap
  <2>1. (x + y) % (Lap + 1) = x + y - (Lap + 1)
    BY <1>1, <1>3, Constants
  <2> QED BY <1>3, <2>1, Constants DEF Wrap
<1> QED BY <1>2, <1>3, Constants

(* What is within range is not wrapped.                                    *)
LEMMA WrapNot ==
  ASSUME NEW x \in Nat, x <= Lap
  PROVE  Wrap(x) = x
BY Constants DEF Wrap

------------------------------------------------------------------------------
(* Who comes past first. *)

(* Whoever is not processed is due no sooner than all who are.             *)
LEMMA ProcessedFirst ==
  ASSUME TypeOK, NEW runners \in SUBSET Witness, NEW seats \in Int,
         NEW p \in Processed(runners, seats),
         NEW w \in registered, w \notin Processed(runners, seats)
  PROVE  due[p] <= due[w]
<1> DEFINE Before(x) == {v \in runners : Sooner(v, x)}
<1>1. p \in Witness /\ w \in Witness /\ p \in registered
  BY DEF TypeOK, Processed
<1>2. \A x \in Witness : x \in Nat /\ due[x] \in Nat
  BY Typed, Constants
<1>3. SUFFICES ASSUME due[w] < due[p] PROVE FALSE
  BY <1>1, <1>2
<1>4. Before(w) \subseteq Before(p)
  <2>1. ASSUME NEW v \in runners, Sooner(v, w) PROVE Sooner(v, p)
    <3>1. v \in Witness
      OBVIOUS
    <3> QED BY <1>1, <1>2, <1>3, <2>1, <3>1 DEF Sooner
  <2> QED BY <2>1
<1>5. IsFiniteSet(Before(p))
  BY Constants, FS_Subset
<1>6. IsFiniteSet(Before(w)) /\ Cardinality(Before(w)) <= Cardinality(Before(p))
  BY <1>4, <1>5, FS_Subset
<1>7. Cardinality(Before(p)) \in Nat /\ Cardinality(Before(w)) \in Nat
  BY <1>5, <1>6, FS_CardinalityType
<1>8. Cardinality(Before(p)) < seats /\ ~ (Cardinality(Before(w)) < seats)
  BY DEF Processed
<1> HIDE DEF Before
<1> QED BY <1>6, <1>7, <1>8

(* Virtual time goes on to when the last one of them was due.              *)
LEMMA LeadTimeIs ==
  ASSUME TypeOK, LapsHold, NEW runners \in SUBSET Witness, NEW seats \in Int, NEW processed,
         processed = Processed(runners, seats)
  PROVE  LET t == LeadTime(processed)
         IN  /\ processed \in SUBSET registered
             /\ t \in Nat /\ t <= Lap /\ now <= t
             /\ \A p \in processed : due[p] <= t
             /\ \A w \in registered \ processed : t <= due[w]
<1> DEFINE t == LeadTime(processed)
           T == {due[w] : w \in processed}
<1>1. processed \in SUBSET registered /\ registered \in SUBSET Witness
  BY DEF Processed, TypeOK
<1>2. now \in Nat /\ now <= Lap
  BY Constants DEF TypeOK, Time
<1>3. \A w \in registered : due[w] \in Nat /\ due[w] <= Lap /\ now <= due[w]
  BY <1>1, Typed DEF LapsHold
<1>4. CASE processed = {}
  <2>1. t = now
    BY <1>4 DEF LeadTime
  <2> QED BY <1>1, <1>2, <1>3, <1>4, <2>1
<1>5. CASE processed # {}
  <2>1. T \in SUBSET (0 .. Lap) /\ T # {}
    BY <1>1, <1>3, <1>5
  <2>2. t = Max(T)
    BY <1>5 DEF LeadTime
  <2> HIDE DEF T, t
  <2>3. t \in T /\ \A y \in T : y <= t
    BY <2>1, <2>2, Constants, LargestWithin
  <2>4. PICK p \in processed : t = due[p]
    BY <2>3 DEF T
  <2>5. \A w \in processed : due[w] <= t
    BY <2>3 DEF T
  <2>6. \A w \in registered \ processed : due[p] <= due[w]
    BY ProcessedFirst
  <2>7. t \in Nat /\ t <= Lap /\ now <= t
    BY <1>1, <1>3, <2>4
  <2> QED BY <1>1, <2>4, <2>5, <2>6, <2>7 DEF t
<1> QED BY <1>4, <1>5

------------------------------------------------------------------------------
(* Every step keeps the invariant. *)

(* Before the first round.                                                 *)
LEMMA InitInv == Init => ScheduleInv
<1> SUFFICES ASSUME Init PROVE ScheduleInv
  OBVIOUS
<1>1. 0 \in Time /\ Lap \in Time /\ 0 \in 0 .. TotalVesting /\ 0 \in 0 .. MaxChanges /\ 0 \in 0 .. 3
  BY Constants DEF Time
<1>2. scheduled \in SUBSET Witness
  BY Constants DEF Init
<1>3. TypeOK
  BY <1>1, <1>2, Constants DEF Init, TypeOK, Nobody
<1>4. Lap \div (0 + 1) = Lap
  BY Constants
<1>5. ASSUME NEW w \in Witness
      PROVE  /\ votes[w] = 0 /\ position[w] = 0 /\ updated[w] = 0 /\ due[w] = Lap
             /\ LapTime(w) = Lap /\ now = 0
  BY <1>4 DEF Init, LapTime
<1>6. LapsHold /\ WithinLap /\ Defaults
  <2>1. 0 * (Lap - 0) = 0
    BY Constants
  <2> QED BY <1>3, <1>5, <2>1, Constants DEF LapsHold, WithinLap, Defaults, TypeOK
<1>7. Behind
  BY DEF Init, Behind, Nobody
<1> QED BY <1>3, <1>6, <1>7 DEF ScheduleInv

(* A new witness starts with the defaults, at rest.                        *)
LEMMA SetKeyInv ==
  ASSUME ScheduleInv, NEW x \in Witness, NEW k \in BOOLEAN, SetKey(x, k)
  PROVE  ScheduleInv'
<1> USE DEF ScheduleInv
<1>1. /\ registered' = registered \cup {x}
      /\ UNCHANGED <<votes, position, updated, due, now, scheduled>>
      /\ changes' \in 0 .. MaxChanges /\ overtaken' = Nobody
      /\ keyed' \in SUBSET registered'
  BY Constants DEF SetKey, Change, TypeOK
<1>2. TypeOK'
  BY <1>1 DEF TypeOK, Nobody
<1>3. LapsHold'
  <2>1. ASSUME NEW w \in registered'
        PROVE  /\ updated[w] <= now /\ now <= due[w]
               /\ position[w] + votes[w] * (due[w] - updated[w]) <= Lap
    <3>1. CASE w \in registered
      BY <3>1 DEF LapsHold
    <3>2. CASE w \notin registered
      <4>1. w \in Witness
        BY <1>1 DEF TypeOK
      <4>2. votes[w] = 0 /\ position[w] = 0 /\ updated[w] = 0 /\ due[w] = Lap
        BY <3>2, <4>1 DEF Defaults
      <4>3. now \in Nat /\ now <= Lap /\ 0 * (Lap - 0) = 0
        BY <4>1, Typed, Constants
      <4> QED BY <4>2, <4>3, Constants
    <3> QED BY <3>1, <3>2
  <2> QED BY <1>1, <2>1 DEF LapsHold
<1>4. Defaults' /\ WithinLap'
  BY <1>1 DEF Defaults, WithinLap, LapTime
<1>5. Behind'
  BY <1>1 DEF Behind, Nobody
<1> QED BY <1>2, <1>3, <1>4, <1>5

(* Where a witness gets to in adjust_witness_vote(): no unsigned operation *)
(* wraps but the last sum, and that one is checked.                        *)
LEMMA AdjustedTime ==
  ASSUME ScheduleInv, NEW w \in registered, NEW n \in Nat, NEW covered, NEW lapEnd, NEW end,
         covered = Wrap(position[w] + Wrap(votes[w] * Wrap(now - updated[w]))),
         lapEnd = Wrap(now + Wrap(Lap - covered) \div (n + 1)),
         end = IF lapEnd < now THEN Lap ELSE lapEnd
  PROVE  /\ covered \in Nat /\ covered <= Lap
         /\ end \in Nat /\ end <= Lap /\ now <= end
         /\ covered + n * (end - now) <= Lap
         /\ end <= now + Lap \div (n + 1)
<1> DEFINE v == votes[w]
           u == updated[w]
           p == position[w]
           d == due[w]
           x == (Lap - covered) \div (n + 1)
<1>1. w \in Witness
  BY DEF ScheduleInv, TypeOK
<1>2. /\ v \in Nat /\ u \in Nat /\ p \in Nat /\ d \in Nat /\ now \in Nat /\ Lap \in Nat
      /\ u <= Lap /\ p <= Lap /\ d <= Lap /\ now <= Lap
  BY <1>1, Typed, Constants DEF ScheduleInv
<1>3. u <= now /\ now <= d /\ p + v * (d - u) <= Lap
  BY DEF ScheduleInv, LapsHold
<1> HIDE DEF v, u, p, d
<1>4. now - u \in Nat /\ now - u <= Lap /\ d - u \in Nat /\ now - u <= d - u
  BY <1>2, <1>3
<1>5. v * (now - u) <= v * (d - u) /\ v * (now - u) \in Nat /\ v * (d - u) \in Nat
  BY <1>2, <1>4
<1>6. covered = p + v * (now - u) /\ covered \in Nat /\ covered <= Lap
  <2> DEFINE y == v * (now - u)
             z == v * (d - u)
  <2>1. y \in Nat /\ z \in Nat /\ y <= z /\ p + z <= Lap
    BY <1>3, <1>5
  <2>2. Wrap(now - u) = now - u
    BY <1>4, WrapNot
  <2> HIDE DEF y, z
  <2>3. y <= Lap /\ p + y \in Nat /\ p + y <= Lap
    BY <1>2, <2>1
  <2>4. Wrap(y) = y /\ Wrap(p + y) = p + y
    BY <2>1, <2>3, WrapNot
  <2>5. covered = Wrap(p + Wrap(v * Wrap(now - u)))
    BY DEF p, v, u
  <2> QED BY <2>2, <2>3, <2>4, <2>5 DEF y
<1>7. Wrap(Lap - covered) = Lap - covered /\ Lap - covered \in Nat
  <2>1. Lap - covered \in Nat /\ Lap - covered <= Lap
    BY <1>2, <1>6
  <2> QED BY <2>1, WrapNot
<1>8. x \in Nat /\ x * (n + 1) <= Lap - covered
  BY <1>7, Quotient
<1>9. lapEnd = Wrap(now + x)
  BY <1>7
<1> HIDE DEF x
<1>10. x * (n + 1) = n * x + x /\ n * x \in Nat
  BY <1>8
<1>11. x <= Lap /\ covered + n * x <= Lap
  BY <1>2, <1>6, <1>8, <1>10
<1>12. x <= Lap \div (n + 1)
  <2> DEFINE q == Lap \div (n + 1)
  <2>1. q \in Nat /\ Lap < q * (n + 1) + (n + 1)
    BY <1>2, Quotient
  <2> HIDE DEF q
  <2>2. SUFFICES ASSUME q + 1 <= x PROVE FALSE
    BY <1>8, <2>1 DEF q
  <2>3. (q + 1) * (n + 1) <= x * (n + 1)
    BY <1>8, <2>1, <2>2
  <2>4. (q + 1) * (n + 1) = q * (n + 1) + (n + 1) /\ q * (n + 1) \in Nat /\ x * (n + 1) \in Nat
    BY <1>8, <2>1
  <2> QED BY <1>2, <1>6, <1>8, <2>1, <2>3, <2>4
<1>13. end \in Nat /\ end <= Lap /\ now <= end /\ end <= now + x
  <2>1. CASE now + x <= Lap
    <3>1. lapEnd = now + x
      BY <1>2, <1>8, <1>9, <1>11, <2>1, WrapSum
    <3>2. end = now + x
      BY <1>2, <1>8, <3>1
    <3> QED BY <1>2, <1>8, <2>1, <3>2
  <2>2. CASE ~ (now + x <= Lap)
    <3>1. now + x > Lap
      BY <1>2, <1>8, <2>2
    <3>2. lapEnd < now
      BY <1>2, <1>8, <1>9, <1>11, <3>1, WrapSum
    <3>3. end = Lap
      BY <3>2
    <3> QED BY <1>2, <1>8, <3>1, <3>3
  <2> QED BY <2>1, <2>2
<1>14. n * (end - now) <= n * x /\ n * (end - now) \in Nat
  <2>1. end - now \in Nat /\ end - now <= x
    BY <1>2, <1>8, <1>13
  <2> QED BY <1>8, <2>1
<1>15. covered + n * (end - now) <= Lap
  BY <1>2, <1>6, <1>10, <1>11, <1>14
<1>16. end <= now + Lap \div (n + 1)
  <2> DEFINE q == Lap \div (n + 1)
  <2>1. q \in Nat
    BY <1>2, Quotient
  <2> HIDE DEF q
  <2>2. x <= q
    BY <1>12 DEF q
  <2>3. end <= now + q
    BY <1>2, <1>8, <1>13, <2>1, <2>2
  <2> QED BY <2>3 DEF q
<1> QED BY <1>6, <1>13, <1>15, <1>16

(* A witness whose votes change goes on from where it is.                  *)
LEMMA AdjustInv ==
  ASSUME ScheduleInv, NEW x \in Witness, NEW delta \in Int, AdjustVote(x, delta)
  PROVE  ScheduleInv'
<1> DEFINE n == votes[x] + delta
           covered == Wrap(position[x] + Wrap(votes[x] * Wrap(now - updated[x])))
           lapEnd == Wrap(now + Wrap(Lap - covered) \div (n + 1))
           end == IF lapEnd < now THEN Lap ELSE lapEnd
<1>1. /\ x \in registered /\ n \in 0 .. TotalVesting
      /\ votes' = [votes EXCEPT ![x] = n]
      /\ position' = [position EXCEPT ![x] = covered]
      /\ updated' = [updated EXCEPT ![x] = now]
      /\ due' = [due EXCEPT ![x] = end]
      /\ UNCHANGED <<registered, keyed, now, scheduled>>
      /\ overtaken' = Nobody /\ changes < MaxChanges /\ changes' = changes + 1
  BY DEF AdjustVote, Change
<1>2. n \in Nat
  BY <1>1, Constants
<1>3. /\ covered \in Nat /\ covered <= Lap
      /\ end \in Nat /\ end <= Lap /\ now <= end
      /\ covered + n * (end - now) <= Lap
      /\ end <= now + Lap \div (n + 1)
  <2> HIDE DEF n
  <2> QED BY <1>1, <1>2, AdjustedTime
<1> HIDE DEF n, covered, lapEnd, end
<1>4. covered \in Time /\ end \in Time /\ now \in Time
  BY <1>3, Constants DEF Time, ScheduleInv, TypeOK
<1>5. TypeOK'
  <2>1. changes' \in 0 .. MaxChanges
    BY <1>1, Constants DEF ScheduleInv, TypeOK
  <2> QED BY <1>1, <1>4, <2>1 DEF ScheduleInv, TypeOK, Nobody
<1>6. ASSUME NEW w \in Witness
      PROVE  /\ w # x => /\ votes'[w] = votes[w] /\ position'[w] = position[w]
                         /\ updated'[w] = updated[w] /\ due'[w] = due[w]
             /\ w = x => /\ votes'[w] = n /\ position'[w] = covered
                         /\ updated'[w] = now /\ due'[w] = end
  BY <1>1 DEF ScheduleInv, TypeOK
<1>7. LapsHold'
  <2>1. ASSUME NEW w \in registered
        PROVE  /\ updated'[w] <= now' /\ now' <= due'[w]
               /\ position'[w] + votes'[w] * (due'[w] - updated'[w]) <= Lap
    <3>1. w \in Witness /\ now' = now /\ now \in Int
      BY <1>1, Constants DEF ScheduleInv, TypeOK, Time
    <3>2. CASE w = x
      <4>1. votes'[w] = n /\ position'[w] = covered /\ updated'[w] = now /\ due'[w] = end
        BY <1>6, <3>1, <3>2
      <4> QED BY <1>3, <3>1, <4>1
    <3>3. CASE w # x
      <4>1. /\ votes'[w] = votes[w] /\ position'[w] = position[w]
            /\ updated'[w] = updated[w] /\ due'[w] = due[w]
        BY <1>6, <3>1, <3>3
      <4> QED BY <3>1, <4>1 DEF ScheduleInv, LapsHold
    <3> QED BY <3>2, <3>3
  <2> QED BY <1>1, <2>1 DEF LapsHold
<1>8. Defaults'
  <2>1. ASSUME NEW w \in Witness \ registered
        PROVE  votes'[w] = 0 /\ position'[w] = 0 /\ updated'[w] = 0 /\ due'[w] = Lap
    BY <1>1, <1>6 DEF ScheduleInv, Defaults
  <2> QED BY <1>1, <2>1 DEF Defaults
<1>9. WithinLap'
  <2>1. ASSUME NEW w \in Witness PROVE due'[w] <= now' + Lap \div (votes'[w] + 1)
    <3>1. CASE w = x
      BY <1>1, <1>3, <1>6, <3>1
    <3>2. CASE w # x
      BY <1>1, <1>6, <3>2 DEF ScheduleInv, WithinLap, LapTime
    <3> QED BY <3>1, <3>2
  <2> QED BY <2>1 DEF WithinLap, LapTime
<1>10. Behind'
  BY <1>1 DEF Behind, Nobody
<1> QED BY <1>5, <1>7, <1>8, <1>9, <1>10 DEF ScheduleInv

(* The turns of CountTurns are counted up to three.                        *)
LEMMA MinOf ==
  ASSUME NEW x \in Nat
  PROVE  Min({3, x}) = IF x <= 3 THEN x ELSE 3
<1> DEFINE m == IF x <= 3 THEN x ELSE 3
<1>1. m \in {3, x} /\ \A y \in {3, x} : m <= y
  OBVIOUS
<1>2. ASSUME NEW c \in {3, x}, \A y \in {3, x} : c <= y PROVE c = m
  BY <1>1, <1>2
<1> HIDE DEF m
<1>3. Min({3, x}) = m
  BY <1>1, <1>2 DEF Min
<1> QED BY <1>3 DEF m

(* What virtual time is after update_witness_schedule4(): for everyone,    *)
(* both when it was reset and when it went on.                             *)
LEMMA NewTime ==
  ASSUME ScheduleInv, NEW runners \in SUBSET Witness, NEW seats \in Int, NEW processed, NEW t,
         processed = Processed(runners, seats), t = LeadTime(processed),
         IF \E w \in processed : Wrap(t + LapTime(w)) < t
         THEN ResetVirtualTime ELSE AdvanceVirtualTime(processed, t)
  PROVE  /\ now' \in Time
         /\ position' \in [Witness -> Time] /\ updated' \in [Witness -> Time] /\ due' \in [Witness -> Time]
         /\ \A w \in registered :
              /\ updated'[w] <= now' /\ now' <= due'[w]
              /\ position'[w] + votes[w] * (due'[w] - updated'[w]) <= Lap
         /\ \A w \in Witness \ registered :
              position'[w] = 0 /\ updated'[w] = 0 /\ due'[w] = Lap
         /\ \A w \in Witness : due'[w] <= now' + LapTime(w)
         /\ \A w \in registered, v \in processed :
              votes[v] < votes[w] => due'[w] < due'[v]
         /\ \A w, v \in registered \ processed :
              votes[v] < votes[w] /\ due[w] < due[v] => due'[w] < due'[v]
<1>1. /\ processed \in SUBSET registered
      /\ t \in Nat /\ t <= Lap /\ now <= t
      /\ \A p \in processed : due[p] <= t
      /\ \A w \in registered \ processed : t <= due[w]
  BY LeadTimeIs DEF ScheduleInv
<1>2. registered \in SUBSET Witness
  BY DEF ScheduleInv, TypeOK
<1>3. ASSUME NEW w \in Witness
      PROVE  /\ LapTime(w) \in Nat /\ LapTime(w) <= Lap
             /\ votes[w] * LapTime(w) <= Lap
             /\ votes[w] \in Nat /\ votes[w] <= TotalVesting
             /\ position[w] \in Nat /\ position[w] <= Lap
             /\ updated[w] \in Nat /\ updated[w] <= Lap
             /\ due[w] \in Nat /\ due[w] <= Lap
             /\ now \in Nat /\ now <= Lap
             /\ due[w] <= now + LapTime(w)
  <2>1. votes[w] \in Nat
    BY Typed DEF ScheduleInv
  <2>2. /\ LapTime(w) \in Nat /\ LapTime(w) <= Lap
        /\ votes[w] * LapTime(w) <= Lap
    BY <2>1, LapOf DEF LapTime
  <2>3. due[w] <= now + LapTime(w)
    BY DEF ScheduleInv, WithinLap
  <2> QED BY <2>2, <2>3, Typed DEF ScheduleInv
<1>4. ASSUME NEW w \in Witness, NEW v \in Witness, votes[v] < votes[w]
      PROVE  LapTime(w) < LapTime(v)
  BY <1>3, <1>4, ShorterLap DEF LapTime
<1>5. ASSUME NEW w \in Witness \ registered
      PROVE  /\ votes[w] = 0 /\ position[w] = 0 /\ updated[w] = 0 /\ due[w] = Lap
             /\ LapTime(w) = Lap
  <2>1. Lap \div (0 + 1) = Lap
    BY Constants
  <2> QED BY <2>1 DEF ScheduleInv, Defaults, LapTime
<1>6. CASE ResetVirtualTime
  <2>1. ASSUME NEW w \in Witness
        PROVE  position'[w] = 0 /\ updated'[w] = 0 /\ due'[w] = LapTime(w)
    BY <1>5, <1>6 DEF ResetVirtualTime
  <2>2. now' = 0 /\ 0 \in Time /\ \A w \in Witness : LapTime(w) \in Time
    BY <1>3, <1>6, Constants DEF ResetVirtualTime, Time
  <2>3. position' \in [Witness -> Time] /\ updated' \in [Witness -> Time]
    BY <1>6, <2>2 DEF ResetVirtualTime
  <2>4. due' \in [Witness -> Time]
    <3>1. Lap \in Time
      BY Constants DEF Time
    <3>2. due' = [w \in Witness |-> IF w \in registered THEN LapTime(w) ELSE Lap]
      BY <1>6 DEF ResetVirtualTime
    <3> QED BY <2>2, <3>1, <3>2
  <2>5. ASSUME NEW w \in registered
        PROVE  /\ updated'[w] <= now' /\ now' <= due'[w]
               /\ position'[w] + votes[w] * (due'[w] - updated'[w]) <= Lap
    <3> DEFINE l == LapTime(w)
    <3>1. w \in Witness /\ l \in Nat /\ votes[w] \in Nat /\ votes[w] * l <= Lap
      BY <1>2, <1>3
    <3>2. position'[w] = 0 /\ updated'[w] = 0 /\ due'[w] = l
      BY <2>1, <3>1
    <3> HIDE DEF l
    <3>3. due'[w] - updated'[w] = l /\ votes[w] * l \in Nat
      BY <3>1, <3>2
    <3> QED BY <2>2, <3>1, <3>2, <3>3
  <2>6. \A w \in Witness \ registered : position'[w] = 0 /\ updated'[w] = 0 /\ due'[w] = Lap
    BY <1>5, <2>1
  <2>7. ASSUME NEW w \in Witness PROVE due'[w] <= now' + LapTime(w)
    BY <1>3, <2>1, <2>2
  <2>8. ASSUME NEW w \in Witness, NEW v \in Witness, votes[v] < votes[w]
        PROVE  due'[w] < due'[v]
    BY <1>4, <2>1, <2>8
  <2> QED BY <1>1, <1>2, <2>2, <2>3, <2>4, <2>5, <2>6, <2>7, <2>8
<1>7. CASE AdvanceVirtualTime(processed, t) /\ ~ \E w \in processed : Wrap(t + LapTime(w)) < t
  <2>1. ASSUME NEW w \in processed
        PROVE  /\ w \in Witness
               /\ position'[w] = 0 /\ updated'[w] = t /\ due'[w] = t + LapTime(w)
               /\ t + LapTime(w) <= Lap
    <3>1. w \in Witness
      BY <1>1, <1>2
    <3>2. position'[w] = 0 /\ updated'[w] = t /\ due'[w] = t + LapTime(w)
      BY <1>7, <3>1 DEF AdvanceVirtualTime
    <3>3. ~ (Wrap(t + LapTime(w)) < t)
      BY <1>7
    <3>4. ~ (t + LapTime(w) > Lap)
      BY <1>1, <1>3, <3>1, <3>3, WrapSum
    <3> QED BY <1>1, <1>3, <3>1, <3>2, <3>4, Constants
  <2>2. ASSUME NEW w \in Witness, w \notin processed
        PROVE  position'[w] = position[w] /\ updated'[w] = updated[w] /\ due'[w] = due[w]
    BY <1>7, <2>2 DEF AdvanceVirtualTime
  <2>3. now' = t /\ t \in Time /\ 0 \in Time
    BY <1>1, <1>7, Constants DEF AdvanceVirtualTime, Time
  <2>4. position' \in [Witness -> Time] /\ updated' \in [Witness -> Time]
    BY <1>7, <2>3 DEF AdvanceVirtualTime, ScheduleInv, TypeOK
  <2>5. due' \in [Witness -> Time]
    <3>1. due' = [w \in Witness |-> IF w \in processed THEN t + LapTime(w) ELSE due[w]]
      BY <1>7 DEF AdvanceVirtualTime
    <3>2. ASSUME NEW w \in processed PROVE t + LapTime(w) \in Time
      <4>1. w \in Witness /\ t + LapTime(w) <= Lap
        BY <2>1
      <4> QED BY <1>1, <1>3, <4>1, Constants DEF Time
    <3>3. ASSUME NEW w \in Witness PROVE due[w] \in Time
      BY DEF ScheduleInv, TypeOK
    <3> QED BY <3>1, <3>2, <3>3
  <2>6. ASSUME NEW w \in registered
        PROVE  /\ updated'[w] <= now' /\ now' <= due'[w]
               /\ position'[w] + votes[w] * (due'[w] - updated'[w]) <= Lap
    <3>1. w \in Witness
      BY <1>2
    <3>2. CASE w \in processed
      <4> DEFINE l == LapTime(w)
      <4>1. l \in Nat /\ votes[w] \in Nat /\ votes[w] * l <= Lap
        BY <1>3, <3>1
      <4>2. position'[w] = 0 /\ updated'[w] = t /\ due'[w] = t + l
        BY <2>1, <3>2
      <4> HIDE DEF l
      <4>3. due'[w] - updated'[w] = l /\ votes[w] * l \in Nat
        BY <1>1, <4>1, <4>2
      <4> QED BY <1>1, <2>3, <4>1, <4>2, <4>3
    <3>3. CASE w \notin processed
      <4>1. position'[w] = position[w] /\ updated'[w] = updated[w] /\ due'[w] = due[w]
        BY <2>2, <3>1, <3>3
      <4>2. /\ updated[w] <= now /\ now <= due[w]
            /\ position[w] + votes[w] * (due[w] - updated[w]) <= Lap
        BY DEF ScheduleInv, LapsHold
      <4>3. t <= due[w]
        BY <1>1, <3>3
      <4> QED BY <1>1, <1>3, <2>3, <3>1, <4>1, <4>2, <4>3
    <3> QED BY <3>2, <3>3
  <2>7. ASSUME NEW w \in Witness \ registered
        PROVE  position'[w] = 0 /\ updated'[w] = 0 /\ due'[w] = Lap
    BY <1>1, <1>5, <2>2
  <2>8. ASSUME NEW w \in Witness PROVE due'[w] <= now' + LapTime(w)
    <3>1. CASE w \in processed
      <4>1. due'[w] = t + LapTime(w)
        BY <2>1, <3>1
      <4> QED BY <1>1, <1>3, <2>3, <4>1
    <3>2. CASE w \notin processed
      <4>1. due'[w] = due[w]
        BY <2>2, <3>2
      <4> QED BY <1>1, <1>3, <2>3, <4>1
    <3> QED BY <3>1, <3>2
  <2>9. ASSUME NEW w \in registered, NEW v \in processed, votes[v] < votes[w]
        PROVE  due'[w] < due'[v]
    <3>1. w \in Witness /\ v \in Witness
      BY <1>2, <2>1
    <3>2. LapTime(w) < LapTime(v)
      BY <1>4, <2>9, <3>1
    <3>3. due'[w] <= t + LapTime(w) /\ due'[v] = t + LapTime(v)
      BY <2>1, <2>3, <2>8, <3>1
    <3>4. due'[w] \in Int
      BY <2>5, <3>1, Constants DEF Time
    <3> QED BY <1>1, <1>3, <3>1, <3>2, <3>3, <3>4
  <2>10. ASSUME NEW w \in registered \ processed, NEW v \in registered \ processed, due[w] < due[v]
         PROVE  due'[w] < due'[v]
    BY <1>2, <2>2, <2>10
  <2> QED BY <2>3, <2>4, <2>5, <2>6, <2>7, <2>8, <2>9, <2>10
<1> QED BY <1>6, <1>7

(* The update of the schedule, at the end of a round.                      *)
LEMMA UpdateInv ==
  ASSUME ScheduleInv, UpdateSchedule
  PROVE  ScheduleInv'
<1> DEFINE voted == Voted
           runners == keyed \ voted
           seats == MaxWitnesses - Cardinality(voted)
           processed == Processed(runners, seats)
           t == LeadTime(processed)
           turn == (processed \cap keyed) \ voted
<1>1. /\ scheduled' = voted \cup turn
      /\ IF \E w \in processed : Wrap(t + LapTime(w)) < t
         THEN ResetVirtualTime ELSE AdvanceVirtualTime(processed, t)
      /\ CountTurns(runners, turn)
      /\ UNCHANGED <<registered, keyed, votes, changes>>
  BY DEF UpdateSchedule
<1>2. /\ registered \in SUBSET Witness /\ keyed \in SUBSET registered
      /\ voted \in SUBSET keyed
  BY DEF ScheduleInv, TypeOK, Voted
<1>3. runners \in SUBSET Witness /\ seats \in Int /\ turn \in SUBSET processed
  <2>1. IsFiniteSet(voted)
    BY <1>2, Constants, FS_Subset
  <2>2. Cardinality(voted) \in Nat
    BY <2>1, FS_CardinalityType
  <2>3. MaxWitnesses \in Nat
    BY ScheduleAssumption
  <2> QED BY <1>2, <2>2, <2>3
<1>4. processed \in SUBSET registered
  BY DEF Processed
<1>5. /\ \A w \in runners \ turn : w \notin processed
      /\ turn \in SUBSET Witness /\ voted \in SUBSET Witness
  BY <1>2, <1>3, <1>4
<1>6. \A p \in processed : \A w \in registered \ processed : due[p] <= due[w]
  <2> HIDE DEF runners, seats
  <2>1. TypeOK
    BY DEF ScheduleInv
  <2> QED BY <1>3, <2>1, ProcessedFirst
<1>7. /\ now' \in Time
      /\ position' \in [Witness -> Time] /\ updated' \in [Witness -> Time] /\ due' \in [Witness -> Time]
      /\ \A w \in registered :
           /\ updated'[w] <= now' /\ now' <= due'[w]
           /\ position'[w] + votes[w] * (due'[w] - updated'[w]) <= Lap
      /\ \A w \in Witness \ registered :
           position'[w] = 0 /\ updated'[w] = 0 /\ due'[w] = Lap
      /\ \A w \in Witness : due'[w] <= now' + LapTime(w)
      /\ \A w \in registered, v \in processed :
           votes[v] < votes[w] => due'[w] < due'[v]
      /\ \A w, v \in registered \ processed :
           votes[v] < votes[w] /\ due[w] < due[v] => due'[w] < due'[v]
  <2> HIDE DEF runners, seats
  <2>1. runners \in SUBSET Witness /\ seats \in Int
    BY <1>3
  <2>2. processed = Processed(runners, seats) /\ t = LeadTime(processed)
    OBVIOUS
  <2>3. IF \E w \in processed : Wrap(t + LapTime(w)) < t
        THEN ResetVirtualTime ELSE AdvanceVirtualTime(processed, t)
    BY <1>1
  <2> HIDE DEF processed, t
  <2> QED BY <2>1, <2>2, <2>3, NewTime
<1> HIDE DEF processed, t, seats, voted
<1>8. ASSUME NEW w \in Witness, NEW v \in Witness
      PROVE  /\ overtaken[w][v] \in 0 .. 3
             /\ overtaken'[w][v] \in 0 .. 3
             /\ overtaken'[w][v] > 0 =>
                  /\ w \in runners \ turn
                  /\ overtaken'[w][v] = IF v \in turn
                       THEN (IF overtaken[w][v] + 1 <= 3 THEN overtaken[w][v] + 1 ELSE 3)
                       ELSE overtaken[w][v]
  <2> DEFINE o == overtaken[w][v]
             a == IF v \in turn THEN 1 ELSE 0
  <2>1. o \in 0 .. 3
    BY DEF ScheduleInv, TypeOK
  <2>2. overtaken'[w][v] = IF w \in runners \ turn THEN Min({3, o + a}) ELSE 0
    BY <1>1 DEF CountTurns
  <2>3. a \in Nat /\ o \in Nat /\ (v \in turn => a = 1) /\ (v \notin turn => a = 0)
    BY <2>1
  <2> HIDE DEF o, a, turn, runners
  <2>4. Min({3, o + a}) = IF o + a <= 3 THEN o + a ELSE 3
    BY <2>3, MinOf
  <2>5. CASE w \in runners \ turn
    <3>1. overtaken'[w][v] = IF o + a <= 3 THEN o + a ELSE 3
      BY <2>2, <2>4, <2>5
    <3>2. CASE v \in turn
      BY <2>1, <2>3, <2>5, <3>1, <3>2 DEF o
    <3>3. CASE v \notin turn
      BY <2>1, <2>3, <2>5, <3>1, <3>3 DEF o
    <3> QED BY <3>2, <3>3
  <2>6. CASE w \notin runners \ turn
    <3>1. overtaken'[w][v] = 0
      BY <2>2, <2>6
    <3> QED BY <2>1, <3>1 DEF o
  <2> QED BY <2>5, <2>6
<1>9. TypeOK'
  <2>1. overtaken' \in [Witness -> [Witness -> 0 .. 3]]
    <3> HIDE DEF runners, turn
    <3>1. overtaken' = [w \in Witness |-> [v \in Witness |-> overtaken'[w][v]]]
      BY <1>1 DEF CountTurns
    <3> QED BY <1>8, <3>1
  <2>2. scheduled' \in SUBSET Witness
    BY <1>1, <1>5
  <2> HIDE DEF runners, turn
  <2> QED BY <1>1, <1>7, <2>1, <2>2 DEF ScheduleInv, TypeOK
<1>10. LapsHold' /\ Defaults' /\ WithinLap'
  <2>1. registered' = registered /\ votes' = votes
    BY <1>1
  <2>2. LapsHold'
    BY <1>7, <2>1 DEF LapsHold
  <2>3. Defaults'
    BY <1>7, <2>1 DEF ScheduleInv, Defaults
  <2>4. WithinLap'
    BY <1>7, <2>1 DEF WithinLap, LapTime
  <2> QED BY <2>2, <2>3, <2>4
<1>11. Behind'
  <2>1. ASSUME NEW w \in Witness, NEW v \in Witness, overtaken'[w][v] > 0
        PROVE  /\ w \in registered /\ v \in registered
               /\ votes[v] < votes[w] => overtaken'[w][v] = 1 /\ due'[w] < due'[v]
    <3>1. w \in runners \ turn /\ w \in registered /\ w \notin processed
      BY <1>2, <1>5, <1>8, <2>1
    <3>2. overtaken[w][v] > 0 =>
            /\ v \in registered
            /\ votes[v] < votes[w] => overtaken[w][v] = 1 /\ due[w] < due[v]
      BY DEF ScheduleInv, Behind
    <3>3. due[w] \in Nat /\ due[v] \in Nat /\ overtaken[w][v] \in 0 .. 3
      BY <1>8, Typed DEF ScheduleInv
    <3>4. CASE v \in turn
      <4>1. v \in processed /\ v \in registered
        BY <1>3, <1>4, <3>4
      <4>2. due[v] <= due[w]
        BY <1>6, <3>1, <4>1
      <4>3. ASSUME votes[v] < votes[w] PROVE overtaken'[w][v] = 1 /\ due'[w] < due'[v]
        <5>1. overtaken[w][v] = 0
          BY <3>2, <3>3, <4>2, <4>3
        <5>2. overtaken'[w][v] = 1
          BY <1>8, <2>1, <3>4, <5>1
        <5> QED BY <1>7, <3>1, <4>1, <4>3, <5>2
      <4> QED BY <3>1, <4>1, <4>3
    <3>5. CASE v \notin turn
      <4>1. overtaken'[w][v] = overtaken[w][v]
        BY <1>8, <2>1, <3>5
      <4>2. v \in registered
        BY <2>1, <3>2, <4>1
      <4>3. ASSUME votes[v] < votes[w] PROVE overtaken'[w][v] = 1 /\ due'[w] < due'[v]
        <5>1. overtaken[w][v] = 1 /\ due[w] < due[v]
          BY <2>1, <3>2, <4>1, <4>3
        <5>2. v \notin processed
          BY <1>6, <3>1, <3>3, <5>1
        <5> QED BY <1>7, <3>1, <4>1, <4>2, <4>3, <5>1, <5>2
      <4> QED BY <3>1, <4>2, <4>3
    <3> QED BY <3>4, <3>5
  <2> QED BY <1>1, <2>1 DEF Behind
<1> QED BY <1>9, <1>10, <1>11 DEF ScheduleInv

------------------------------------------------------------------------------

(* Every step keeps the invariant.                                         *)
LEMMA NextInv == ScheduleInv /\ [Next]_vars => ScheduleInv'
<1> SUFFICES ASSUME ScheduleInv, [Next]_vars PROVE ScheduleInv'
  OBVIOUS
<1>1. CASE \E w \in Witness, k \in BOOLEAN : SetKey(w, k)
  BY <1>1, SetKeyInv
<1>2. CASE \E w \in Witness, d \in -TotalVesting .. TotalVesting : d # 0 /\ AdjustVote(w, d)
  <2>1. PICK w \in Witness, d \in -TotalVesting .. TotalVesting : AdjustVote(w, d)
    BY <1>2
  <2>2. d \in Int
    BY Constants
  <2> QED BY <2>1, <2>2, AdjustInv
<1>3. CASE UpdateSchedule
  BY <1>3, UpdateInv
<1>4. CASE UNCHANGED vars
  BY <1>4 DEF vars, ScheduleInv, TypeOK, LapsHold, Defaults, WithinLap, Behind, LapTime
<1> QED BY <1>1, <1>2, <1>3, <1>4 DEF Next

(* What the invariant says of the turns.                                   *)
LEMMA InvFair == ScheduleInv => TurnsFair
<1> SUFFICES ASSUME ScheduleInv PROVE TurnsByVotes
  BY DEF ScheduleInv, TurnsFair
<1>1. ASSUME NEW w \in Witness, NEW v \in Witness, votes[v] < votes[w]
      PROVE  overtaken[w][v] < 2
  <2>1. overtaken[w][v] \in 0 .. 3
    BY DEF ScheduleInv, TypeOK
  <2>2. overtaken[w][v] > 0 => overtaken[w][v] = 1
    BY <1>1 DEF ScheduleInv, Behind
  <2> QED BY <2>1, <2>2
<1> QED BY <1>1 DEF TurnsByVotes

(* For every number of witnesses and any votes: no sum, difference or      *)
(* product in virtual time wraps unnoticed, nobody is due in the past, and *)
(* while votes and keys stay as they are nobody has two turns before one   *)
(* with more votes that waits has one, also across resets of virtual time  *)
(* (update_witness_schedule4, adjust_witness_vote,                         *)
(* reset_virtual_schedule_time).                                           *)
THEOREM TurnsAreFair == Spec => []TurnsFair
<1>1. Init => ScheduleInv
  BY InitInv
<1>2. ScheduleInv /\ [Next]_vars => ScheduleInv'
  BY NextInv
<1>3. ScheduleInv => TurnsFair
  BY InvFair
<1> QED BY <1>1, <1>2, <1>3, PTL DEF Spec

==============================================================================
