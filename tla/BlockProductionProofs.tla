------------------------ MODULE BlockProductionProofs ------------------------
(***************************************************************************)
(* Proofs about BlockProduction, for any witnesses, slot length, window    *)
(* and hardforks: whose turn it is, what participation counts and on whose *)
(* votes a hardfork is applied.                                            *)
(***************************************************************************)
EXTENDS BlockProduction, FiniteSetsExt, FiniteSetTheorems, SequenceTheorems, TLAPS

------------------------------------------------------------------------------
(* Numbers and sequences. *)

(* Every set of natural numbers that is not empty has a least one: what    *)
(* the proofs use in place of induction, for a set of counterexamples.     *)
LEMMA LeastNumber ==
  ASSUME NEW T \in SUBSET Nat, T # {}
  PROVE  \E x \in T : \A y \in T : x <= y
<1> DEFINE R == OpToRel(<, Nat)
<1>1. IsWellFoundedOn(R, Nat)
  BY NatLessThanWellFounded
<1>2. \A x, y \in Nat : x < y => <<x, y>> \in R
  BY DEF OpToRel
<1> HIDE DEF R
<1>3. PICK x \in T : \A y \in T : ~ (<<y, x>> \in R)
  BY <1>1, WFMin
<1>4. \A y \in T : ~ (y < x)
  BY <1>2, <1>3, Zenon
<1> QED
  BY <1>4

(* Division rounds down, and its result is the only number that fits.      *)
LEMMA Quotient ==
  ASSUME NEW a \in Nat, NEW d \in Nat, d > 0
  PROVE  /\ a \div d \in Nat
         /\ (a \div d) * d <= a
         /\ a < (a \div d) * d + d
OBVIOUS

(* The quotient is the only number with that property.                     *)
LEMMA QuotientUnique ==
  ASSUME NEW a \in Nat, NEW d \in Nat, d > 0, NEW q \in Int, q * d <= a, a < q * d + d
  PROVE  a \div d = q
<1> DEFINE p == a \div d
<1>1. p \in Nat /\ p * d <= a /\ a < p * d + d
  BY Quotient
<1> HIDE DEF p
<1>2. CASE p < q
  <2>1. p + 1 <= q
    BY <1>1, <1>2
  <2>2. (p + 1) * d <= q * d
    BY <1>1, <2>1
  <2> QED BY <1>1, <2>2
<1>3. CASE q < p
  <2>1. q + 1 <= p
    BY <1>1, <1>3
  <2>2. (q + 1) * d <= p * d
    BY <1>1, <2>1
  <2> QED BY <1>1, <2>2
<1> QED BY <1>1, <1>2, <1>3 DEF p

(* Moving a finite set of numbers does not change how many they are.       *)
LEMMA ShiftedSet ==
  ASSUME NEW S \in SUBSET Int, IsFiniteSet(S), NEW d \in Int, NEW T \in SUBSET Int,
         \A x \in Int : x \in T <=> x + d \in S
  PROVE  IsFiniteSet(T) /\ Cardinality(T) = Cardinality(S)
<1> DEFINE f == [x \in S |-> x - d]
<1>1. ASSUME NEW x \in S PROVE x - d \in T
  <2>1. x \in Int /\ x - d \in Int /\ (x - d) + d = x
    OBVIOUS
  <2> QED BY <2>1
<1>2. f \in [S -> T]
  BY <1>1
<1>3. \A x, y \in S : f[x] = f[y] => x = y
  OBVIOUS
<1>4. ASSUME NEW y \in T PROVE \E x \in S : f[x] = y
  <2>1. y + d \in S /\ (y + d) - d = y
    OBVIOUS
  <2>2. f[y + d] = y
    BY <2>1
  <2> QED BY <2>1, <2>2
<1> HIDE DEF f
<1>5. f \in Bijection(S, T)
  BY <1>2, <1>3, <1>4 DEF Bijection, Injection, Surjection, IsInjective
<1>6. ExistsBijection(S, T)
  BY <1>5 DEF ExistsBijection
<1> QED BY <1>6, FS_Bijection

(* Where the elements of two sequences are once they are one.              *)
LEMMA Concatenated ==
  ASSUME NEW S, NEW s \in Seq(S), NEW t \in Seq(S), NEW m, NEW n, Len(s) = m, Len(t) = n
  PROVE  /\ s \o t \in Seq(S)
         /\ m \in Nat /\ n \in Nat /\ Len(s \o t) = m + n
         /\ \A i \in 1 .. m : (s \o t)[i] = s[i]
         /\ \A i \in 1 .. n : (s \o t)[m + i] = t[i]
<1>1. /\ s \o t \in Seq(S) /\ Len(s \o t) = Len(s) + Len(t)
      /\ \A i \in 1 .. Len(s) + Len(t) :
           (s \o t)[i] = IF i <= Len(s) THEN s[i] ELSE t[i - Len(s)]
      /\ Len(s) \in Nat /\ Len(t) \in Nat
  BY ConcatProperties, LenProperties
<1>2. ASSUME NEW i \in 1 .. Len(s) PROVE (s \o t)[i] = s[i]
  <2>1. i \in 1 .. Len(s) + Len(t) /\ i <= Len(s)
    BY <1>1
  <2> QED BY <1>1, <2>1
<1>3. ASSUME NEW i \in 1 .. Len(t) PROVE (s \o t)[Len(s) + i] = t[i]
  <2>1. Len(s) + i \in 1 .. Len(s) + Len(t) /\ ~ (Len(s) + i <= Len(s)) /\ (Len(s) + i) - Len(s) = i
    BY <1>1
  <2> QED BY <1>1, <2>1
<1> QED BY <1>1, <1>2, <1>3

------------------------------------------------------------------------------
(* A block that can be on its way, or be generated here.                   *)
Applicable(b) ==
  /\ b.time \in 1 .. MaxTime /\ b.witness \in Witness /\ b.version \in Nat \cup {NONE}
  /\ b.vote \in Votes \cup {NONE}
  /\ b.rekeyed \in SUBSET Witness

ChainTyped ==
  /\ time \in 0 .. MaxTime
  /\ number \in Nat /\ aslot \in Nat
  /\ window \in [1 .. WindowSize -> {0, 1}]
  /\ schedule \in Seq(Witness) /\ schedule # << >>
  /\ keyed \in SUBSET Witness
  /\ confirmed \in [Witness -> 0 .. number]
  /\ running \in [Witness -> Nat]
  /\ ballot \in [Witness -> Votes]
  /\ next \in Votes
  /\ hardfork \in 0 .. NumHardforks

NodeTyped ==
  /\ clock \in 0 .. MaxTime
  /\ incoming \in Blocks \cup {NONE}
  /\ incoming # NONE => Applicable(incoming)
  /\ asked \in [time : 1 .. MaxTime, witness : Local] \cup {NONE}
  /\ enabled \in BOOLEAN

(* No slot after the current one has a block.                              *)
FilledPast == \A s \in filled : s \in Nat /\ s <= aslot

(* The bits of the k last slots, and these slots themselves.  The bit of a *)
(* block is shifted in before those of the slots missed before it, so that *)
(* bit and slot are not at the same place; but any number of last bits has *)
(* at most as many set as that many last slots have blocks.                *)
LastBits(k) == {i \in WindowSize - k + 1 .. WindowSize : window[i] = 1}

LastSlots(k) == {s \in aslot - k + 1 .. aslot : s <= 0 \/ s \in filled}

BitsCovered ==
  \A k \in 0 .. WindowSize : Cardinality(LastBits(k)) <= Cardinality(LastSlots(k))

Counts == count = Cardinality({i \in DOMAIN window : window[i] = 1})

(* A hardfork to come has the votes of a quorum behind it.                 *)
MandateBacked == hardfork < next.version => Cardinality(mandate) >= HardforkQuorum

ChainInv ==
  /\ ChainTyped /\ SlotIsTime /\ FilledPast /\ Counts /\ BitsCovered
  /\ ActiveKeepKeys /\ MandateBacked

(* The constants one by one, as the provers need them.                     *)
LEMMA Constants ==
  /\ Interval \in Nat /\ Interval > 0
  /\ MaxWitnesses \in Nat /\ MaxWitnesses > 0
  /\ BlocksPerDay \in Nat /\ BlocksPerDay > 0
  /\ WindowSize \in Nat /\ WindowSize > 0
  /\ HardforkQuorum \in Nat /\ MaxTime \in Nat /\ MaxDelay \in Nat
  /\ NumHardforks \in Nat
  /\ IsFiniteSet(Witness) /\ Witness # {} /\ Local \subseteq Witness
<1>1. NumHardforks \in Nat
  BY ProductionAssumption, LenProperties DEF NumHardforks
<1> QED BY <1>1, ProductionAssumption

------------------------------------------------------------------------------

(* Slots by time: get_slot_at_time() counts from the slot of the head      *)
(* block, wherever in that slot its timestamp is.                          *)
LEMMA SlotOfTime ==
  ASSUME time \in Nat, NEW t \in Nat
  PROVE  /\ SlotAt(t) \in Nat
         /\ SlotAt(t) > 0 => time < t /\ SlotAt(t) = t \div Interval - time \div Interval
<1> DEFINE p == time \div Interval
           q == t \div Interval
<1>1. /\ p \in Nat /\ p * Interval <= time /\ time < p * Interval + Interval
      /\ q \in Nat /\ q * Interval <= t /\ t < q * Interval + Interval
      /\ Interval \in Nat /\ Interval > 0
  BY Constants, Quotient
<1>2. SlotTime(1) = p * Interval + 1 * Interval
  BY DEF SlotTime
<1> HIDE DEF p, q
<1>3. SlotTime(1) = p * Interval + Interval /\ SlotTime(1) \in Nat
  BY <1>1, <1>2
<1>4. CASE t < SlotTime(1)
  BY <1>4 DEF SlotAt
<1>5. CASE ~ (t < SlotTime(1))
  <2>1. SlotAt(t) = (t - SlotTime(1)) \div Interval + 1
    BY <1>5 DEF SlotAt
  <2>2. t - SlotTime(1) \in Nat
    BY <1>3, <1>5
  <2>3. q - p - 1 \in Int /\ (q - p - 1) * Interval = q * Interval - p * Interval - Interval
    BY <1>1
  <2>4. (q - p - 1) * Interval <= t - SlotTime(1) /\ t - SlotTime(1) < (q - p - 1) * Interval + Interval
    <3> DEFINE x == q * Interval
               y == p * Interval
    <3>1. x \in Nat /\ y \in Nat
      BY <1>1
    <3>2. (q - p - 1) * Interval = x - y - Interval
      BY <2>3
    <3>3. x <= t /\ t < x + Interval /\ SlotTime(1) = y + Interval
      BY <1>1, <1>3
    <3> HIDE DEF x, y
    <3> QED BY <1>1, <1>3, <3>1, <3>2, <3>3
  <2>5. (t - SlotTime(1)) \div Interval = q - p - 1
    BY <1>1, <2>2, <2>3, <2>4, QuotientUnique
  <2>6. (t - SlotTime(1)) \div Interval \in Nat
    BY <1>1, <2>2, Quotient
  <2>7. SlotAt(t) = q - p
    BY <1>1, <2>1, <2>5
  <2>8. time < t
    <3> DEFINE y == p * Interval
    <3>1. y \in Nat /\ time < y + Interval /\ SlotTime(1) = y + Interval
      BY <1>1, <1>3
    <3> HIDE DEF y
    <3> QED BY <1>1, <1>5, <3>1
  <2> QED BY <1>1, <2>1, <2>6, <2>7, <2>8 DEF p, q
<1> QED BY <1>4, <1>5

(* get_scheduled_witness() returns a witness.                              *)
LEMMA ScheduledTyped ==
  ASSUME ChainTyped, NEW n \in Nat
  PROVE  Scheduled(n) \in Witness
<1>1. schedule \in Seq(Witness) /\ Len(schedule) \in Nat /\ Len(schedule) > 0 /\ aslot \in Nat
  BY EmptySeq DEF ChainTyped
<1>2. (aslot + n) % Len(schedule) \in 0 .. Len(schedule) - 1
  BY <1>1
<1>3. ((aslot + n) % Len(schedule)) + 1 \in 1 .. Len(schedule)
  BY <1>1, <1>2
<1> QED BY <1>1, <1>3, ElementOfSeq DEF Scheduled

------------------------------------------------------------------------------

(* recent_slots_filled after a block with m slots missed before it: what   *)
(* was there, one set bit, m clear ones.                                   *)
Bits(m) == window \o <<1>> \o [i \in 1 .. m |-> 0]

(* The participation bits with those of a block after m missed slots.      *)
LEMMA BitsAre ==
  ASSUME ChainTyped, NEW m \in Nat
  PROVE  /\ Bits(m) \in Seq({0, 1}) /\ Len(Bits(m)) = WindowSize + 1 + m
         /\ DOMAIN Bits(m) = 1 .. WindowSize + 1 + m
         /\ \A i \in 1 .. WindowSize : Bits(m)[i] = window[i]
         /\ Bits(m)[WindowSize + 1] = 1
         /\ \A i \in WindowSize + 2 .. WindowSize + 1 + m : Bits(m)[i] = 0
<1> DEFINE one == <<1>>
           zeros == [i \in 1 .. m |-> 0]
           w1 == window \o one
<1>1. WindowSize \in Nat /\ window \in Seq({0, 1}) /\ Len(window) = WindowSize
  BY Constants DEF ChainTyped
<1>2. one \in Seq({0, 1}) /\ Len(one) = 1 /\ one[1] = 1
  OBVIOUS
<1>3. zeros \in Seq({0, 1}) /\ Len(zeros) = m /\ \A i \in 1 .. m : zeros[i] = 0
  <2>1. zeros \in [1 .. m -> {0, 1}]
    OBVIOUS
  <2> QED BY <2>1
<1> HIDE DEF one, zeros
<1>4. /\ w1 \in Seq({0, 1}) /\ Len(w1) = WindowSize + 1
      /\ \A i \in 1 .. WindowSize : w1[i] = window[i]
      /\ w1[WindowSize + 1] = one[1]
  <2>1. /\ w1 \in Seq({0, 1}) /\ Len(w1) = WindowSize + Len(one)
        /\ \A i \in 1 .. WindowSize : w1[i] = window[i]
        /\ \A i \in 1 .. Len(one) : w1[WindowSize + i] = one[i]
    <3> DEFINE B == {0, 1}
    <3>1. window \in Seq(B) /\ one \in Seq(B) /\ Len(window) = WindowSize
      BY <1>1, <1>2
    <3> HIDE DEF B
    <3>2. /\ w1 \in Seq(B) /\ Len(w1) = WindowSize + Len(one)
          /\ \A i \in 1 .. WindowSize : w1[i] = window[i]
          /\ \A i \in 1 .. Len(one) : w1[WindowSize + i] = one[i]
      BY <3>1, Concatenated
    <3> QED BY <3>2 DEF B
  <2> HIDE DEF w1
  <2> QED BY <1>2, <2>1
<1> HIDE DEF w1
<1>5. /\ w1 \o zeros \in Seq({0, 1}) /\ Len(w1 \o zeros) = WindowSize + 1 + m
      /\ \A i \in 1 .. WindowSize + 1 : (w1 \o zeros)[i] = w1[i]
      /\ \A i \in 1 .. m : (w1 \o zeros)[WindowSize + 1 + i] = zeros[i]
  BY <1>3, <1>4, Concatenated
<1>6. Bits(m) = w1 \o zeros
  BY DEF Bits, w1, one, zeros
<1>7. DOMAIN (w1 \o zeros) = 1 .. WindowSize + 1 + m
  BY <1>5, LenProperties
<1>8. \A i \in 1 .. WindowSize : (w1 \o zeros)[i] = window[i]
  BY <1>1, <1>4, <1>5
<1>9. (w1 \o zeros)[WindowSize + 1] = 1
  BY <1>1, <1>2, <1>4, <1>5
<1>10. ASSUME NEW i \in WindowSize + 2 .. WindowSize + 1 + m PROVE (w1 \o zeros)[i] = 0
  <2>1. i - (WindowSize + 1) \in 1 .. m /\ WindowSize + 1 + (i - (WindowSize + 1)) = i
    BY <1>1
  <2>2. (w1 \o zeros)[WindowSize + 1 + (i - (WindowSize + 1))] = 0
    BY <1>3, <1>5, <2>1
  <2> QED BY <2>1, <2>2
<1> QED BY <1>5, <1>6, <1>7, <1>8, <1>9, <1>10

(* The participation bits that are kept then: the last ones.               *)
LEMMA ShiftedIs ==
  ASSUME ChainTyped, NEW m \in Nat
  PROVE  /\ Shifted(m) \in [1 .. WindowSize -> {0, 1}]
         /\ \A i \in 1 .. WindowSize : Shifted(m)[i] = Bits(m)[i + m + 1]
<1> DEFINE b == Bits(m)
           first == Len(b) - WindowSize + 1
<1>1. b \in Seq({0, 1}) /\ Len(b) = WindowSize + 1 + m /\ WindowSize \in Nat
  BY BitsAre, Constants
<1>2. Shifted(m) = SubSeq(b, first, Len(b))
  BY DEF Shifted, Bits
<1> HIDE DEF b
<1>3. first = m + 2 /\ first \in Int /\ Len(b) \in Int /\ Len(b) - first + 1 = WindowSize
  BY <1>1
<1>4. \A i \in first .. Len(b) : b[i] \in {0, 1}
  <2>1. \A i \in first .. Len(b) : i \in 1 .. Len(b)
    BY <1>1, <1>3
  <2> QED BY <1>1, <2>1, ElementOfSeq
<1> HIDE DEF first
<1>5. /\ SubSeq(b, first, Len(b)) \in Seq({0, 1})
      /\ Len(SubSeq(b, first, Len(b))) = IF first <= Len(b) THEN Len(b) - first + 1 ELSE 0
      /\ \A i \in 1 .. Len(b) - first + 1 : SubSeq(b, first, Len(b))[i] = b[first + i - 1]
  BY <1>3, <1>4, SubSeqProperties
<1>6. Len(SubSeq(b, first, Len(b))) = WindowSize
  BY <1>1, <1>3, <1>5
<1>7. Shifted(m) \in [1 .. WindowSize -> {0, 1}]
  BY <1>2, <1>5, <1>6, LenProperties
<1>8. ASSUME NEW i \in 1 .. WindowSize PROVE Shifted(m)[i] = b[i + m + 1]
  <2>1. i \in 1 .. Len(b) - first + 1 /\ first + i - 1 = i + m + 1
    BY <1>1, <1>3
  <2> QED BY <1>2, <1>5, <2>1
<1> QED BY <1>7, <1>8 DEF b

(* participation_count, kept by increments, is the number of bits set.     *)
LEMMA CountIsBits ==
  ASSUME ChainTyped, Counts, NEW m \in Nat
  PROVE  Counted(m) = Cardinality({i \in 1 .. WindowSize : Shifted(m)[i] = 1})
<1> DEFINE b == Bits(m)
           W == WindowSize
           out == SubSeq(b, 1, m + 1)
           Old == {i \in 1 .. W : window[i] = 1}
           All == {i \in 1 .. W + 1 + m : b[i] = 1}
           Lost == {i \in 1 .. m + 1 : b[i] = 1}
           Kept == {i \in m + 2 .. W + 1 + m : b[i] = 1}
           New == {i \in 1 .. W : Shifted(m)[i] = 1}
<1>1. /\ W \in Nat /\ b \in Seq({0, 1}) /\ Len(b) = W + 1 + m
      /\ \A i \in 1 .. W : b[i] = window[i]
      /\ b[W + 1] = 1
      /\ \A i \in W + 2 .. W + 1 + m : b[i] = 0
  BY BitsAre, Constants
<1>2. Counted(m) = count + 1 - Cardinality({i \in DOMAIN out : out[i] = 1})
  BY DEF Counted, Bits
<1>3. \A i \in 1 .. W : Shifted(m)[i] = b[i + m + 1]
  BY ShiftedIs
<1>4. count = Cardinality(Old)
  BY DEF Counts, ChainTyped
<1> HIDE DEF b
<1>5. {i \in DOMAIN out : out[i] = 1} = Lost
  <2>1. \A i \in 1 .. m + 1 : b[i] \in {0, 1}
    <3>1. \A i \in 1 .. m + 1 : i \in 1 .. Len(b)
      BY <1>1
    <3> QED BY <1>1, <3>1, ElementOfSeq
  <2>2. /\ out \in Seq({0, 1}) /\ Len(out) = IF 1 <= m + 1 THEN (m + 1) - 1 + 1 ELSE 0
        /\ \A i \in 1 .. (m + 1) - 1 + 1 : out[i] = b[1 + i - 1]
    BY <2>1, SubSeqProperties
  <2>3. Len(out) = m + 1
    BY <2>2
  <2>4. DOMAIN out = 1 .. m + 1
    BY <2>2, <2>3, LenProperties
  <2>5. \A i \in 1 .. m + 1 : out[i] = b[i]
    <3>1. \A i \in 1 .. m + 1 : i \in 1 .. (m + 1) - 1 + 1 /\ 1 + i - 1 = i
      OBVIOUS
    <3> QED BY <2>2, <3>1
  <2> QED BY <2>4, <2>5
<1>6. /\ IsFiniteSet(Old) /\ IsFiniteSet(Lost) /\ IsFiniteSet(Kept)
      /\ Cardinality(Old) \in Nat /\ Cardinality(Lost) \in Nat /\ Cardinality(Kept) \in Nat
  <2>1. /\ 1 \in Int /\ W \in Int /\ m + 1 \in Int /\ m + 2 \in Int /\ W + 1 + m \in Int
        /\ \A x, y \in Int : IsFiniteSet(x .. y)
    BY <1>1, FS_Interval
  <2>2. IsFiniteSet(Old) /\ IsFiniteSet(Lost) /\ IsFiniteSet(Kept)
    BY <2>1, FS_Subset
  <2> QED BY <2>2, FS_CardinalityType
<1>7. Cardinality(All) = Cardinality(Old) + 1
  <2>1. All = Old \cup {W + 1} /\ W + 1 \notin Old
    <3>1. ASSUME NEW i \in All PROVE i \in Old \cup {W + 1}
      BY <1>1
    <3>2. ASSUME NEW i \in Old \cup {W + 1} PROVE i \in All
      BY <1>1
    <3>3. W + 1 \notin Old
      BY <1>1
    <3> QED BY <3>1, <3>2, <3>3
  <2> HIDE DEF All, Old
  <2> QED BY <1>6, <2>1, FS_AddElement
<1>8. Cardinality(All) = Cardinality(Lost) + Cardinality(Kept)
  <2>1. All = Lost \cup Kept /\ Lost \cap Kept = {}
    BY <1>1
  <2> HIDE DEF All, Lost, Kept
  <2>2. Cardinality(Lost \cup Kept) = Cardinality(Lost) + Cardinality(Kept) - Cardinality(Lost \cap Kept)
    BY <1>6, FS_Union
  <2>3. Cardinality(Lost \cap Kept) = 0
    BY <2>1, FS_EmptySet
  <2> QED BY <1>6, <2>1, <2>2, <2>3
<1>9. Cardinality(New) = Cardinality(Kept)
  <2>1. \A x \in Int : x \in New <=> x + (m + 1) \in Kept
    <3>1. ASSUME NEW x \in Int PROVE x \in New <=> x + (m + 1) \in Kept
      <4>1. x \in 1 .. W <=> x + (m + 1) \in m + 2 .. W + 1 + m
        BY <1>1
      <4>2. x \in 1 .. W => Shifted(m)[x] = b[x + (m + 1)]
        <5>1. x + m + 1 = x + (m + 1)
          OBVIOUS
        <5> QED BY <1>3, <5>1
      <4> QED BY <4>1, <4>2
    <3> QED BY <3>1
  <2>2. New \in SUBSET Int /\ Kept \in SUBSET Int
    BY <1>1
  <2> HIDE DEF New, Kept
  <2>3. m + 1 \in Int
    OBVIOUS
  <2> QED BY <1>6, <2>1, <2>2, <2>3, ShiftedSet
<1> HIDE DEF Old, All, Lost, Kept, New, out
<1>10. Counted(m) = Cardinality(New)
  BY <1>2, <1>4, <1>5, <1>6, <1>7, <1>8, <1>9
<1> QED BY <1>10 DEF New

(* No number of last bits overstates the last slots: the bit of the block  *)
(* and what is left of the bits before it are met by the block's slot and  *)
(* the slots before those it missed.                                       *)
LEMMA BitsStayCovered ==
  ASSUME ChainTyped, BitsCovered, NEW m \in Nat,
         window' = Shifted(m), aslot' = aslot + m + 1, filled' = filled \cup {aslot'}
  PROVE  BitsCovered'
<1> DEFINE W == WindowSize
           A == aslot + m + 1
<1>1. /\ W \in Nat /\ aslot \in Nat /\ A \in Nat /\ A = aslot + m + 1
      /\ aslot' = A /\ filled' = filled \cup {A}
  BY Constants DEF ChainTyped
<1>2. ASSUME NEW i \in 1 .. W
      PROVE  window'[i] = IF i + m + 1 <= W THEN window[i + m + 1] ELSE IF i = W - m THEN 1 ELSE 0
  <2>1. window'[i] = Bits(m)[i + m + 1]
    BY ShiftedIs
  <2>2. CASE i + m + 1 <= W
    <3>1. i + m + 1 \in 1 .. W
      BY <1>1, <2>2
    <3> QED BY <2>1, <2>2, <3>1, BitsAre
  <2>3. CASE i = W - m
    <3>1. i + m + 1 = W + 1 /\ ~ (i + m + 1 <= W)
      BY <1>1, <2>3
    <3> QED BY <2>1, <2>3, <3>1, BitsAre
  <2>4. CASE i > W - m
    <3>1. i + m + 1 \in W + 2 .. W + 1 + m /\ i # W - m /\ ~ (i + m + 1 <= W)
      BY <1>1, <2>4
    <3> QED BY <2>1, <3>1, BitsAre
  <2>5. i + m + 1 <= W \/ i = W - m \/ i > W - m
    BY <1>1
  <2> QED BY <2>2, <2>3, <2>4, <2>5
<1>3. ASSUME NEW k \in 0 .. W
      PROVE  Cardinality({i \in W - k + 1 .. W : window'[i] = 1})
               <= Cardinality({s \in A - k + 1 .. A : s <= 0 \/ s \in filled \cup {A}})
  <2> DEFINE NewBits == {i \in W - k + 1 .. W : window'[i] = 1}
             NewSlots == {s \in A - k + 1 .. A : s <= 0 \/ s \in filled \cup {A}}
  <2>1. IsFiniteSet(NewBits) /\ IsFiniteSet(NewSlots) /\ Cardinality(NewSlots) \in Nat
    <3>1. W - k + 1 \in Int /\ W \in Int /\ A - k + 1 \in Int /\ A \in Int
      BY <1>1
    <3>2. IsFiniteSet(W - k + 1 .. W) /\ IsFiniteSet(A - k + 1 .. A)
      <4> HIDE DEF W, A
      <4> QED BY <3>1, FS_Interval
    <3>3. IsFiniteSet(NewBits) /\ IsFiniteSet(NewSlots)
      BY <3>2, FS_Subset
    <3> HIDE DEF NewSlots, NewBits
    <3> QED BY <3>3, FS_CardinalityType
  <2>2. CASE k <= m
    <3>1. NewBits = {}
      <4>1. ASSUME NEW i \in W - k + 1 .. W PROVE window'[i] = 0
        <5>1. i \in 1 .. W /\ ~ (i + m + 1 <= W) /\ i # W - m
          BY <1>1, <2>2
        <5> HIDE DEF W
        <5> QED BY <1>2, <5>1
      <4> QED BY <4>1
    <3> HIDE DEF NewSlots, NewBits
    <3>2. Cardinality(NewBits) = 0
      BY <3>1, FS_EmptySet
    <3> QED BY <2>1, <3>2 DEF NewSlots, NewBits
  <2>3. CASE k > m
    <3> DEFINE j == k - m - 1
               Moved == {i \in W - k + 1 .. W - m - 1 : window'[i] = 1}
    <3>1. j \in 0 .. W /\ W - m \in 1 .. W
      BY <1>1, <2>3
    <3>2. IsFiniteSet(LastBits(j)) /\ IsFiniteSet(LastSlots(j))
      <4>1. W - j + 1 \in Int /\ W \in Int /\ aslot - j + 1 \in Int /\ aslot \in Int
        BY <1>1
      <4>2. IsFiniteSet(W - j + 1 .. W) /\ IsFiniteSet(aslot - j + 1 .. aslot)
        <5> HIDE DEF W, j
        <5> QED BY <4>1, FS_Interval
      <4> HIDE DEF j
      <4> QED BY <4>2, FS_Subset DEF LastBits, LastSlots
    <3>3. Cardinality(Moved) = Cardinality(LastBits(j)) /\ IsFiniteSet(Moved)
      <4>1. \A x \in Int : x \in Moved <=> x + (m + 1) \in LastBits(j)
        <5>1. ASSUME NEW x \in Int PROVE x \in Moved <=> x + (m + 1) \in LastBits(j)
          <6>1. x \in W - k + 1 .. W - m - 1 <=> x + (m + 1) \in W - j + 1 .. W
            BY <1>1
          <6>2. x \in W - k + 1 .. W - m - 1 => window'[x] = window[x + (m + 1)]
            <7>1. SUFFICES ASSUME x \in W - k + 1 .. W - m - 1
                           PROVE  window'[x] = window[x + (m + 1)]
              OBVIOUS
            <7>2. x \in 1 .. W /\ x + m + 1 <= W /\ x + m + 1 = x + (m + 1)
              BY <1>1, <7>1
            <7> HIDE DEF W
            <7> QED BY <1>2, <7>2
          <6> HIDE DEF j
          <6> QED BY <6>1, <6>2 DEF LastBits
        <5> QED BY <5>1
      <4>2. Moved \in SUBSET Int /\ LastBits(j) \in SUBSET Int /\ m + 1 \in Int
        BY <1>1, <3>1 DEF LastBits
      <4> HIDE DEF Moved, j
      <4> QED BY <3>2, <4>1, <4>2, ShiftedSet
    <3>4. NewBits = Moved \cup {W - m}
      <4>1. ASSUME NEW i \in NewBits PROVE i \in Moved \cup {W - m}
        <5>1. i \in 1 .. W /\ i \in W - k + 1 .. W /\ window'[i] = 1
          BY <1>1
        <5>2. i + m + 1 <= W \/ i = W - m
          <6> HIDE DEF W
          <6> QED BY <1>2, <5>1
        <5> QED BY <1>1, <5>1, <5>2
      <4>2. W - m \in NewBits
        <5>1. W - m \in W - k + 1 .. W /\ ~ ((W - m) + m + 1 <= W)
          BY <1>1, <2>3, <3>1
        <5>2. window'[W - m] = 1
          <6> HIDE DEF W
          <6> QED BY <1>2, <3>1, <5>1
        <5> QED BY <5>1, <5>2
      <4>3. Moved \subseteq NewBits
        BY <1>1
      <4> HIDE DEF Moved, NewBits
      <4> QED BY <4>1, <4>2, <4>3
    <3>5. Cardinality(NewBits) <= Cardinality(LastBits(j)) + 1
      <4>1. Cardinality(LastBits(j)) \in Nat
        BY <3>2, FS_CardinalityType
      <4> HIDE DEF Moved, NewBits, j
      <4>2. Cardinality(Moved \cup {W - m}) \in {Cardinality(Moved), Cardinality(Moved) + 1}
        BY <3>3, FS_AddElement
      <4> QED BY <3>3, <3>4, <4>1, <4>2
    <3>6. LastSlots(j) \cup {A} \subseteq NewSlots /\ A \notin LastSlots(j)
      <4>1. aslot - j + 1 = A - k + 1 /\ aslot < A /\ A - k + 1 <= A
        BY <1>1, <2>3
      <4>2. \A x \in aslot - j + 1 .. aslot : x \in A - k + 1 .. A /\ x # A
        BY <1>1, <3>1, <4>1
      <4>3. A \in A - k + 1 .. A
        BY <1>1, <4>1
      <4> HIDE DEF j, A
      <4> QED BY <4>2, <4>3 DEF LastSlots
    <3>7. Cardinality(LastSlots(j)) + 1 <= Cardinality(NewSlots)
      <4> HIDE DEF NewSlots, j, A
      <4>1. Cardinality(LastSlots(j) \cup {A}) = Cardinality(LastSlots(j)) + 1
        BY <3>2, <3>6, FS_AddElement
      <4>2. Cardinality(LastSlots(j) \cup {A}) <= Cardinality(NewSlots)
        BY <2>1, <3>6, FS_Subset
      <4> QED BY <4>1, <4>2
    <3>8. Cardinality(LastBits(j)) <= Cardinality(LastSlots(j))
      BY <3>1 DEF BitsCovered
    <3>9. Cardinality(LastBits(j)) \in Nat /\ Cardinality(LastSlots(j)) \in Nat /\ Cardinality(NewBits) \in Nat
      BY <2>1, <3>2, FS_CardinalityType
    <3> HIDE DEF NewBits, NewSlots, j
    <3>10. Cardinality(NewBits) <= Cardinality(NewSlots)
      BY <2>1, <3>5, <3>7, <3>8, <3>9
    <3> QED BY <3>10 DEF NewBits, NewSlots
  <2>4. k <= m \/ k > m
    OBVIOUS
  <2> QED BY <2>2, <2>3, <2>4
<1> HIDE DEF A
<1> QED BY <1>1, <1>3 DEF BitsCovered, LastBits, LastSlots

------------------------------------------------------------------------------

(* The order in which the votes are counted has a first among any votes.   *)
LEMMA FirstVoteIs ==
  ASSUME NEW V \in SUBSET Votes, V # {}
  PROVE  FirstVote(V) \in V
<1> DEFINE versions == {v.version : v \in V}
<1>1. versions \in SUBSET Nat /\ versions # {}
  BY DEF Votes
<1>2. PICK n \in versions : \A x \in versions : n <= x
  BY <1>1, LeastNumber
<1> DEFINE lowest == {v \in V : v.version = n}
           times == {v.time : v \in lowest}
<1>3. times \in SUBSET Nat /\ times # {}
  BY <1>2 DEF Votes
<1>4. PICK t \in times : \A x \in times : t <= x
  BY <1>3, LeastNumber
<1>5. PICK v \in V : v.version = n /\ v.time = t
  BY <1>4
<1>6. ASSUME NEW u \in V
      PROVE  v.version < u.version \/ (v.version = u.version /\ v.time <= u.time)
  <2>1. n \in Nat /\ u.version \in Nat /\ n <= u.version
    BY <1>1, <1>2 DEF Votes
  <2>2. CASE u.version = n
    BY <1>4, <1>5, <2>2
  <2> QED BY <1>5, <2>1, <2>2
<1>7. \E x \in V : \A u \in V :
        x.version < u.version \/ (x.version = u.version /\ x.time <= u.time)
  BY <1>6
<1> QED BY <1>7 DEF FirstVote

(* The hardforks of the first block are the past ones, and leave none to   *)
(* come.                                                                   *)
LEMMA GenesisIs ==
  ASSUME ChainTyped, NEW b, b.time \in Nat
  PROVE  /\ GenesisHardforks(b) \in 0 .. NumHardforks
         /\ \A i \in 1 .. GenesisHardforks(b) : HardforkTimes[i] <= b.time
         /\ HardforkAt(b) \in 0 .. NumHardforks
         /\ NextAt(b) \in Votes
         /\ RunningAt(b) \in [Witness -> Nat]
         /\ BallotAt(b) \in [Witness -> Votes]
         /\ AtGenesis(b) => number = 0 /\ HardforkAt(b) = GenesisHardforks(b)
                            /\ NextAt(b).version = HardforkAt(b)
         /\ ~ AtGenesis(b) => HardforkAt(b) = hardfork /\ NextAt(b) = next
<1> DEFINE past == {n \in 0 .. NumHardforks : \A i \in 1 .. n : HardforkTimes[i] <= b.time}
           left == {NumHardforks - n : n \in past}
<1>0. NumHardforks \in Nat
  BY Constants
<1>1. 0 \in past
  BY <1>0
<1>2. left \in SUBSET Nat /\ left # {}
  BY <1>0, <1>1
<1>3. PICK l \in left : \A m \in left : l <= m
  BY <1>2, LeastNumber
<1>4. PICK x \in past : l = NumHardforks - x
  BY <1>3
<1>5. ASSUME NEW y \in past PROVE x >= y
  <2>1. NumHardforks - x <= NumHardforks - y
    BY <1>3, <1>4
  <2> QED BY <1>0, <2>1
<1>6. Max(past) \in past
  <2>1. \E z \in past : \A y \in past : z >= y
    BY <1>5
  <2> HIDE DEF past
  <2> QED BY <2>1 DEF Max
<1>7. /\ GenesisHardforks(b) \in 0 .. NumHardforks
      /\ \A i \in 1 .. GenesisHardforks(b) : HardforkTimes[i] <= b.time
  <2>1. CASE number = 0
    BY <1>6, <2>1 DEF GenesisHardforks
  <2>2. CASE number # 0
    BY <1>0, <2>2 DEF GenesisHardforks
  <2> QED BY <2>1, <2>2
<1> HIDE DEF past, left
<1>8. AtGenesis(b) => /\ number = 0
                      /\ GenesisHardforks(b) \in Nat
                      /\ HardforkTimes[GenesisHardforks(b)] \in Nat
  <2>1. AtGenesis(b) => number = 0
    BY DEF AtGenesis, GenesisHardforks
  <2>2. AtGenesis(b) => GenesisHardforks(b) \in 1 .. Len(HardforkTimes)
    BY <1>0, <1>7 DEF AtGenesis, NumHardforks
  <2> QED BY <1>0, <1>7, <2>1, <2>2, ProductionAssumption, ElementOfSeq
<1>9. time \in Nat
  BY Constants DEF ChainTyped
<1>10. HardforkAt(b) \in 0 .. NumHardforks
  BY <1>7 DEF HardforkAt, ChainTyped
<1>11. NextAt(b) \in Votes /\ RunningAt(b) \in [Witness -> Nat]
  BY <1>8, <1>9 DEF NextAt, RunningAt, ChainTyped, Votes
<1>12. BallotAt(b) \in [Witness -> Votes]
  BY <1>8 DEF BallotAt, ChainTyped, Votes
<1> QED BY <1>7, <1>8, <1>10, <1>11, <1>12 DEF HardforkAt, NextAt

(* What a block votes for, and what the count of a round leaves: a         *)
(* hardfork to come only with a quorum of the witnesses of that round.     *)
LEMMA TallyIs ==
  ASSUME ChainTyped, NEW b, Applicable(b)
  PROVE  /\ RunningAfter(b) \in [Witness -> Nat]
         /\ VotesAfter(b) \in [Witness -> Votes]
         /\ Tally(b) \in Votes
         /\ HardforkAt(b) < Tally(b).version =>
              Cardinality(Supporters(VotesAfter(b), Tally(b))) >= HardforkQuorum
<1> DEFINE votes == VotesAfter(b)
<1>0. /\ b.time \in Nat /\ b.witness \in Witness /\ b.version \in Nat \cup {NONE}
      /\ b.vote \in Votes \cup {NONE}
  BY Constants DEF Applicable
<1>1. votes \in [Witness -> Votes] /\ RunningAfter(b) \in [Witness -> Nat]
  BY <1>0, GenesisIs DEF VotesAfter, RunningAfter
<1>4. NextAt(b) \in Votes /\ HardforkAt(b) \in Nat
  <2>1. HardforkAt(b) \in 0 .. NumHardforks
    BY <1>0, GenesisIs
  <2> QED BY <1>0, <2>1, GenesisIs, Constants
<1>5. Tally(b) = IF Wanted(votes) # {} THEN FirstVote(Wanted(votes))
                 ELSE [NextAt(b) EXCEPT !.version = HardforkAt(b)]
  BY DEF Tally
<1> HIDE DEF votes
<1>6. Wanted(votes) \in SUBSET Votes
  BY <1>1 DEF Wanted, Range
<1>2. CASE Wanted(votes) # {}
  <2>1. Tally(b) \in Wanted(votes)
    BY <1>2, <1>5, <1>6, FirstVoteIs
  <2> QED BY <1>1, <1>6, <2>1 DEF Wanted, votes
<1>3. CASE Wanted(votes) = {}
  <2>1. Tally(b) = [NextAt(b) EXCEPT !.version = HardforkAt(b)]
    BY <1>3, <1>5
  <2>3. Tally(b) \in Votes /\ Tally(b).version = HardforkAt(b)
    BY <1>4, <2>1 DEF Votes
  <2>4. ~ (HardforkAt(b) < Tally(b).version)
    BY <1>4, <2>3
  <2> QED BY <1>1, <2>3, <2>4 DEF votes
<1> QED BY <1>2, <1>3

(* A shuffled schedule is a sequence of its witnesses.                     *)
LEMMA SeqsOfSet ==
  ASSUME NEW S \in SUBSET Witness, S # {}, NEW f \in SetToSeqs(S)
  PROVE  f \in Seq(Witness) /\ f # << >>
<1>1. IsFiniteSet(S)
  BY Constants, FS_Subset
<1>2. Cardinality(S) \in Nat /\ Cardinality(S) # 0
  BY <1>1, FS_CardinalityType, FS_EmptySet
<1>3. f \in [1 .. Cardinality(S) -> S]
  BY DEF SetToSeqs
<1>4. f \in Seq(S) /\ Len(f) = Cardinality(S)
  BY <1>2, <1>3
<1>5. f \in Seq(Witness)
  BY <1>4, SeqMonotonic
<1> QED BY <1>2, <1>4, <1>5, EmptySeq

(* _apply_block().                                                         *)
LEMMA ApplyKeepsChain ==
  ASSUME ChainInv, NEW b, Applicable(b), ApplyBlock(b)
  PROVE  /\ ChainInv'
         /\ b.time \div Interval = aslot'
         /\ aslot < aslot' /\ Scheduled(aslot' - aslot) = b.witness
         /\ time' = b.time /\ number' = number + 1
<1> USE DEF ChainInv
<1> DEFINE missed == SlotAt(b.time) - 1
           left == (keyed \cup b.rekeyed) \ ShutDown(b)
<1>1. /\ b.time \in 1 .. MaxTime /\ b.time \in Nat /\ b.witness \in Witness
      /\ b.vote \in Votes \cup {NONE} /\ b.rekeyed \in SUBSET Witness
  BY Constants DEF Applicable
<1>2. /\ time \in Nat /\ number \in Nat /\ aslot \in Nat /\ hardfork \in Nat
      /\ keyed \in SUBSET Witness /\ aslot = time \div Interval
  BY Constants DEF ChainTyped, SlotIsTime
<1>3. /\ b.witness \in keyed /\ SlotAt(b.time) > 0 /\ b.witness = Scheduled(SlotAt(b.time))
      /\ CanApply(b)
  BY DEF ApplyBlock, CanApply, ValidHeader
<1>4. /\ SlotAt(b.time) \in Nat /\ missed \in Nat
      /\ SlotAt(b.time) = b.time \div Interval - aslot
      /\ b.time \div Interval \in Nat
  <2>1. SlotAt(b.time) \in Nat /\ SlotAt(b.time) = b.time \div Interval - aslot
    BY <1>1, <1>2, <1>3, SlotOfTime
  <2>2. b.time \div Interval \in Nat
    BY <1>1, Constants, Quotient
  <2> QED BY <1>3, <2>1, <2>2
<1>5. /\ running' = RunningAfter(b)
      /\ ballot' = VotesAfter(b)
      /\ keyed' = left
      /\ window' = Shifted(missed) /\ count' = Counted(missed)
      /\ number' = number + 1 /\ time' = b.time /\ aslot' = aslot + missed + 1
      /\ confirmed' = [confirmed EXCEPT ![b.witness] = number + 1]
      /\ schedule' \in IF RoundEnds THEN SetToSeqs(left) ELSE {schedule}
      /\ next' = NextAfter(b)
      /\ hardfork' = IF HardforkDue(b) THEN NextAfter(b).version ELSE HardforkAt(b)
      /\ filled' = filled \cup {b.time \div Interval}
      /\ mandate' = IF RoundEnds THEN Supporters(VotesAfter(b), next') ELSE mandate
  BY DEF ApplyBlock
<1> HIDE DEF missed, left
<1>6. aslot' = b.time \div Interval /\ aslot' = aslot + missed + 1 /\ aslot' \in Nat
  BY <1>2, <1>4, <1>5 DEF missed
<1>7. left \in SUBSET Witness /\ b.witness \in left
  BY <1>1, <1>2, <1>3 DEF left, ShutDown
<1>8. /\ VotesAfter(b) \in [Witness -> Votes] /\ RunningAfter(b) \in [Witness -> Nat]
      /\ HardforkAt(b) \in 0 .. NumHardforks /\ HardforkAt(b) \in Nat
  <2>1. HardforkAt(b) \in 0 .. NumHardforks
    BY <1>1, GenesisIs
  <2> QED BY <2>1, TallyIs, Constants
<1>9. /\ NextAfter(b) \in Votes
      /\ RoundEnds /\ HardforkAt(b) < NextAfter(b).version =>
           Cardinality(Supporters(VotesAfter(b), NextAfter(b))) >= HardforkQuorum
  <2>1. CASE RoundEnds
    <3>1. NextAfter(b) = Tally(b)
      BY <2>1 DEF NextAfter
    <3> QED BY <3>1, TallyIs
  <2>2. CASE ~ RoundEnds
    BY <1>1, <2>2, GenesisIs DEF NextAfter
  <2> QED BY <2>1, <2>2
<1>10. hardfork' \in 0 .. NumHardforks /\ HardforkAt(b) <= hardfork'
  <2>1. HardforkDue(b) => NextAfter(b).version <= NumHardforks /\ HardforkAt(b) < NextAfter(b).version
    BY <1>3 DEF CanApply, HardforkDue
  <2>2. NextAfter(b).version \in Nat
    BY <1>9 DEF Votes
  <2> QED BY <1>5, <1>8, <2>1, <2>2, Constants
<1>11. schedule' \in Seq(Witness) /\ schedule' # << >>
  <2>1. CASE RoundEnds
    BY <1>5, <1>7, <2>1, SeqsOfSet
  <2>2. CASE ~ RoundEnds
    BY <1>5, <2>2 DEF ChainTyped
  <2> QED BY <2>1, <2>2
<1>12. confirmed' \in [Witness -> 0 .. number']
  BY <1>1, <1>2, <1>5 DEF ChainTyped
<1>13. window' \in [1 .. WindowSize -> {0, 1}]
  BY <1>4, <1>5, ShiftedIs
<1>14. ChainTyped'
  <2>1. time' \in 0 .. MaxTime /\ number' \in Nat
    BY <1>1, <1>2, <1>5
  <2>2. running' \in [Witness -> Nat] /\ keyed' \in SUBSET Witness /\ ballot' \in [Witness -> Votes]
        /\ next' \in Votes
    BY <1>1, <1>5, <1>7, <1>8, <1>9 DEF ChainTyped
  <2> QED BY <1>6, <1>10, <1>11, <1>12, <1>13, <2>1, <2>2 DEF ChainTyped
<1>15. SlotIsTime'
  BY <1>5, <1>6 DEF SlotIsTime
<1>16. FilledPast'
  BY <1>2, <1>4, <1>5, <1>6 DEF FilledPast
<1>17. Counts'
  <2>1. count' = Cardinality({i \in 1 .. WindowSize : window'[i] = 1})
    BY <1>4, <1>5, CountIsBits
  <2> QED BY <1>13, <2>1 DEF Counts
<1>18. BitsCovered'
  BY <1>4, <1>5, <1>6, BitsStayCovered
<1>19. ActiveKeepKeys'
  <2>1. ASSUME NEW w \in Witness, w \notin left PROVE number' - confirmed'[w] > BlocksPerDay
    <3>1. w # b.witness
      BY <1>7, <2>1
    <3>2. confirmed'[w] = confirmed[w] /\ confirmed[w] \in Nat
      BY <1>2, <1>5, <3>1 DEF ChainTyped
    <3>3. number - confirmed[w] > BlocksPerDay
      <4>1. CASE w \in ShutDown(b)
        BY <4>1 DEF ShutDown
      <4>2. CASE w \notin ShutDown(b)
        BY <2>1, <4>2 DEF left, ActiveKeepKeys
      <4> QED BY <4>1, <4>2
    <3> QED BY <1>2, <1>5, <3>2, <3>3, Constants
  <2> QED BY <1>5, <2>1 DEF ActiveKeepKeys
<1>20. MandateBacked'
  <2>1. SUFFICES ASSUME hardfork' < next'.version PROVE Cardinality(mandate') >= HardforkQuorum
    BY DEF MandateBacked
  <2>2. HardforkAt(b) < NextAfter(b).version
    BY <1>5, <1>8, <1>9, <1>10, <2>1, Constants DEF Votes
  <2>3. CASE RoundEnds
    BY <1>5, <1>9, <2>2, <2>3
  <2>4. CASE ~ RoundEnds
    <3>1. ~ AtGenesis(b)
      BY <1>1, <1>8, <2>2, <2>4, GenesisIs DEF NextAfter
    <3> QED BY <1>1, <1>5, <2>2, <2>4, <3>1, GenesisIs DEF MandateBacked, NextAfter
  <2> QED BY <2>3, <2>4
<1>21. aslot < aslot' /\ Scheduled(aslot' - aslot) = b.witness
  <2>1. aslot' - aslot = SlotAt(b.time)
    BY <1>2, <1>4, <1>6
  <2> QED BY <1>2, <1>3, <1>4, <1>6, <2>1
<1> QED BY <1>5, <1>6, <1>14, <1>15, <1>16, <1>17, <1>18, <1>19, <1>20, <1>21

------------------------------------------------------------------------------

(* The genesis state.                                                      *)
LEMMA InitInv == Init => ChainInv /\ NodeTyped
<1> SUFFICES ASSUME Init PROVE ChainInv /\ NodeTyped
  OBVIOUS
<1>1. /\ time = 0 /\ number = 0 /\ aslot = 0 /\ hardfork = 0 /\ clock = 0
      /\ filled = {} /\ keyed = Witness /\ next = NoVote
      /\ window = [i \in 1 .. WindowSize |-> 1] /\ count = WindowSize
  BY DEF Init
<1>2. schedule \in Seq(Witness) /\ schedule # << >>
  BY Constants, SeqsOfSet DEF Init
<1>3. ChainTyped
  <2>1. 0 \in 0 .. MaxTime /\ 0 \in 0 .. 0 /\ 0 \in Nat /\ 0 \in 0 .. NumHardforks
    BY Constants
  <2>2. next \in Votes /\ ballot \in [Witness -> Votes] /\ running \in [Witness -> Nat]
        /\ confirmed \in [Witness -> 0 .. number]
    BY <2>1 DEF Init, NoVote, Votes
  <2> QED BY <1>1, <1>2, <2>1, <2>2 DEF ChainTyped
<1>4. SlotIsTime
  <2>1. 0 * Interval <= 0 /\ 0 < 0 * Interval + Interval
    BY Constants
  <2>2. 0 \div Interval = 0
    BY <2>1, Constants, QuotientUnique
  <2> QED BY <1>1, <2>2 DEF SlotIsTime
<1>5. FilledPast /\ ActiveKeepKeys /\ MandateBacked
  <2>1. ~ (hardfork < next.version)
    BY <1>1 DEF NoVote
  <2> QED BY <1>1, <2>1 DEF FilledPast, ActiveKeepKeys, MandateBacked
<1>6. Counts
  <2>1. {i \in DOMAIN window : window[i] = 1} = 1 .. WindowSize
    BY <1>1
  <2>2. Cardinality(1 .. WindowSize) = WindowSize
    BY Constants, FS_Interval
  <2> QED BY <1>1, <2>1, <2>2 DEF Counts
<1>7. BitsCovered
  <2>1. ASSUME NEW k \in 0 .. WindowSize
        PROVE  Cardinality(LastBits(k)) <= Cardinality(LastSlots(k))
    <3>1. k \in Nat /\ WindowSize \in Nat
      BY Constants
    <3>2. LastBits(k) \in SUBSET Int /\ LastSlots(k) \in SUBSET Int
      BY <1>1, <3>1 DEF LastBits, LastSlots
    <3>3. LastBits(k) = WindowSize - k + 1 .. WindowSize /\ LastSlots(k) = 0 - k + 1 .. 0
      BY <1>1, <3>1 DEF LastBits, LastSlots
    <3>4. Cardinality(LastBits(k)) = k /\ Cardinality(LastSlots(k)) = k
      <4>1. /\ Cardinality(WindowSize - k + 1 .. WindowSize)
                 = IF WindowSize - k + 1 > WindowSize THEN 0 ELSE WindowSize - (WindowSize - k + 1) + 1
            /\ Cardinality(0 - k + 1 .. 0) = IF 0 - k + 1 > 0 THEN 0 ELSE 0 - (0 - k + 1) + 1
        BY <3>1, FS_Interval
      <4> QED BY <3>1, <3>3, <4>1
    <3> QED BY <3>1, <3>4
  <2> QED BY <2>1 DEF BitsCovered
<1>8. NodeTyped
  <2>1. clock \in 0 .. MaxTime
    BY <1>1, Constants
  <2> QED BY <2>1 DEF Init, NodeTyped
<1> QED BY <1>3, <1>4, <1>5, <1>6, <1>7, <1>8 DEF ChainInv

(* The block that _generate_block() builds.                                *)
LEMMA OwnBlockTyped ==
  ASSUME ChainTyped, NodeTyped, asked # NONE
  PROVE  Applicable(OwnBlock)
<1>1. asked.time \in 1 .. MaxTime /\ asked.witness \in Witness /\ hardfork \in 0 .. NumHardforks
  BY Constants DEF NodeTyped, ChainTyped
<1>2. ASSUME NEW h \in 0 .. NumHardforks
      PROVE  [version |-> h, time |-> IF h = 0 THEN 0 ELSE HardforkTimes[h]] \in Votes
  <2>1. h \in Nat
    BY Constants
  <2>2. CASE h = 0
    BY <2>2 DEF Votes
  <2>3. CASE h # 0
    <3>1. h \in 1 .. Len(HardforkTimes)
      BY <2>1, <2>3 DEF NumHardforks
    <3>2. HardforkTimes[h] \in Nat
      BY <3>1, ProductionAssumption, ElementOfSeq
    <3> QED BY <2>1, <2>3, <3>2 DEF Votes
  <2> QED BY <2>2, <2>3
<1>3. OwnVote \in Votes \cup {NONE} /\ OwnVersion \in Nat \cup {NONE}
  <2>1. hardfork < NumHardforks => hardfork + 1 \in 0 .. NumHardforks
    BY <1>1, Constants
  <2> QED BY <1>1, <1>2, <2>1, Constants DEF OwnVote, OwnVersion
<1> QED BY <1>1, <1>3, Constants DEF OwnBlock, Applicable

(* A block from the network, or one's own.                                 *)
LEMMA BlockKeepsChain ==
  ASSUME ChainInv, NodeTyped, Apply \/ Generate
  PROVE  /\ ChainInv' /\ NodeTyped'
         /\ aslot' \notin filled /\ aslot < aslot'
         /\ confirmed'[Scheduled(aslot' - aslot)] = number'
<1>0. aslot \in Nat /\ FilledPast /\ (ChainInv' => aslot' \in Nat)
  BY DEF ChainInv, ChainTyped
<1>1. CASE Apply
  <2>1. Applicable(incoming) /\ ApplyBlock(incoming)
    BY <1>1 DEF Apply, NodeTyped
  <2>2. ChainInv' /\ aslot < aslot' /\ Scheduled(aslot' - aslot) = incoming.witness
        /\ number' = number + 1
    BY <2>1, ApplyKeepsChain
  <2>3. confirmed' = [confirmed EXCEPT ![incoming.witness] = number + 1]
        /\ incoming.witness \in Witness
    BY <2>1 DEF ApplyBlock, Applicable
  <2>4. NodeTyped'
    BY <1>1 DEF Apply, NodeTyped
  <2>5. confirmed'[incoming.witness] = number'
    BY <2>2, <2>3 DEF ChainInv, ChainTyped
  <2>6. aslot' \notin filled
    BY <1>0, <2>2 DEF FilledPast
  <2> QED BY <2>2, <2>4, <2>5, <2>6
<1>2. CASE Generate
  <2>1. Applicable(OwnBlock) /\ ApplyBlock(OwnBlock)
    BY <1>2, OwnBlockTyped DEF Generate, ChainInv
  <2>2. ChainInv' /\ aslot < aslot' /\ Scheduled(aslot' - aslot) = OwnBlock.witness
        /\ number' = number + 1
    BY <2>1, ApplyKeepsChain
  <2>3. confirmed' = [confirmed EXCEPT ![OwnBlock.witness] = number + 1]
        /\ OwnBlock.witness \in Witness
    BY <2>1 DEF ApplyBlock, Applicable
  <2>4. NodeTyped'
    BY <1>2 DEF Generate, NodeTyped
  <2>5. confirmed'[OwnBlock.witness] = number'
    BY <2>2, <2>3 DEF ChainInv, ChainTyped
  <2>6. aslot' \notin filled
    BY <1>0, <2>2 DEF FilledPast
  <2> QED BY <2>2, <2>4, <2>5, <2>6
<1> QED BY <1>1, <1>2

(* The invariant is about the chain alone.                                 *)
LEMMA ChainUnchanged == ChainInv /\ UNCHANGED chainState => ChainInv'
BY DEF chainState, ChainInv, ChainTyped, SlotIsTime, FilledPast, Counts, BitsCovered, LastBits,
       LastSlots, ActiveKeepKeys, MandateBacked

(* Blocks keep the invariant, and nothing else changes the chain.          *)
LEMMA NextInv == ChainInv /\ NodeTyped /\ [Next]_vars => ChainInv' /\ NodeTyped'
<1> SUFFICES ASSUME ChainInv, NodeTyped, [Next]_vars PROVE ChainInv' /\ NodeTyped'
  OBVIOUS
<1>1. CASE Tick
  <2>1. clock' \in 0 .. MaxTime
    BY <1>1, Constants DEF Tick, NodeTyped
  <2>2. NodeTyped'
    BY <1>1, <2>1 DEF Tick, NodeTyped
  <2> QED BY <1>1, <2>2, ChainUnchanged DEF Tick
<1>2. ASSUME NEW t \in 1 .. MaxTime, NEW w \in Witness \ Local, NEW r \in Reports,
             NEW rekeyed \in SUBSET (Witness \ keyed), Receive(t, w, r, rekeyed)
      PROVE  ChainInv' /\ NodeTyped'
  <2>1. /\ incoming' = [time |-> t, witness |-> w, version |-> r.version,
                        vote |-> r.vote, rekeyed |-> rekeyed]
        /\ UNCHANGED <<clock, chainState, asked, enabled>>
    BY <1>2 DEF Receive
  <2>2. r.version \in Nat \cup {NONE} /\ r.vote \in Votes \cup {NONE} /\ t \in Nat
    BY ProductionAssumption DEF Votes
  <2>3. incoming' \in Blocks /\ Applicable(incoming)'
    BY <2>1, <2>2 DEF Blocks, Applicable, Votes
  <2>4. NodeTyped'
    BY <2>1, <2>3 DEF NodeTyped
  <2> QED BY <2>1, <2>4, ChainUnchanged
<1>3. CASE ApplyFails \/ GenerateFails
  <2>1. NodeTyped'
    BY <1>3 DEF ApplyFails, GenerateFails, NodeTyped, Applicable
  <2> QED BY <1>3, <2>1, ChainUnchanged DEF ApplyFails, GenerateFails
<1>4. CASE Synced
  <2>1. NodeTyped'
    BY <1>4 DEF Synced, NodeTyped, Applicable
  <2> QED BY <1>4, <2>1, ChainUnchanged DEF Synced
<1>5. ASSUME NEW w \in Local, Wake(w) PROVE ChainInv' /\ NodeTyped'
  <2>1. asked' \in [time : 1 .. MaxTime, witness : Local] /\ UNCHANGED <<clock, incoming, chainState>>
    BY <1>5, Constants DEF Wake, NodeTyped
  <2>2. enabled' = TRUE
    <3>1. enabled' = (enabled \/ SlotTime(1) >= clock) /\ enabled'
      BY <1>5, Zenon DEF Wake
    <3> QED BY <3>1, Zenon
  <2>3. NodeTyped'
    BY <2>1, <2>2 DEF NodeTyped, Applicable
  <2> QED BY <2>1, <2>3, ChainUnchanged
<1>6. CASE UNCHANGED vars
  <2>1. NodeTyped'
    BY <1>6 DEF vars, NodeTyped, Applicable
  <2> QED BY <1>6, <2>1, ChainUnchanged DEF vars
<1> QED BY <1>1, <1>2, <1>3, <1>4, <1>5, <1>6, BlockKeepsChain DEF Next

(* The invariant holds throughout.                                         *)
LEMMA ProductionInv == Spec => [](ChainInv /\ NodeTyped)
BY InitInv, NextInv, PTL DEF Spec

(* What is kept by increments is what the slots say: current_aslot is the  *)
(* slot of the head block's time, participation is not overstated, and     *)
(* nobody who produced within a day has lost the key.                      *)
THEOREM SlotsAlwaysSound == Spec => []SlotsSound
<1>1. ChainInv /\ NodeTyped => SlotsSound
  <2> SUFFICES ASSUME ChainInv, NodeTyped PROVE SlotsSound
    OBVIOUS
  <2> USE DEF ChainInv
  <2>1. WindowSize \in Nat /\ WindowSize \in 0 .. WindowSize /\ aslot \in Nat
        /\ DOMAIN window = 1 .. WindowSize
    BY Constants DEF ChainTyped
  <2>2. LastBits(WindowSize) = {i \in DOMAIN window : window[i] = 1}
    <3>1. WindowSize - WindowSize + 1 = 1
      BY <2>1
    <3> QED BY <2>1, <3>1 DEF LastBits
  <2>3. count = Cardinality(LastBits(WindowSize))
    BY <2>2 DEF Counts
  <2>4. ParticipationHonest
    BY <2>1, <2>2, <2>3 DEF ParticipationHonest, BitsCovered, LastSlots
  <2>5. count \in 0 .. WindowSize
    <3>1. IsFiniteSet(1 .. WindowSize) /\ Cardinality(1 .. WindowSize) = WindowSize
      BY <2>1, FS_Interval
    <3>2. LastBits(WindowSize) \in SUBSET (1 .. WindowSize)
      BY <2>1, <2>2
    <3>3. IsFiniteSet(LastBits(WindowSize)) /\ Cardinality(LastBits(WindowSize)) <= WindowSize
      BY <3>1, <3>2, FS_Subset
    <3>4. Cardinality(LastBits(WindowSize)) \in Nat
      BY <3>3, FS_CardinalityType
    <3> QED BY <2>1, <2>3, <3>3, <3>4
  <2>6. TypeOK
    BY <2>5 DEF TypeOK, ChainTyped, NodeTyped, Votes
  <2> QED BY <2>4, <2>6 DEF SlotsSound
<1> QED BY <1>1, ProductionInv, PTL

(* Head number, head time and hardfork change with a block only.           *)
LEMMA OnlyBlocksAdvance ==
  [Next]_vars => Apply \/ Generate \/ UNCHANGED <<number, time, hardfork>>
BY DEF Next, vars, chainState, Tick, Receive, ApplyFails, Synced, Wake, GenerateFails

(* Every block is by the witness whose turn its time says it is, and is    *)
(* the first of its slot.                                                  *)
THEOREM BlocksAreInTurn == Spec => InTurn
<1>1. ChainInv /\ NodeTyped /\ ChainInv' /\ [Next]_vars =>
        [number' # number =>
           /\ confirmed'[schedule[((time' \div Interval) % Len(schedule)) + 1]] = number'
           /\ time' \div Interval \notin filled]_vars
  <2> SUFFICES ASSUME ChainInv, NodeTyped, ChainInv', [Next]_vars, number' # number
               PROVE  /\ confirmed'[schedule[((time' \div Interval) % Len(schedule)) + 1]] = number'
                      /\ time' \div Interval \notin filled
    OBVIOUS
  <2>1. /\ aslot' \notin filled /\ aslot < aslot'
        /\ confirmed'[Scheduled(aslot' - aslot)] = number'
    BY BlockKeepsChain, OnlyBlocksAdvance
  <2>2. aslot' = time' \div Interval
    BY DEF ChainInv, SlotIsTime
  <2>3. aslot \in Nat /\ aslot' \in Nat
    BY DEF ChainInv, ChainTyped
  <2>4. aslot + (aslot' - aslot) = aslot'
    <3>1. \A x, y \in Nat : x + (y - x) = y
      OBVIOUS
    <3> QED BY <2>3, <3>1
  <2> QED BY <2>1, <2>2, <2>4 DEF Scheduled
<1> QED BY <1>1, ProductionInv, PTL DEF Spec, InTurn

(* A hardfork is applied only with a quorum of the last full round behind  *)
(* it, and not before the time they voted for; or with the first block of  *)
(* the chain, when its time was past then.                                 *)
THEOREM HardforksAreByQuorum == Spec => HardforkByQuorum
<1> DEFINE Voted == /\ Cardinality(mandate') >= HardforkQuorum
                    /\ hardfork' = next'.version /\ next'.time <= time'
           Past == number = 0 /\ \A i \in 1 .. hardfork' : HardforkTimes[i] <= time'
<1>1. ASSUME ChainInv, NEW b, Applicable(b), ApplyBlock(b), hardfork' # hardfork
      PROVE  Voted \/ Past
  <2>0. ChainTyped /\ b.time \in Nat
    BY <1>1, Constants DEF ChainInv, Applicable
  <2>1. CASE ~ HardforkDue(b)
    <3>1. hardfork' = HardforkAt(b) /\ time' = b.time
      BY <1>1, <2>1 DEF ApplyBlock
    <3>2. AtGenesis(b)
      BY <1>1, <2>0, <3>1, GenesisIs
    <3> QED BY <2>0, <3>1, <3>2, GenesisIs
  <2>2. CASE HardforkDue(b)
    <3>1. hardfork' = next'.version /\ next' = NextAfter(b) /\ time' = b.time
      BY <1>1, <2>2 DEF ApplyBlock
    <3>2. HardforkAt(b) < next'.version /\ next'.time <= time'
      BY <2>2, <3>1 DEF HardforkDue
    <3>3. CASE RoundEnds
      <4>1. next' = Tally(b) /\ mandate' = Supporters(VotesAfter(b), next')
        BY <1>1, <3>1, <3>3 DEF ApplyBlock, NextAfter
      <4> QED BY <1>1, <2>0, <3>1, <3>2, <4>1, TallyIs
    <3>4. CASE ~ RoundEnds
      <4>1. next' = NextAt(b) /\ mandate' = mandate
        BY <1>1, <3>1, <3>4 DEF ApplyBlock, NextAfter
      <4>2. HardforkAt(b) \in Nat
        BY <2>0, GenesisIs, Constants
      <4>3. ~ AtGenesis(b)
        BY <2>0, <3>2, <4>1, <4>2, GenesisIs
      <4> QED BY <1>1, <2>0, <3>1, <3>2, <4>1, <4>3, GenesisIs DEF ChainInv, MandateBacked
    <3> QED BY <3>3, <3>4
  <2> QED BY <2>1, <2>2
<1>2. ChainInv /\ NodeTyped /\ [Next]_vars => [hardfork' # hardfork => Voted \/ Past]_vars
  <2> SUFFICES ASSUME ChainInv, NodeTyped, [Next]_vars, hardfork' # hardfork
               PROVE  Voted \/ Past
    OBVIOUS
  <2>1. CASE Apply
    <3>1. Applicable(incoming) /\ ApplyBlock(incoming)
      BY <2>1 DEF Apply, NodeTyped
    <3> QED BY <1>1, <3>1
  <2>2. CASE Generate
    <3>1. Applicable(OwnBlock) /\ ApplyBlock(OwnBlock)
      BY <2>2, OwnBlockTyped DEF Generate, ChainInv
    <3> QED BY <1>1, <3>1
  <2> QED BY <2>1, <2>2, OnlyBlocksAdvance
<1> QED BY <1>2, ProductionInv, PTL DEF Spec, HardforkByQuorum
==============================================================================
