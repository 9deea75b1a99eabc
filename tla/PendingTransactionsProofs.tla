---------------------- MODULE PendingTransactionsProofs ----------------------
(***************************************************************************)
(* Proofs about PendingTransactions.                                       *)
(***************************************************************************)
EXTENDS PendingTransactions, FiniteSetsExt, FiniteSetTheorems, SequenceTheorems, TLAPS

------------------------------------------------------------------------------
(* Numbers, sequences and recursion. *)

(* Every set of natural numbers that is not empty has a least one: what    *)
(* the proofs use in place of induction, for a set of counterexamples.     *)
LEMMA LeastNumber ==
  ASSUME NEW T \in SUBSET Nat, T # {}
  PROVE  \E x \in T : \A y \in T : x <= y
<1> DEFINE R == OpToRel(<, Nat)
<1>1. IsWellFoundedOn(R, Nat)
  BY NatLessThanWellFounded
<1>2. \A x, y \in Nat : x < y => <<x, y>> \in R
  BY DEF OpToRel
<1> HIDE DEF R
<1>3. PICK x \in T : \A y \in T : ~ (<<y, x>> \in R)
  BY <1>1, WFMin
<1>4. \A y \in T : ~ (y < x)
  BY <1>2, <1>3, Zenon
<1> QED
  BY <1>4

(* Induction up to a number, for the set of the numbers that are good.     *)
LEMMA StepByStep ==
  ASSUME NEW n \in Nat, NEW T, 0 \in T, \A i \in 1 .. n : i - 1 \in T => i \in T
  PROVE  \A i \in 0 .. n : i \in T
<1> DEFINE B == {i \in 0 .. n : i \notin T}
<1>1. SUFFICES ASSUME B # {} PROVE FALSE
  OBVIOUS
<1>2. B \in SUBSET Nat
  OBVIOUS
<1>3. PICK x \in B : \A y \in B : x <= y
  BY <1>1, <1>2, LeastNumber
<1>4. x \in 0 .. n /\ x \notin T /\ x # 0
  OBVIOUS
<1>5. x \in 1 .. n /\ x - 1 \in 0 .. n /\ ~ (x <= x - 1)
  BY <1>4
<1>6. x - 1 \in T
  BY <1>3, <1>5
<1> QED BY <1>4, <1>5, <1>6

(* Where the elements of two sequences are once they are one.              *)
LEMMA Concatenated ==
  ASSUME NEW S, NEW s \in Seq(S), NEW t \in Seq(S), NEW m, NEW n, Len(s) = m, Len(t) = n
  PROVE  /\ s \o t \in Seq(S)
         /\ m \in Nat /\ n \in Nat /\ Len(s \o t) = m + n
         /\ \A i \in 1 .. m : (s \o t)[i] = s[i]
         /\ \A i \in 1 .. n : (s \o t)[m + i] = t[i]
<1>1. /\ s \o t \in Seq(S) /\ Len(s \o t) = Len(s) + Len(t)
      /\ \A i \in 1 .. Len(s) + Len(t) :
           (s \o t)[i] = IF i <= Len(s) THEN s[i] ELSE t[i - Len(s)]
      /\ Len(s) \in Nat /\ Len(t) \in Nat
  BY ConcatProperties, LenProperties
<1>2. ASSUME NEW i \in 1 .. Len(s) PROVE (s \o t)[i] = s[i]
  <2>1. i \in 1 .. Len(s) + Len(t) /\ i <= Len(s)
    BY <1>1
  <2> QED BY <1>1, <2>1
<1>3. ASSUME NEW i \in 1 .. Len(t) PROVE (s \o t)[Len(s) + i] = t[i]
  <2>1. Len(s) + i \in 1 .. Len(s) + Len(t) /\ ~ (Len(s) + i <= Len(s)) /\ (Len(s) + i) - Len(s) = i
    BY <1>1
  <2> QED BY <1>1, <2>1
<1> QED BY <1>1, <1>2, <1>3

(* A function on the subsets of a finite set whose value at a set is made  *)
(* from an element that is picked and from the value without it: the folds *)
(* of the library are such functions, and none of them is defined before   *)
(* one is known to exist.                                                  *)
FoldsBy(g, S, pick, base, step) ==
  \A s \in SUBSET S : g[s] = IF s = {} THEN base ELSE step[pick[s]][g[s \ {pick[s]}]]

(* A function can be defined by recursion on finite sets.                  *)
LEMMA SetRecursion ==
  ASSUME NEW S, IsFiniteSet(S), NEW pick, \A s \in SUBSET S : s # {} => pick[s] \in s,
         NEW A, NEW base \in A, NEW step \in [S -> [A -> A]]
  PROVE  \E g \in [SUBSET S -> A] : FoldsBy(g, S, pick, base, step)
<1> DEFINE D(k) == {s \in SUBSET S : Cardinality(s) <= k}
           Solves(g, k) == \A s \in D(k) :
             g[s] = IF s = {} THEN base ELSE step[pick[s]][g[s \ {pick[s]}]]
           Good(k) == \E g \in [D(k) -> A] : Solves(g, k)
           T == {k \in Nat : ~ Good(k)}
<1>1. \A s \in SUBSET S : IsFiniteSet(s) /\ Cardinality(s) \in Nat /\ (Cardinality(s) = 0 <=> s = {})
  BY FS_Subset, FS_CardinalityType, FS_EmptySet
<1>2. \A s \in SUBSET S : \A x \in s :
        s \ {x} \in SUBSET S /\ Cardinality(s \ {x}) = Cardinality(s) - 1
  BY <1>1, FS_RemoveElement
<1>3. Good(0)
  <2> DEFINE g == [s \in D(0) |-> base]
  <2>1. g \in [D(0) -> A]
    OBVIOUS
  <2>2. ASSUME NEW s \in D(0) PROVE s = {}
    <3>1. s \in SUBSET S /\ Cardinality(s) <= 0
      OBVIOUS
    <3>2. Cardinality(s) \in Nat
      BY <1>1, <3>1
    <3>3. Cardinality(s) = 0
      BY <3>1, <3>2
    <3> QED BY <1>1, <3>1, <3>3
  <2>3. \A s \in D(0) : g[s] = base
    OBVIOUS
  <2> HIDE DEF g
  <2>4. Solves(g, 0)
    BY <2>2, <2>3
  <2> QED BY <2>1, <2>4
<1>4. ASSUME NEW k \in Nat, Good(k) PROVE Good(k + 1)
  <2>1. PICK g \in [D(k) -> A] : Solves(g, k)
    BY <1>4
  <2> DEFINE v(s) == IF s = {} THEN base ELSE step[pick[s]][g[s \ {pick[s]}]]
             h == [s \in D(k + 1) |-> v(s)]
  <2>2. ASSUME NEW s \in D(k + 1), s # {}
        PROVE  pick[s] \in S /\ s \ {pick[s]} \in D(k) /\ s \ {pick[s]} \in D(k + 1)
    <3>1. pick[s] \in s /\ s \in SUBSET S
      BY <2>2
    <3>2. Cardinality(s \ {pick[s]}) = Cardinality(s) - 1 /\ s \ {pick[s]} \in SUBSET S
      BY <1>2, <3>1
    <3>3. Cardinality(s) \in Nat /\ Cardinality(s) <= k + 1
      BY <1>1, <3>1
    <3>4. Cardinality(s \ {pick[s]}) <= k /\ Cardinality(s \ {pick[s]}) <= k + 1
      BY <3>2, <3>3
    <3> QED BY <3>1, <3>2, <3>4
  <2>3. \A s \in D(k) : g[s] = v(s)
    BY <2>1
  <2>4. \A s \in D(k + 1) : v(s) \in A
    BY <2>1, <2>2
  <2>5. h \in [D(k + 1) -> A] /\ \A s \in D(k + 1) : h[s] = v(s)
    BY <2>4
  <2>6. ASSUME NEW s \in D(k + 1), s # {} PROVE h[s \ {pick[s]}] = g[s \ {pick[s]}]
    BY <2>2, <2>3, <2>5, <2>6
  <2> HIDE DEF h
  <2>7. Solves(h, k + 1)
    BY <2>5, <2>6
  <2> QED BY <2>5, <2>7
<1> HIDE DEF Good
<1>5. T = {}
  <2>1. SUFFICES ASSUME T # {} PROVE FALSE
    OBVIOUS
  <2>2. PICK x \in T : \A y \in T : x <= y
    BY <2>1, LeastNumber
  <2>3. x # 0 /\ x \in Nat /\ ~ Good(x)
    BY <1>3
  <2>4. x - 1 \in Nat /\ (x - 1) + 1 = x /\ ~ (x <= x - 1)
    BY <2>3
  <2>5. x - 1 \notin T
    BY <2>2, <2>4
  <2>6. Good(x - 1)
    BY <2>4, <2>5
  <2> QED BY <1>4, <2>3, <2>4, <2>6
<1>6. Good(Cardinality(S))
  BY <1>1, <1>5
<1>7. D(Cardinality(S)) = SUBSET S
  BY FS_Subset
<1> QED BY <1>6, <1>7 DEF Good, FoldsBy

(* The largest of some numbers that are bounded.                           *)
LEMMA LargestWithin ==
  ASSUME NEW n \in Nat, NEW s \in SUBSET (0 .. n), s # {}
  PROVE  Max(s) \in s /\ \A y \in s : y <= Max(s)
<1> DEFINE T == {n - y : y \in s}
<1>1. T \in SUBSET Nat /\ T # {}
  <2>1. \A y \in s : y \in Nat /\ y <= n
    OBVIOUS
  <2>2. \A y \in s : n - y \in Nat
    BY <2>1
  <2> QED BY <2>2
<1>2. PICK t \in T : \A u \in T : t <= u
  BY <1>1, LeastNumber
<1>3. PICK x \in s : t = n - x
  OBVIOUS
<1>4. \A y \in s : x >= y
  <2>1. TAKE y \in s
  <2>2. n - x <= n - y
    BY <1>2, <1>3
  <2>3. x \in Int /\ y \in Int
    OBVIOUS
  <2> QED BY <2>2, <2>3
<1>5. Max(s) \in s /\ \A y \in s : Max(s) >= y
  BY <1>4 DEF Max
<1>6. \A y \in s : y \in Int
  OBVIOUS
<1>7. Max(s) \in Int
  BY <1>5, <1>6
<1> QED BY <1>5, <1>6, <1>7

(* The same where sequences are counted from 1.                            *)
LEMMA LargestOfSome ==
  ASSUME NEW n \in Nat, NEW s \in SUBSET (1 .. n), s # {}
  PROVE  Max(s) \in s /\ \A y \in s : y <= Max(s)
<1>1. s \in SUBSET (0 .. n)
  OBVIOUS
<1> QED BY <1>1, LargestWithin

(* The largest of the first i numbers is i; the others are before it.      *)
LEMMA LargestOfAll ==
  ASSUME NEW n \in Nat, NEW i \in 1 .. n
  PROVE  /\ 1 .. i \in SUBSET (1 .. n) /\ 1 .. i # {} /\ Max(1 .. i) = i
         /\ (1 .. i) \ {i} = 1 .. i - 1
<1>1. 1 .. i \in SUBSET (1 .. n) /\ 1 .. i # {} /\ i \in 1 .. i /\ (1 .. i) \ {i} = 1 .. i - 1
  OBVIOUS
<1>2. Max(1 .. i) \in 1 .. i /\ i <= Max(1 .. i)
  BY <1>1, LargestOfSome
<1>3. Max(1 .. i) = i
  BY <1>2
<1> QED BY <1>1, <1>3

(* The function that a fold over a sequence of length n is the value of.   *)
SeqFoldsBy(g, n, base, step) ==
  \A s \in SUBSET (1 .. n) : g[s] = IF s = {} THEN base ELSE step[Max(s)][g[s \ {Max(s)}]]

(* The same along the numbers 1 .. n, from the largest down: what the      *)
(* folds over sequences use.                                               *)
LEMMA SeqRecursion ==
  ASSUME NEW n \in Nat, NEW A, NEW base \in A, NEW step \in [1 .. n -> [A -> A]]
  PROVE  \E g \in [SUBSET (1 .. n) -> A] : SeqFoldsBy(g, n, base, step)
<1> DEFINE S == 1 .. n
           pick == [s \in SUBSET S |-> Max(s)]
<1>1. IsFiniteSet(S)
  BY FS_Interval
<1>2. \A s \in SUBSET S : s # {} => pick[s] \in s
  BY LargestOfSome
<1>3. \A s \in SUBSET S : pick[s] = Max(s)
  OBVIOUS
<1> HIDE DEF S, pick
<1>4. step \in [S -> [A -> A]]
  BY DEF S
<1>5. PICK g \in [SUBSET S -> A] : FoldsBy(g, S, pick, base, step)
  BY <1>1, <1>2, <1>4, SetRecursion
<1>6. \A s \in SUBSET S : g[s] = IF s = {} THEN base ELSE step[Max(s)][g[s \ {Max(s)}]]
  BY <1>3, <1>5 DEF FoldsBy
<1> QED BY <1>6 DEF S, SeqFoldsBy

(* Such a function goes through the sequence from its first element to its *)
(* last: kept[i] is the value after i elements.                            *)
FoldsWithin(it, n, A, base, step) ==
  /\ it[{}] = base
  /\ \A s \in SUBSET (1 .. n) :
       s # {} /\ it[s \ {Max(s)}] \in A => it[s] = step[Max(s)][it[s \ {Max(s)}]]

GoesBy(kept, n, base, step) ==
  kept[0] = base /\ \A i \in 1 .. n : kept[i] = step[i][kept[i - 1]]

(* A fold over 1 .. n goes from one number to the next.                    *)
LEMMA FoldStepwise ==
  ASSUME NEW n \in Nat, NEW A, NEW base \in A, NEW step \in [1 .. n -> [A -> A]],
         NEW it, FoldsWithin(it, n, A, base, step)
  PROVE  \E kept \in [0 .. n -> A] : GoesBy(kept, n, base, step) /\ kept[n] = it[1 .. n]
<1> DEFINE T == {i \in 0 .. n : it[1 .. i] \in A}
           kept == [i \in 0 .. n |-> it[1 .. i]]
<1>1. 1 .. 0 = {} /\ 0 \in 0 .. n /\ n \in 0 .. n
  OBVIOUS
<1>2. 0 \in T
  BY <1>1 DEF FoldsWithin
<1>3. ASSUME NEW i \in 1 .. n, it[1 .. i - 1] \in A
      PROVE  it[1 .. i] = step[i][it[1 .. i - 1]] /\ it[1 .. i] \in A
  <2>1. /\ 1 .. i \in SUBSET (1 .. n) /\ 1 .. i # {} /\ Max(1 .. i) = i
        /\ (1 .. i) \ {i} = 1 .. i - 1
    BY LargestOfAll
  <2>2. it[1 .. i] = step[i][it[1 .. i - 1]]
    BY <1>3, <2>1 DEF FoldsWithin
  <2> QED BY <1>3, <2>2
<1>4. \A i \in 1 .. n : i - 1 \in T => i \in T
  BY <1>3
<1> HIDE DEF T
<1>5. \A i \in 0 .. n : i \in T
  BY <1>2, <1>4, StepByStep
<1>6. \A i \in 0 .. n : it[1 .. i] \in A
  BY <1>5 DEF T
<1>7. kept \in [0 .. n -> A] /\ kept[0] = base /\ kept[n] = it[1 .. n]
  BY <1>1, <1>6 DEF FoldsWithin
<1>8. ASSUME NEW i \in 1 .. n PROVE kept[i] = step[i][kept[i - 1]]
  <2>1. i \in 0 .. n /\ i - 1 \in 0 .. n
    OBVIOUS
  <2> QED BY <1>3, <1>6, <2>1
<1> HIDE DEF kept
<1> QED BY <1>7, <1>8 DEF GoesBy

(* A sequence of values each of which is made from the one before.         *)
LEMMA StepRecursion ==
  ASSUME NEW n \in Nat, NEW A, NEW base \in A, NEW step \in [1 .. n -> [A -> A]]
  PROVE  \E kept \in [0 .. n -> A] : GoesBy(kept, n, base, step)
<1>1. PICK g \in [SUBSET (1 .. n) -> A] : SeqFoldsBy(g, n, base, step)
  BY SeqRecursion
<1>2. FoldsWithin(g, n, A, base, step)
  BY <1>1 DEF SeqFoldsBy, FoldsWithin
<1> QED BY <1>2, FoldStepwise


------------------------------------------------------------------------------
(* The folds. *)

(* Restoring goes through the list and keeps what applies to what it has   *)
(* kept so far: kept[i] is that after i transactions.                      *)
RestoresBy(kept, c, list) ==
  /\ kept \in [0 .. Len(list) -> Seq(Txs)]
  /\ kept[0] = << >>
  /\ \A i \in 1 .. Len(list) :
       kept[i] = IF Applies(list[i], c, kept[i - 1]) THEN Append(kept[i - 1], list[i])
                 ELSE kept[i - 1]

(* What Restored() computes, step by step.                                 *)
LEMMA RestoredStepwise ==
  ASSUME NEW c, NEW list \in Seq(Txs)
  PROVE  \E kept : RestoresBy(kept, c, list) /\ Restored(c, list) = kept[Len(list)]
<1> DEFINE n == Len(list)
           A == Seq(Txs)
           op(i, s) == IF Applies(list[i], c, s) THEN Append(s, list[i]) ELSE s
           step == [i \in 1 .. n |-> [s \in A |-> op(i, s)]]
           Eq(g) == g = [s \in SUBSET (1 .. n) |->
                           IF s = {} THEN << >> ELSE op(Max(s), g[s \ {Max(s)}])]
           iter == CHOOSE g : Eq(g)
<1>1. n \in Nat /\ DOMAIN list = 1 .. n /\ \A i \in 1 .. n : list[i] \in Txs
  BY ElementOfSeq, LenProperties
<1>2. Restored(c, list) = iter[1 .. n]
  BY <1>1 DEF Restored, FoldLeft, MapThenFoldSet
<1>3. << >> \in A
  OBVIOUS
<1>4. \A i \in 1 .. n, s \in A : op(i, s) \in A
  BY <1>1, AppendProperties
<1>5. step \in [1 .. n -> [A -> A]] /\ \A i \in 1 .. n, s \in A : step[i][s] = op(i, s)
  BY <1>4
<1> HIDE DEF n, A, step, op
<1>6. PICK g \in [SUBSET (1 .. n) -> A] : SeqFoldsBy(g, n, << >>, step)
  BY <1>1, <1>3, <1>5, SeqRecursion
<1>7. \A s \in SUBSET (1 .. n) : s # {} => Max(s) \in 1 .. n
  BY <1>1, LargestOfSome
<1>8. Eq(g)
  BY <1>5, <1>6, <1>7 DEF SeqFoldsBy
<1>9. Eq(iter)
  BY <1>8
<1> HIDE DEF iter
<1>10. FoldsWithin(iter, n, A, << >>, step)
  BY <1>5, <1>7, <1>9 DEF FoldsWithin
<1>11. PICK kept \in [0 .. n -> A] : GoesBy(kept, n, << >>, step) /\ kept[n] = iter[1 .. n]
  <2>1. n \in Nat /\ step \in [1 .. n -> [A -> A]]
    BY <1>1, <1>5
  <2> QED BY <1>3, <1>10, <2>1, FoldStepwise
<1>12. \A i \in 1 .. n : kept[i] = op(i, kept[i - 1])
  BY <1>1, <1>5, <1>11 DEF GoesBy
<1>13. RestoresBy(kept, c, list)
  BY <1>11, <1>12 DEF RestoresBy, GoesBy, op, n, A
<1> QED BY <1>2, <1>11, <1>13 DEF n

(* Whether _generate_block() adds t to the transactions s.                 *)
Selected(t, s, when) ==
  /\ Expiration[t] >= when
  /\ TotalSize(s) + Size[t] < MaxBlockSize
  /\ Applies(t, chain, s)

SelectsBy(kept, when) ==
  /\ kept \in [0 .. Len(pending) -> Seq(Txs)]
  /\ kept[0] = << >>
  /\ \A i \in 1 .. Len(pending) :
       kept[i] = IF Selected(pending[i], kept[i - 1], when) THEN Append(kept[i - 1], pending[i])
                 ELSE kept[i - 1]

(* What Candidates() computes, step by step.                               *)
LEMMA CandidatesStepwise ==
  ASSUME NEW when, pending \in Seq(Txs)
  PROVE  \E kept : SelectsBy(kept, when) /\ Candidates(when) = kept[Len(pending)]
<1> DEFINE n == Len(pending)
           A == Seq(Txs)
           op(i, s) == IF Selected(pending[i], s, when) THEN Append(s, pending[i]) ELSE s
           step == [i \in 1 .. n |-> [s \in A |-> op(i, s)]]
           Eq(g) == g = [s \in SUBSET (1 .. n) |->
                           IF s = {} THEN << >> ELSE op(Max(s), g[s \ {Max(s)}])]
           iter == CHOOSE g : Eq(g)
<1>1. n \in Nat /\ DOMAIN pending = 1 .. n /\ \A i \in 1 .. n : pending[i] \in Txs
  BY ElementOfSeq, LenProperties
<1>2. Candidates(when) = iter[1 .. n]
  BY <1>1 DEF Candidates, Selected, FoldLeft, MapThenFoldSet
<1>3. << >> \in A
  OBVIOUS
<1>4. \A i \in 1 .. n, s \in A : op(i, s) \in A
  BY <1>1, AppendProperties
<1>5. step \in [1 .. n -> [A -> A]] /\ \A i \in 1 .. n, s \in A : step[i][s] = op(i, s)
  BY <1>4
<1> HIDE DEF n, A, step, op
<1>6. PICK g \in [SUBSET (1 .. n) -> A] : SeqFoldsBy(g, n, << >>, step)
  BY <1>1, <1>3, <1>5, SeqRecursion
<1>7. \A s \in SUBSET (1 .. n) : s # {} => Max(s) \in 1 .. n
  BY <1>1, LargestOfSome
<1>8. Eq(g)
  BY <1>5, <1>6, <1>7 DEF SeqFoldsBy
<1>9. Eq(iter)
  BY <1>8
<1> HIDE DEF iter
<1>10. FoldsWithin(iter, n, A, << >>, step)
  BY <1>5, <1>7, <1>9 DEF FoldsWithin
<1>11. PICK kept \in [0 .. n -> A] : GoesBy(kept, n, << >>, step) /\ kept[n] = iter[1 .. n]
  <2>1. n \in Nat /\ step \in [1 .. n -> [A -> A]]
    BY <1>1, <1>5
  <2> QED BY <1>3, <1>10, <2>1, FoldStepwise
<1>12. \A i \in 1 .. n : kept[i] = op(i, kept[i - 1])
  BY <1>1, <1>5, <1>11 DEF GoesBy
<1>13. SelectsBy(kept, when)
  BY <1>11, <1>12 DEF SelectsBy, GoesBy, op, n, A
<1> QED BY <1>2, <1>11, <1>13 DEF n

(* The size of a sequence is added up from its first transaction on.       *)
AddsBy(sum, s) ==
  /\ sum \in [0 .. Len(s) -> Nat]
  /\ sum[0] = 0
  /\ \A i \in 1 .. Len(s) : sum[i] = sum[i - 1] + Size[s[i]]

(* What TotalSize() computes, step by step.                                *)
LEMMA TotalSizeStepwise ==
  ASSUME NEW list \in Seq(Txs)
  PROVE  \E sum : AddsBy(sum, list) /\ TotalSize(list) = sum[Len(list)]
<1> DEFINE n == Len(list)
           A == Nat
           op(i, s) == s + Size[list[i]]
           step == [i \in 1 .. n |-> [s \in A |-> op(i, s)]]
           Eq(g) == g = [s \in SUBSET (1 .. n) |->
                           IF s = {} THEN 0 ELSE op(Max(s), g[s \ {Max(s)}])]
           iter == CHOOSE g : Eq(g)
<1>1. n \in Nat /\ DOMAIN list = 1 .. n /\ \A i \in 1 .. n : list[i] \in Txs
  BY ElementOfSeq, LenProperties
<1>2. TotalSize(list) = iter[1 .. n]
  BY <1>1 DEF TotalSize, FoldLeft, MapThenFoldSet
<1>3. 0 \in A
  OBVIOUS
<1>4. \A i \in 1 .. n, s \in A : op(i, s) \in A
  BY <1>1, TxAssumption
<1>5. step \in [1 .. n -> [A -> A]] /\ \A i \in 1 .. n, s \in A : step[i][s] = op(i, s)
  BY <1>4
<1> HIDE DEF n, A, step, op
<1>6. PICK g \in [SUBSET (1 .. n) -> A] : SeqFoldsBy(g, n, 0, step)
  BY <1>1, <1>3, <1>5, SeqRecursion
<1>7. \A s \in SUBSET (1 .. n) : s # {} => Max(s) \in 1 .. n
  BY <1>1, LargestOfSome
<1>8. Eq(g)
  BY <1>5, <1>6, <1>7 DEF SeqFoldsBy
<1>9. Eq(iter)
  BY <1>8
<1> HIDE DEF iter
<1>10. FoldsWithin(iter, n, A, 0, step)
  BY <1>5, <1>7, <1>9 DEF FoldsWithin
<1>11. PICK kept \in [0 .. n -> A] : GoesBy(kept, n, 0, step) /\ kept[n] = iter[1 .. n]
  <2>1. n \in Nat /\ step \in [1 .. n -> [A -> A]]
    BY <1>1, <1>5
  <2> QED BY <1>3, <1>10, <2>1, FoldStepwise
<1>12. \A i \in 1 .. n : kept[i] = op(i, kept[i - 1])
  BY <1>1, <1>5, <1>11 DEF GoesBy
<1>13. AddsBy(kept, list)
  BY <1>11, <1>12 DEF AddsBy, GoesBy, op, n, A
<1> QED BY <1>2, <1>11, <1>13 DEF n

(* What FlattenSeq() computes, step by step.                               *)
JoinsBy(kept, S, c) ==
  /\ kept \in [0 .. Len(c) -> Seq(S)]
  /\ kept[0] = << >>
  /\ \A i \in 1 .. Len(c) : kept[i] = kept[i - 1] \o c[i]

(* Joining sequences goes from one to the next.                            *)
LEMMA FlattenStepwise ==
  ASSUME NEW S, NEW c \in Seq(Seq(S))
  PROVE  \E kept : JoinsBy(kept, S, c) /\ FlattenSeq(c) = kept[Len(c)]
<1> DEFINE n == Len(c)
           A == Seq(S)
           step == [i \in 1 .. n |-> [s \in A |-> s \o c[i]]]
           Eq(g) == g = [i \in 1 .. n |-> IF i = 1 THEN c[i] ELSE g[i - 1] \o c[i]]
           flatten == CHOOSE g : Eq(g)
<1>1. n \in Nat /\ \A i \in 1 .. n : c[i] \in A
  BY ElementOfSeq, LenProperties
<1>2. n # 0 => FlattenSeq(c) = flatten[n]
  BY DEF FlattenSeq
<1>3. n = 0 => FlattenSeq(c) = << >>
  BY EmptySeq DEF FlattenSeq
<1>4. << >> \in A /\ \A s \in A : << >> \o s = s
  OBVIOUS
<1>5. \A i \in 1 .. n, s \in A : s \o c[i] \in A
  BY <1>1, ConcatProperties
<1>6. step \in [1 .. n -> [A -> A]] /\ \A i \in 1 .. n, s \in A : step[i][s] = s \o c[i]
  BY <1>5
<1> HIDE DEF n, A, step
<1>7. PICK kept \in [0 .. n -> A] : GoesBy(kept, n, << >>, step)
  BY <1>1, <1>4, <1>6, StepRecursion
<1>8. kept[0] = << >> /\ \A i \in 1 .. n : kept[i] = kept[i - 1] \o c[i]
  <2>1. ASSUME NEW i \in 1 .. n PROVE kept[i] = kept[i - 1] \o c[i]
    <3>1. i - 1 \in 0 .. n
      BY <1>1
    <3>2. kept[i - 1] \in A
      BY <1>7, <3>1
    <3>3. kept[i] = step[i][kept[i - 1]]
      BY <1>7 DEF GoesBy
    <3> QED BY <1>6, <3>2, <3>3
  <2> QED BY <1>7, <2>1 DEF GoesBy
<1> DEFINE h == [i \in 1 .. n |-> kept[i]]
<1>9. ASSUME NEW i \in 1 .. n PROVE h[i] = IF i = 1 THEN c[i] ELSE h[i - 1] \o c[i]
  <2>1. CASE i = 1
    <3>1. i - 1 = 0
      BY <2>1
    <3>2. kept[i] = << >> \o c[i]
      BY <1>8, <3>1
    <3> QED BY <1>1, <1>4, <2>1, <3>2
  <2>2. CASE i # 1
    <3>1. i - 1 \in 1 .. n
      BY <1>1, <2>2
    <3> QED BY <1>8, <2>2, <3>1
  <2> QED BY <2>1, <2>2
<1>10. Eq(h)
  BY <1>9
<1>11. Eq(flatten)
  BY <1>10
<1> HIDE DEF h, flatten
<1>12. \A i \in 1 .. n : flatten[i] = IF i = 1 THEN c[i] ELSE flatten[i - 1] \o c[i]
  BY <1>11
<1>13. \A i \in 1 .. n : flatten[i] = kept[i]
  <2> DEFINE T == {i \in 0 .. n : i = 0 \/ flatten[i] = kept[i]}
  <2>1. 0 \in T
    BY <1>1
  <2>2. ASSUME NEW i \in 1 .. n, i - 1 \in T PROVE i \in T
    <3>1. CASE i = 1
      <4>1. i - 1 = 0
        BY <3>1
      <4>2. kept[i] = << >> \o c[i]
        BY <1>8, <4>1
      <4>3. kept[i] = c[i] /\ flatten[i] = c[i]
        BY <1>1, <1>4, <1>12, <3>1, <4>2
      <4> QED BY <4>3
    <3>2. CASE i # 1
      <4>1. i - 1 \in 1 .. n /\ flatten[i - 1] = kept[i - 1]
        BY <1>1, <2>2, <3>2
      <4>2. kept[i] = kept[i - 1] \o c[i] /\ flatten[i] = flatten[i - 1] \o c[i]
        BY <1>8, <1>12, <3>2
      <4>3. flatten[i] = kept[i] /\ i \in 0 .. n
        BY <4>1, <4>2
      <4> QED BY <4>3
    <3> QED BY <3>1, <3>2
  <2> HIDE DEF T
  <2>3. \A i \in 0 .. n : i \in T
    BY <1>1, <2>1, <2>2, StepByStep
  <2>4. \A i \in 1 .. n : i \in T /\ i # 0
    BY <2>3
  <2> QED BY <2>4 DEF T
<1>14. FlattenSeq(c) = kept[n]
  <2>1. CASE n = 0
    BY <1>3, <1>8, <2>1
  <2>2. CASE n # 0
    <3>1. n \in 1 .. n
      BY <1>1, <2>2
    <3> QED BY <1>2, <1>13, <2>2, <3>1
  <2> QED BY <2>1, <2>2
<1>15. JoinsBy(kept, S, c)
  BY <1>7, <1>8 DEF JoinsBy, n, A
<1> QED BY <1>14, <1>15 DEF n

------------------------------------------------------------------------------
(* The inductive invariant. *)

(* Transaction t is in a block of c.                                       *)
Holds(c, t) == \E i \in 1 .. Len(c) : t \in Range(c[i].txs)

(* No transaction is at two places of the blocks of c.                     *)
OnceOn(c) ==
  \A i, j \in 1 .. Len(c) : \A p \in 1 .. Len(c[i].txs), q \in 1 .. Len(c[j].txs) :
    c[i].txs[p] = c[j].txs[q] => i = j /\ p = q

(* What a transaction of list relies on is in c or before it in the list.  *)
Ready(c, list) ==
  \A i \in 1 .. Len(list) : \A u \in Needs[list[i]] :
    Holds(c, u) \/ \E j \in 1 .. i - 1 : list[j] = u

(* The same for the blocks of c themselves.                                *)
Backed(c) ==
  \A i \in 1 .. Len(c) : \A p \in 1 .. Len(c[i].txs) : \A u \in Needs[c[i].txs[p]] :
    \/ \E q \in 1 .. p - 1 : c[i].txs[q] = u
    \/ \E j \in 1 .. i - 1 : u \in Range(c[j].txs)

(* The transactions s can be applied one after the other.                  *)
Accepted(c, s) ==
  s \in Seq(Txs) /\ \A i \in 1 .. Len(s) : Applies(s[i], c, SubSeq(s, 1, i - 1))

Sound(c) == c \in Seq(Blocks) /\ OnceOn(c) /\ Backed(c)

(* The branch that a switch leaves: what is left of it on the chain, below *)
(* the new blocks, and what was popped.                                    *)
Trunk(c, n, o) ==
  [i \in 1 .. Len(c) - n + Len(o) |->
     IF i <= Len(c) - n THEN c[i] ELSE o[i - (Len(c) - n)]]

(* Where the variables of push_block() stand between its steps.            *)
Stages ==
  /\ pc \in {"idle", "extend"} => old = << >> /\ popped = << >>
  /\ pc \in {"idle", "extend", "pop", "reapply"} => new = 0
  /\ pc = "idle" => saved = << >>
  /\ pc # "idle" => pending = << >>
  /\ pc = "extend" => block \in Blocks
  /\ new <= Len(chain)

PendingInv ==
  /\ TypeOK
  /\ Stages
  /\ Sound(chain)
  /\ Sound(Trunk(chain, new, old))
  /\ Accepted(chain, pending)
  /\ Ready(chain, popped \o saved)

------------------------------------------------------------------------------
(* Sequences of transactions and of blocks. *)

(* What is in a sequence with one more transaction.                        *)
LEMMA RangeOfAppend ==
  ASSUME NEW S, NEW s \in Seq(S), NEW t \in S
  PROVE  Range(Append(s, t)) = Range(s) \cup {t}
<1>1. /\ Append(s, t) \in Seq(S) /\ Len(s) \in Nat /\ Len(Append(s, t)) = Len(s) + 1
      /\ \A i \in 1 .. Len(s) : Append(s, t)[i] = s[i]
      /\ Append(s, t)[Len(s) + 1] = t
      /\ DOMAIN s = 1 .. Len(s) /\ DOMAIN Append(s, t) = 1 .. Len(s) + 1
  BY AppendProperties, LenProperties
<1>2. 1 .. Len(s) + 1 = (1 .. Len(s)) \cup {Len(s) + 1}
  BY <1>1
<1> QED BY <1>1, <1>2 DEF Range

(* What the range of a sequence is, by positions.                          *)
LEMMA InRange ==
  ASSUME NEW S, NEW s \in Seq(S)
  PROVE  /\ \A t : t \in Range(s) <=> \E i \in 1 .. Len(s) : s[i] = t
         /\ Range(s) \in SUBSET S /\ Len(s) \in Nat
BY ElementOfSeq, LenProperties DEF Range

(* A sequence of transactions without repetition is no longer than there   *)
(* are transactions.                                                       *)
LEMMA BlockTxsMeans ==
  ASSUME NEW s
  PROVE  s \in BlockTxs <=> s \in Seq(Txs) /\ \A i, j \in 1 .. Len(s) : s[i] = s[j] => i = j
<1> DEFINE N == Cardinality(Txs)
<1>0. N \in Nat /\ IsFiniteSet(Txs)
  BY TxAssumption, FS_CardinalityType
<1>1. ASSUME s \in BlockTxs
      PROVE  s \in Seq(Txs) /\ \A i, j \in 1 .. Len(s) : s[i] = s[j] => i = j
  <2>1. PICK m \in 0 .. N : s \in [1 .. m -> Txs]
    BY <1>1 DEF BlockTxs, SeqOf
  <2>2. m \in Nat /\ s \in Seq(Txs) /\ Len(s) = m /\ DOMAIN s = 1 .. m
    BY <1>0, <2>1
  <2>3. \A i, j \in DOMAIN s : s[i] = s[j] => i = j
    BY <1>1 DEF BlockTxs, IsInjective
  <2> QED BY <2>2, <2>3
<1>2. ASSUME s \in Seq(Txs), \A i, j \in 1 .. Len(s) : s[i] = s[j] => i = j
      PROVE  s \in BlockTxs
  <2> DEFINE m == Len(s)
  <2>1. m \in Nat /\ s \in [1 .. m -> Txs] /\ DOMAIN s = 1 .. m
    BY <1>2, LenProperties
  <2>2. IsInjective(s)
    BY <1>2, <2>1 DEF IsInjective
  <2> HIDE DEF m
  <2>3. s \in Injection(1 .. m, Txs)
    BY <2>1, <2>2 DEF Injection
  <2>4. Cardinality(1 .. m) <= Cardinality(Txs)
    BY <1>0, <2>3, FS_Injection
  <2>5. Cardinality(1 .. m) = m
    BY <2>1, FS_Interval
  <2>6. m \in 0 .. N
    BY <1>0, <2>1, <2>4, <2>5
  <2> QED BY <2>1, <2>2, <2>6 DEF BlockTxs, SeqOf
<1> QED BY <1>1, <1>2

(* The fields of a block.                                                  *)
LEMMA BlockFields ==
  ASSUME NEW b \in Blocks
  PROVE  /\ b.txs \in Seq(Txs) /\ b.time \in Nat /\ b.time > 0 /\ Len(b.txs) \in Nat
         /\ \A i, j \in 1 .. Len(b.txs) : b.txs[i] = b.txs[j] => i = j
         /\ \A i \in 1 .. Len(b.txs) : b.txs[i] \in Txs
<1>1. b.txs \in BlockTxs /\ b.time \in 1 .. MaxTime
  BY DEF Blocks
<1>2. MaxTime \in Nat
  BY TxAssumption
<1>3. b.txs \in Seq(Txs) /\ \A i, j \in 1 .. Len(b.txs) : b.txs[i] = b.txs[j] => i = j
  BY <1>1, BlockTxsMeans
<1> QED BY <1>1, <1>2, <1>3, ElementOfSeq, LenProperties

(* What the flattened blocks are.                                          *)
LEMMA Flattened ==
  ASSUME NEW c \in Seq(Blocks)
  PROVE  /\ TxsOf(c) \in Seq(Txs)
         /\ \A t : t \in Range(TxsOf(c)) <=> Holds(c, t)
         /\ OnceOn(c) => IsInjective(TxsOf(c))
<1> DEFINE n == Len(c)
           d == [i \in 1 .. n |-> c[i].txs]
<1>1. n \in Nat /\ \A i \in 1 .. n : c[i] \in Blocks
  BY ElementOfSeq, LenProperties
<1>2. \A i \in 1 .. n : c[i].txs \in Seq(Txs)
  BY <1>1, BlockFields
<1>3. d \in Seq(Seq(Txs)) /\ Len(d) = n /\ \A i \in 1 .. n : d[i] = c[i].txs
  BY <1>1, <1>2
<1>4. TxsOf(c) = FlattenSeq(d)
  BY DEF TxsOf
<1> HIDE DEF d
<1>5. PICK kept : JoinsBy(kept, Txs, d) /\ FlattenSeq(d) = kept[n]
  BY <1>3, FlattenStepwise
<1>6. kept \in [0 .. n -> Seq(Txs)] /\ kept[0] = << >> /\ TxsOf(c) = kept[n]
  BY <1>3, <1>4, <1>5 DEF JoinsBy
<1>7. \A i \in 1 .. n : kept[i] = kept[i - 1] \o c[i].txs
  BY <1>3, <1>5 DEF JoinsBy
<1>8. \A i \in 0 .. n : kept[i] \in Seq(Txs) /\ Len(kept[i]) \in Nat
  BY <1>6, LenProperties
<1> HIDE DEF n
(* Where an element of kept[i] comes from. *)
<1> DEFINE From(k, x) == \E i \in 1 .. k : \E p \in 1 .. Len(c[i].txs) : c[i].txs[p] = x
           T == {k \in 0 .. n :
                   /\ \A x : (\E m \in 1 .. Len(kept[k]) : kept[k][m] = x) <=> From(k, x)
                   /\ OnceOn(c) => \A m, l \in 1 .. Len(kept[k]) : kept[k][m] = kept[k][l] => m = l}
<1>9. 0 \in T
  <2>1. Len(kept[0]) = 0 /\ 1 .. 0 = {} /\ 0 \in 0 .. n
    BY <1>1, <1>6
  <2> QED BY <2>1
<1>10. ASSUME NEW k \in 1 .. n, k - 1 \in T PROVE k \in T
  <2> DEFINE s == kept[k - 1]
             t == c[k].txs
             a == Len(s)
             b == Len(t)
  <2>1. k \in 0 .. n /\ k - 1 \in 0 .. n /\ s \in Seq(Txs) /\ t \in Seq(Txs) /\ a \in Nat /\ b \in Nat
    BY <1>1, <1>2, <1>8, LenProperties
  <2>2. kept[k] = s \o t /\ Len(s) = a /\ Len(t) = b
    BY <1>7
  <2>4. \A x : (\E m \in 1 .. a : s[m] = x) <=> From(k - 1, x)
    BY <1>10
  <2>5. OnceOn(c) => \A m, l \in 1 .. a : s[m] = s[l] => m = l
    BY <1>10
  <2>7. \A x : From(k, x) <=> From(k - 1, x) \/ \E p \in 1 .. b : t[p] = x
    <3>1. 1 .. k = (1 .. k - 1) \cup {k}
      BY <1>1
    <3> QED BY <3>1
  <2> HIDE DEF a, b, s, t, From
  <2>3. /\ Len(s \o t) = a + b
        /\ \A i \in 1 .. a : (s \o t)[i] = s[i]
        /\ \A i \in 1 .. b : (s \o t)[a + i] = t[i]
    <3>1. s \in Seq(Txs) /\ t \in Seq(Txs)
      BY <2>1
    <3>2. Len(s) = a /\ Len(t) = b
      BY <2>2
    <3> QED BY <3>1, <3>2, Concatenated
  <2>6. \A m \in 1 .. a + b : m \in 1 .. a \/ \E i \in 1 .. b : m = a + i
    <3>1. TAKE m \in 1 .. a + b
    <3>2. CASE m <= a
      BY <2>1, <3>2
    <3>3. CASE ~ (m <= a)
      <4>1. m - a \in 1 .. b /\ m = a + (m - a)
        BY <2>1, <3>3
      <4> QED BY <4>1
    <3> QED BY <3>2, <3>3
  <2>8. \A m \in 1 .. a : m \in 1 .. a + b
    BY <2>1
  <2>9. \A i \in 1 .. b : a + i \in 1 .. a + b
    BY <2>1
  <2>10. ASSUME NEW x PROVE (\E m \in 1 .. a + b : (s \o t)[m] = x) <=> From(k, x)
    <3>1. ASSUME NEW m \in 1 .. a + b, (s \o t)[m] = x PROVE From(k, x)
      <4>1. CASE m \in 1 .. a
        BY <2>3, <2>4, <2>7, <3>1, <4>1
      <4>2. CASE \E i \in 1 .. b : m = a + i
        BY <2>3, <2>7, <3>1, <4>2
      <4> QED BY <2>6, <4>1, <4>2
    <3>2. ASSUME From(k, x) PROVE \E m \in 1 .. a + b : (s \o t)[m] = x
      <4>1. CASE From(k - 1, x)
        BY <2>3, <2>4, <2>8, <4>1
      <4>2. CASE \E p \in 1 .. b : t[p] = x
        BY <2>3, <2>9, <4>2
      <4> QED BY <2>7, <3>2, <4>1, <4>2
    <3> QED BY <3>1, <3>2
  <2>11. ASSUME OnceOn(c), NEW m \in 1 .. a + b, NEW l \in 1 .. a + b, (s \o t)[m] = (s \o t)[l]
         PROVE  m = l
    <3>1. ASSUME NEW i \in 1 .. a, NEW p \in 1 .. b PROVE s[i] # t[p]
      <4>1. From(k - 1, s[i])
        BY <2>4
      <4>2. PICK j \in 1 .. k - 1 : \E q \in 1 .. Len(c[j].txs) : c[j].txs[q] = s[i]
        BY <4>1 DEF From
      <4>3. j \in 1 .. n /\ j # k /\ k \in 1 .. n
        BY <1>1
      <4> QED BY <2>11, <4>2, <4>3 DEF OnceOn, n, t, b
    <3>2. \A p, q \in 1 .. b : t[p] = t[q] => p = q
      BY <2>11 DEF OnceOn, n, t, b
    <3>3. CASE m \in 1 .. a /\ l \in 1 .. a
      BY <2>3, <2>5, <2>11, <3>3
    <3>4. CASE m \in 1 .. a /\ \E i \in 1 .. b : l = a + i
      BY <2>3, <2>11, <3>1, <3>4
    <3>5. CASE l \in 1 .. a /\ \E i \in 1 .. b : m = a + i
      BY <2>3, <2>11, <3>1, <3>5
    <3>6. CASE (\E i \in 1 .. b : m = a + i) /\ \E i \in 1 .. b : l = a + i
      BY <2>3, <2>11, <3>2, <3>6
    <3> QED BY <2>6, <3>3, <3>4, <3>5, <3>6
  <2>12. Len(kept[k]) = a + b
    BY <2>2, <2>3
  <2> QED BY <2>1, <2>2, <2>10, <2>11, <2>12
<1> HIDE DEF T
<1>11. \A k \in 0 .. n : k \in T
  BY <1>1, <1>9, <1>10, StepByStep
<1>12. n \in T /\ n \in 0 .. n
  BY <1>1, <1>11
<1>13. DOMAIN kept[n] = 1 .. Len(kept[n]) /\ kept[n] \in Seq(Txs)
  BY <1>8, <1>12, LenProperties
<1>14. \A i \in 1 .. n : \A x : x \in Range(c[i].txs) <=> \E p \in 1 .. Len(c[i].txs) : c[i].txs[p] = x
  BY <1>2, InRange
<1>15. \A x : x \in Range(kept[n]) <=> Holds(c, x)
  <2>1. \A x : x \in Range(kept[n]) <=> \E m \in 1 .. Len(kept[n]) : kept[n][m] = x
    BY <1>13 DEF Range
  <2>2. \A x : (\E m \in 1 .. Len(kept[n]) : kept[n][m] = x) <=> From(n, x)
    BY <1>12 DEF T
  <2>3. \A x : From(n, x) <=> Holds(c, x)
    BY <1>14 DEF Holds, n
  <2> QED BY <2>1, <2>2, <2>3
<1>16. OnceOn(c) => IsInjective(kept[n])
  BY <1>12, <1>13 DEF T, IsInjective
<1> QED BY <1>6, <1>13, <1>15, <1>16

------------------------------------------------------------------------------
(* What it takes for a transaction to apply. *)

(* The head block's time is a number, 0 before the first block.            *)
LEMMA TimeIsNat ==
  ASSUME NEW c \in Seq(Blocks)
  PROVE  Time(c) \in Nat
<1>1. CASE c = << >>
  BY <1>1 DEF Time
<1>2. CASE c # << >>
  <2>1. Len(c) \in 1 .. Len(c)
    BY <1>2, EmptySeq, LenProperties
  <2>2. c[Len(c)] \in Blocks
    BY <2>1, ElementOfSeq
  <2> QED BY <1>2, <2>2, BlockFields DEF Time, Last
<1> QED BY <1>1, <1>2

(* When _apply_transaction() succeeds. A transaction of the chain that is  *)
(* forgotten has expired, so that being known or expired is the same as    *)
(* being on the chain or expired.                                          *)
LEMMA AppliesMeans ==
  ASSUME NEW c \in Seq(Blocks), NEW t \in Txs, NEW s
  PROVE  Applies(t, c, s) <=>
           /\ ~ Holds(c, t) /\ t \notin Range(s)
           /\ c # << >> => Expiration[t] <= Time(c) + MaxUntil /\ Time(c) < Expiration[t]
           /\ \A u \in Needs[t] : Holds(c, u) \/ u \in Range(s)
           /\ \A u : Holds(c, u) \/ u \in Range(s) => {t, u} \notin Conflicts
<1>1. \A u : u \in Range(TxsOf(c)) <=> Holds(c, u)
  BY Flattened
<1>2. Time(c) \in Nat /\ Expiration[t] \in Nat
  BY TimeIsNat, TxAssumption
<1>3. Holds(c, t) => c # << >>
  <2>1. c = << >> => Len(c) = 0 /\ 1 .. 0 = {}
    OBVIOUS
  <2> QED BY <2>1 DEF Holds
<1>4. Evaluates(t, c, s) <=>
        /\ \A u \in Needs[t] : Holds(c, u) \/ u \in Range(s)
        /\ \A u : Holds(c, u) \/ u \in Range(s) => {t, u} \notin Conflicts
  BY <1>1 DEF Evaluates
<1>5. t \in Known(c, s) <=> (Holds(c, t) /\ Time(c) <= Expiration[t]) \/ t \in Range(s)
  BY <1>1 DEF Known
<1>6. Time(c) < Expiration[t] => Time(c) <= Expiration[t]
  BY <1>2
<1> QED BY <1>3, <1>4, <1>5, <1>6 DEF Applies

(* One more transaction that applies.                                      *)
LEMMA AcceptedAppend ==
  ASSUME NEW c, NEW s, Accepted(c, s), NEW t \in Txs, Applies(t, c, s)
  PROVE  Accepted(c, Append(s, t))
<1> DEFINE r == Append(s, t)
<1>1. s \in Seq(Txs) /\ Len(s) \in Nat
  BY LenProperties DEF Accepted
<1>2. /\ r \in Seq(Txs) /\ Len(r) = Len(s) + 1
      /\ \A i \in 1 .. Len(s) : r[i] = s[i]
      /\ r[Len(s) + 1] = t
  BY <1>1, AppendProperties
<1>3. ASSUME NEW i \in 1 .. Len(s) + 1 PROVE Applies(r[i], c, SubSeq(r, 1, i - 1))
  <2>1. SubSeq(r, 1, i - 1) = SubSeq(s, 1, i - 1)
    <3>1. i - 1 \in 0 .. Len(s) /\ \A j \in 1 .. i - 1 : j \in 1 .. Len(s)
      BY <1>1
    <3>2. \A j \in 1 .. i - 1 : r[j] = s[j]
      BY <1>2, <3>1
    <3>3. /\ SubSeq(r, 1, i - 1) = [j \in 1 .. i - 1 |-> r[j]]
          /\ SubSeq(s, 1, i - 1) = [j \in 1 .. i - 1 |-> s[j]]
      BY <1>1, <1>2, <3>1
    <3> QED BY <3>2, <3>3
  <2>2. CASE i \in 1 .. Len(s)
    BY <1>2, <2>1, <2>2 DEF Accepted
  <2>3. CASE i = Len(s) + 1
    <3>1. i - 1 = Len(s)
      BY <1>1, <2>3
    <3>2. SubSeq(s, 1, i - 1) = s
      BY <1>1, <3>1
    <3> QED BY <1>2, <2>1, <2>3, <3>2
  <2> QED BY <1>1, <2>2, <2>3
<1> HIDE DEF r
<1>4. Accepted(c, r)
  BY <1>2, <1>3 DEF Accepted
<1> QED BY <1>4 DEF r

(* Transactions that can be applied in their order are not on the chain,   *)
(* all different, and each comes after those it relies on.                 *)
LEMMA AcceptedMeans ==
  ASSUME NEW c \in Seq(Blocks), NEW s, Accepted(c, s)
  PROVE  /\ s \in BlockTxs /\ s \in Seq(Txs) /\ Ready(c, s)
         /\ \A i \in 1 .. Len(s) : ~ Holds(c, s[i])
<1>1. s \in Seq(Txs) /\ Len(s) \in Nat /\ \A i \in 1 .. Len(s) : s[i] \in Txs
  BY ElementOfSeq, LenProperties DEF Accepted
<1>2. ASSUME NEW i \in 1 .. Len(s)
      PROVE  /\ ~ Holds(c, s[i])
             /\ \A j \in 1 .. i - 1 : s[j] # s[i]
             /\ \A u \in Needs[s[i]] : Holds(c, u) \/ \E j \in 1 .. i - 1 : s[j] = u
  <2> DEFINE r == SubSeq(s, 1, i - 1)
  <2>1. Applies(s[i], c, r) /\ s[i] \in Txs
    BY <1>1 DEF Accepted
  <2>2. \A u : u \in Range(r) <=> \E j \in 1 .. i - 1 : s[j] = u
    <3>1. i - 1 \in 0 .. Len(s)
      BY <1>1
    <3>2. r = [j \in 1 .. i - 1 |-> s[j]]
      BY <1>1, <3>1
    <3> QED BY <3>2 DEF Range
  <2> HIDE DEF r
  <2>3. /\ ~ Holds(c, s[i]) /\ s[i] \notin Range(r)
        /\ \A u \in Needs[s[i]] : Holds(c, u) \/ u \in Range(r)
    BY <2>1, AppliesMeans
  <2> QED BY <2>2, <2>3
<1>3. \A i, j \in 1 .. Len(s) : s[i] = s[j] => i = j
  <2>1. TAKE i \in 1 .. Len(s), j \in 1 .. Len(s)
  <2>2. CASE j < i
    BY <1>2, <2>2
  <2>3. CASE i < j
    BY <1>2, <2>3
  <2> QED BY <2>2, <2>3
<1>4. s \in BlockTxs
  BY <1>1, <1>3, BlockTxsMeans
<1> QED BY <1>1, <1>2, <1>4 DEF Ready

(* The empty session.                                                      *)
LEMMA NothingAccepted ==
  ASSUME NEW c
  PROVE  Accepted(c, << >>)
<1>1. Len(<< >>) = 0 /\ 1 .. 0 = {} /\ << >> \in Seq(Txs)
  OBVIOUS
<1> QED BY <1>1 DEF Accepted

(* What the restorer's destructor keeps can be applied in its order.       *)
LEMMA RestoredAccepted ==
  ASSUME NEW c \in Seq(Blocks), NEW list \in Seq(Txs)
  PROVE  Accepted(c, Restored(c, list))
<1> DEFINE n == Len(list)
<1>1. n \in Nat /\ \A i \in 1 .. n : list[i] \in Txs
  BY ElementOfSeq, LenProperties
<1>2. PICK kept : RestoresBy(kept, c, list) /\ Restored(c, list) = kept[n]
  BY RestoredStepwise
<1> DEFINE T == {i \in 0 .. n : Accepted(c, kept[i])}
<1>3. 0 \in T
  BY <1>1, <1>2, NothingAccepted DEF RestoresBy
<1>4. ASSUME NEW i \in 1 .. n, i - 1 \in T PROVE i \in T
  <2>1. Accepted(c, kept[i - 1]) /\ i \in 0 .. n /\ list[i] \in Txs
    BY <1>1, <1>4
  <2>2. kept[i] = IF Applies(list[i], c, kept[i - 1]) THEN Append(kept[i - 1], list[i])
                  ELSE kept[i - 1]
    BY <1>2 DEF RestoresBy
  <2>3. Accepted(c, kept[i])
    BY <2>1, <2>2, AcceptedAppend
  <2> QED BY <2>1, <2>3
<1> HIDE DEF T
<1>5. \A i \in 0 .. n : i \in T
  BY <1>1, <1>3, <1>4, StepByStep
<1>6. n \in T
  BY <1>1, <1>5
<1> QED BY <1>2, <1>6 DEF T

------------------------------------------------------------------------------
(* The block that is generated. *)

(* The size of one more transaction.                                       *)
LEMMA TotalSizeAppend ==
  ASSUME NEW s \in Seq(Txs), NEW t \in Txs
  PROVE  /\ TotalSize(<< >>) = 0
         /\ TotalSize(s) \in Nat
         /\ TotalSize(Append(s, t)) = TotalSize(s) + Size[t]
<1> DEFINE n == Len(s)
           r == Append(s, t)
<1>1. /\ r \in Seq(Txs) /\ n \in Nat /\ Len(r) = n + 1
      /\ \A i \in 1 .. n : r[i] = s[i]
      /\ r[n + 1] = t
  BY AppendProperties, LenProperties
<1>2. PICK a : AddsBy(a, s) /\ TotalSize(s) = a[n]
  BY TotalSizeStepwise
<1> HIDE DEF r
<1>3. PICK b : AddsBy(b, r) /\ TotalSize(r) = b[Len(r)]
  BY <1>1, TotalSizeStepwise
<1> DEFINE T == {i \in 0 .. n : a[i] = b[i]}
<1>4. 0 \in T
  BY <1>1, <1>2, <1>3 DEF AddsBy
<1>5. ASSUME NEW i \in 1 .. n, i - 1 \in T PROVE i \in T
  <2>1. i \in 0 .. n /\ i \in 1 .. Len(r) /\ a[i - 1] = b[i - 1] /\ r[i] = s[i]
    BY <1>1, <1>5
  <2>2. a[i] = a[i - 1] + Size[s[i]]
    BY <1>2 DEF AddsBy
  <2>3. b[i] = b[i - 1] + Size[r[i]]
    BY <1>3, <2>1 DEF AddsBy
  <2> QED BY <2>1, <2>2, <2>3
<1> HIDE DEF T
<1>6. \A i \in 0 .. n : i \in T
  BY <1>1, <1>4, <1>5, StepByStep
<1>7. a[n] = b[n] /\ n \in 0 .. n
  BY <1>1, <1>6 DEF T
<1>8. b[n + 1] = b[n] + Size[t]
  <2>1. n + 1 \in 1 .. Len(r) /\ (n + 1) - 1 = n
    BY <1>1
  <2>2. \A i \in 1 .. Len(r) : b[i] = b[i - 1] + Size[r[i]]
    BY <1>3 DEF AddsBy
  <2>3. b[n + 1] = b[(n + 1) - 1] + Size[r[n + 1]]
    BY <2>1, <2>2
  <2> QED BY <1>1, <2>1, <2>3
<1>9. TotalSize(r) = TotalSize(s) + Size[t]
  BY <1>1, <1>2, <1>3, <1>7, <1>8
<1>10. TotalSize(s) \in Nat
  BY <1>2, <1>7 DEF AddsBy
<1>11. TotalSize(<< >>) = 0
  <2>1. << >> \in Seq(Txs) /\ Len(<< >>) = 0
    OBVIOUS
  <2>2. PICK z : AddsBy(z, << >>) /\ TotalSize(<< >>) = z[Len(<< >>)]
    BY <2>1, TotalSizeStepwise
  <2> QED BY <2>1, <2>2 DEF AddsBy
<1> QED BY <1>9, <1>10, <1>11 DEF r

(* What _generate_block() selects can be applied in its order and fits.    *)
LEMMA CandidatesFit ==
  ASSUME NEW when, pending \in Seq(Txs)
  PROVE  Accepted(chain, Candidates(when)) /\ TotalSize(Candidates(when)) <= MaxBlockSize
<1> DEFINE n == Len(pending)
<1>1. n \in Nat /\ \A i \in 1 .. n : pending[i] \in Txs
  BY ElementOfSeq, LenProperties
<1>2. PICK kept : SelectsBy(kept, when) /\ Candidates(when) = kept[n]
  BY CandidatesStepwise
<1>3. MaxBlockSize \in Nat /\ Size \in [Txs -> Nat]
  BY TxAssumption
<1> DEFINE T == {i \in 0 .. n : Accepted(chain, kept[i]) /\ TotalSize(kept[i]) <= MaxBlockSize}
<1>4. 0 \in T
  <2>1. kept[0] = << >> /\ 0 \in 0 .. n
    BY <1>1, <1>2 DEF SelectsBy
  <2>2. CASE Txs = {}
    <3>1. << >> \in Seq(Txs) /\ Len(<< >>) = 0
      OBVIOUS
    <3>2. PICK z : AddsBy(z, << >>) /\ TotalSize(<< >>) = z[Len(<< >>)]
      BY <3>1, TotalSizeStepwise
    <3>3. TotalSize(<< >>) = 0
      BY <3>1, <3>2 DEF AddsBy
    <3> QED BY <1>3, <2>1, <3>3, NothingAccepted
  <2>3. CASE Txs # {}
    <3>1. << >> \in Seq(Txs)
      OBVIOUS
    <3>2. TotalSize(<< >>) = 0
      BY <2>3, <3>1, TotalSizeAppend
    <3> QED BY <1>3, <2>1, <3>2, NothingAccepted
  <2> QED BY <2>2, <2>3
<1>5. ASSUME NEW i \in 1 .. n, i - 1 \in T PROVE i \in T
  <2>1. /\ Accepted(chain, kept[i - 1]) /\ TotalSize(kept[i - 1]) <= MaxBlockSize
        /\ i \in 0 .. n /\ pending[i] \in Txs
    BY <1>1, <1>5
  <2>2. kept[i] = IF Selected(pending[i], kept[i - 1], when) THEN Append(kept[i - 1], pending[i])
                  ELSE kept[i - 1]
    BY <1>2 DEF SelectsBy
  <2>3. CASE Selected(pending[i], kept[i - 1], when)
    <3>1. kept[i] = Append(kept[i - 1], pending[i]) /\ Applies(pending[i], chain, kept[i - 1])
      BY <2>2, <2>3 DEF Selected
    <3>2. Accepted(chain, kept[i])
      BY <2>1, <3>1, AcceptedAppend
    <3>3. kept[i - 1] \in Seq(Txs)
      BY <2>1 DEF Accepted
    <3>4. /\ TotalSize(kept[i]) = TotalSize(kept[i - 1]) + Size[pending[i]]
          /\ TotalSize(kept[i - 1]) \in Nat
      BY <2>1, <3>1, <3>3, TotalSizeAppend
    <3>5. TotalSize(kept[i - 1]) + Size[pending[i]] < MaxBlockSize
      BY <2>3 DEF Selected
    <3>6. TotalSize(kept[i]) <= MaxBlockSize
      BY <1>3, <2>1, <3>4, <3>5
    <3> QED BY <2>1, <3>2, <3>6
  <2>4. CASE ~ Selected(pending[i], kept[i - 1], when)
    BY <2>1, <2>2, <2>4
  <2> QED BY <2>3, <2>4
<1> HIDE DEF T
<1>6. \A i \in 0 .. n : i \in T
  BY <1>1, <1>4, <1>5, StepByStep
<1>7. n \in T
  BY <1>1, <1>6
<1> QED BY <1>2, <1>7 DEF T

------------------------------------------------------------------------------
(* What the restorer cannot restore. *)

(* A transaction of the list that is neither on the chain nor restored     *)
(* could not be applied now either: what it lacks comes before it in the   *)
(* list, so it was tried and failed for good.                              *)
LEMMA RestoredAll ==
  ASSUME NEW c \in Seq(Blocks), NEW list \in Seq(Txs), Ready(c, list), NEW t \in Range(list)
  PROVE  \/ Holds(c, t) \/ t \in Range(Restored(c, list))
         \/ ~ Applies(t, c, Restored(c, list))
<1> DEFINE n == Len(list)
<1>1. n \in Nat /\ \A i \in 1 .. n : list[i] \in Txs
  BY ElementOfSeq, LenProperties
<1>2. PICK kept : RestoresBy(kept, c, list) /\ Restored(c, list) = kept[n]
  BY RestoredStepwise
<1>3. /\ \A i \in 0 .. n : kept[i] \in Seq(Txs)
      /\ \A i \in 1 .. n :
           kept[i] = IF Applies(list[i], c, kept[i - 1]) THEN Append(kept[i - 1], list[i])
                     ELSE kept[i - 1]
  BY <1>2 DEF RestoresBy
<1>4. ASSUME NEW i \in 1 .. n
      PROVE  /\ Range(kept[i - 1]) \subseteq Range(kept[i])
             /\ Applies(list[i], c, kept[i - 1]) => list[i] \in Range(kept[i])
             /\ \A u \in Range(kept[i]) \ Range(kept[i - 1]) :
                  u = list[i] /\ Applies(u, c, kept[i - 1])
  <2>1. i - 1 \in 0 .. n
    BY <1>1
  <2>2. kept[i - 1] \in Seq(Txs) /\ list[i] \in Txs
    BY <1>1, <1>3, <2>1
  <2>3. Range(Append(kept[i - 1], list[i])) = Range(kept[i - 1]) \cup {list[i]}
    BY <2>2, RangeOfAppend
  <2> QED BY <1>3, <2>3
<1> HIDE DEF n
<1>5. \A k \in 0 .. n : \A i \in 0 .. k : Range(kept[i]) \subseteq Range(kept[k])
  <2> DEFINE T == {k \in 0 .. n : \A i \in 0 .. k : Range(kept[i]) \subseteq Range(kept[k])}
  <2>1. 0 \in T
    <3>1. 0 .. 0 = {0} /\ 0 \in 0 .. n
      BY <1>1
    <3> QED BY <3>1
  <2>2. ASSUME NEW k \in 1 .. n, k - 1 \in T PROVE k \in T
    <3>1. k \in 0 .. n /\ 0 .. k = (0 .. k - 1) \cup {k}
      BY <1>1
    <3> QED BY <1>4, <2>2, <3>1
  <2> HIDE DEF T
  <2>3. \A k \in 0 .. n : k \in T
    BY <1>1, <2>1, <2>2, StepByStep
  <2> QED BY <2>3 DEF T
(* When a transaction got in. *)
<1>6. ASSUME NEW a \in 0 .. n, NEW k \in a .. n, NEW u \in Range(kept[k]), u \notin Range(kept[a])
      PROVE  \E m \in a .. n : m < n /\ Applies(u, c, kept[m])
  <2> DEFINE E == {m \in a .. n : u \in Range(kept[m])}
  <2>1. E \in SUBSET Nat /\ E # {}
    BY <1>1, <1>6
  <2>2. PICK m \in E : \A y \in E : m <= y
    BY <2>1, LeastNumber
  <2>3. m \in a .. n /\ u \in Range(kept[m]) /\ m # a
    BY <1>6
  <2>4. m - 1 \in a .. n /\ m \in 1 .. n /\ ~ (m <= m - 1) /\ m - 1 < n
    BY <1>1, <2>3
  <2>5. u \notin Range(kept[m - 1])
    BY <2>2, <2>4
  <2> QED BY <1>4, <2>3, <2>4, <2>5
<1> DEFINE Lost(i) == ~ Holds(c, list[i]) /\ list[i] \notin Range(kept[i])
           B == {i \in 1 .. n : Lost(i) /\ \E k \in i - 1 .. n : Applies(list[i], c, kept[k])}
<1>7. B = {}
  <2>1. SUFFICES ASSUME B # {} PROVE FALSE
    OBVIOUS
  <2>2. B \in SUBSET Nat
    BY <1>1
  <2>3. PICK i \in B : \A j \in B : i <= j
    BY <2>1, <2>2, LeastNumber
  <2>4. PICK k \in i - 1 .. n : Applies(list[i], c, kept[k])
    OBVIOUS
  <2>5. i \in 1 .. n /\ Lost(i) /\ list[i] \in Txs /\ i - 1 \in 0 .. n /\ k \in 0 .. n /\ i - 1 \in 0 .. k
    BY <1>1
  <2>6. ~ Applies(list[i], c, kept[i - 1])
    BY <1>4, <2>5
  <2>7. Range(kept[i - 1]) \subseteq Range(kept[k])
    BY <1>5, <2>5
  <2>8. PICK u \in Needs[list[i]] : u \in Range(kept[k]) /\ ~ Holds(c, u) /\ u \notin Range(kept[i - 1])
    <3> DEFINE Late == c # << >> => /\ Expiration[list[i]] <= Time(c) + MaxUntil
                                    /\ Time(c) < Expiration[list[i]]
    <3>1. /\ ~ Holds(c, list[i]) /\ list[i] \notin Range(kept[k]) /\ Late
          /\ \A u \in Needs[list[i]] : Holds(c, u) \/ u \in Range(kept[k])
          /\ \A u : Holds(c, u) \/ u \in Range(kept[k]) => {list[i], u} \notin Conflicts
      BY <2>4, <2>5, AppliesMeans
    <3>2. ~ (/\ ~ Holds(c, list[i]) /\ list[i] \notin Range(kept[i - 1]) /\ Late
             /\ \A u \in Needs[list[i]] : Holds(c, u) \/ u \in Range(kept[i - 1])
             /\ \A u : Holds(c, u) \/ u \in Range(kept[i - 1]) => {list[i], u} \notin Conflicts)
      <4> DEFINE r == kept[i - 1]
      <4>1. ~ Applies(list[i], c, r) /\ list[i] \in Txs
        BY <2>5, <2>6
      <4> HIDE DEF r
      <4>2. ~ (/\ ~ Holds(c, list[i]) /\ list[i] \notin Range(r) /\ Late
               /\ \A u \in Needs[list[i]] : Holds(c, u) \/ u \in Range(r)
               /\ \A u : Holds(c, u) \/ u \in Range(r) => {list[i], u} \notin Conflicts)
        BY <4>1, AppliesMeans
      <4> QED BY <4>2 DEF r
    <3> HIDE DEF Late
    <3> QED BY <2>7, <3>1, <3>2
  <2>9. PICK j \in 1 .. i - 1 : list[j] = u
    BY <2>5, <2>8 DEF Ready, n
  <2>10. j \in 1 .. n /\ j \in 0 .. i - 1 /\ ~ (i <= j)
    BY <1>1, <2>5
  <2>11. Range(kept[j]) \subseteq Range(kept[i - 1])
    BY <1>5, <2>5, <2>10
  <2>12. Lost(j) /\ j \notin B
    BY <2>3, <2>8, <2>9, <2>10, <2>11
  <2>13. \A m \in j - 1 .. n : ~ Applies(u, c, kept[m])
    BY <2>9, <2>10, <2>12
  <2>14. PICK m \in i - 1 .. n : Applies(u, c, kept[m])
    BY <1>6, <2>4, <2>5, <2>8
  <2>15. m \in j - 1 .. n
    BY <1>1, <2>5, <2>10
  <2> QED BY <2>13, <2>14, <2>15
<1>8. PICK i \in 1 .. n : list[i] = t
  BY InRange DEF n
<1>9. n \in i - 1 .. n /\ i \in 0 .. n /\ n \in 0 .. n /\ i \in 0 .. n
  BY <1>1
<1>10. CASE Lost(i)
  BY <1>2, <1>7, <1>8, <1>9, <1>10
<1>11. CASE list[i] \in Range(kept[i])
  BY <1>2, <1>5, <1>8, <1>9, <1>11
<1> QED BY <1>8, <1>10, <1>11

------------------------------------------------------------------------------
(* Blocks come and go. *)

(* The blocks of a chain and their transactions, by positions.             *)
LEMMA BlocksOf ==
  ASSUME NEW c \in Seq(Blocks)
  PROVE  /\ Len(c) \in Nat
         /\ \A i \in 1 .. Len(c) :
              /\ c[i] \in Blocks /\ Len(c[i].txs) \in Nat
              /\ \A p \in 1 .. Len(c[i].txs) : c[i].txs[p] \in Txs
              /\ \A p, q \in 1 .. Len(c[i].txs) : c[i].txs[p] = c[i].txs[q] => p = q
              /\ \A t : t \in Range(c[i].txs) <=> \E p \in 1 .. Len(c[i].txs) : c[i].txs[p] = t
<1>1. Len(c) \in Nat /\ \A i \in 1 .. Len(c) : c[i] \in Blocks
  BY ElementOfSeq, LenProperties
<1>2. ASSUME NEW b \in Blocks
      PROVE  \A t : t \in Range(b.txs) <=> \E p \in 1 .. Len(b.txs) : b.txs[p] = t
  BY BlockFields, InRange
<1> QED BY <1>1, <1>2, BlockFields

(* A chain with one more block.                                            *)
LEMMA AppendedBlock ==
  ASSUME NEW c \in Seq(Blocks), NEW b \in Blocks
  PROVE  /\ Append(c, b) \in Seq(Blocks) /\ Len(Append(c, b)) = Len(c) + 1
         /\ \A i \in 1 .. Len(c) : Append(c, b)[i] = c[i]
         /\ Append(c, b)[Len(c) + 1] = b
         /\ \A t : Holds(c, t) => Holds(Append(c, b), t)
<1>1. /\ Append(c, b) \in Seq(Blocks) /\ Len(Append(c, b)) = Len(c) + 1 /\ Len(c) \in Nat
      /\ \A i \in 1 .. Len(c) : Append(c, b)[i] = c[i]
      /\ Append(c, b)[Len(c) + 1] = b
  BY AppendProperties, LenProperties
<1>2. \A i \in 1 .. Len(c) : i \in 1 .. Len(Append(c, b))
  BY <1>1
<1> QED BY <1>1, <1>2 DEF Holds

(* A chain without its last block.                                         *)
LEMMA FrontOfBlocks ==
  ASSUME NEW c \in Seq(Blocks), c # << >>
  PROVE  /\ Front(c) \in Seq(Blocks) /\ Len(Front(c)) = Len(c) - 1
         /\ \A i \in 1 .. Len(c) - 1 : Front(c)[i] = c[i]
         /\ Last(c) = c[Len(c)] /\ Last(c) \in Blocks /\ Len(c) \in Nat \ {0}
         /\ \A t : Holds(c, t) <=> Holds(Front(c), t) \/ t \in Range(Last(c).txs)
<1> DEFINE n == Len(c)
<1>1. n \in Nat \ {0} /\ n \in 1 .. n
  BY EmptySeq, LenProperties
<1>2. c[n] \in Blocks /\ Last(c) = c[n]
  BY <1>1, ElementOfSeq DEF Last
<1>3. Front(c) \in Seq(Blocks) /\ Len(Front(c)) = n - 1 /\ \A i \in 1 .. n - 1 : Front(c)[i] = c[i]
  <2> DEFINE k == n - 1
  <2>1. Front(c) = SubSeq(c, 1, k)
    BY DEF Front
  <2>2. k \in Nat /\ \A i \in 1 .. k : c[i] \in Blocks
    BY <1>1, ElementOfSeq
  <2> HIDE DEF k
  <2>3. /\ SubSeq(c, 1, k) \in Seq(Blocks)
        /\ Len(SubSeq(c, 1, k)) = IF 1 <= k THEN k - 1 + 1 ELSE 0
        /\ \A i \in 1 .. k - 1 + 1 : SubSeq(c, 1, k)[i] = c[1 + i - 1]
    BY <2>2, SubSeqProperties
  <2>4. \A i \in 1 .. k : i \in 1 .. k - 1 + 1 /\ 1 + i - 1 = i
    BY <2>2
  <2>5. Len(SubSeq(c, 1, k)) = k
    BY <2>2, <2>3
  <2>6. \A i \in 1 .. k : SubSeq(c, 1, k)[i] = c[i]
    BY <2>3, <2>4
  <2> QED BY <2>1, <2>3, <2>5, <2>6 DEF k
<1> HIDE DEF n
<1>4. 1 .. n = (1 .. n - 1) \cup {n}
  BY <1>1
<1>5. \A t : Holds(c, t) <=> \E i \in 1 .. n : t \in Range(c[i].txs)
  BY DEF Holds, n
<1>6. \A t : Holds(Front(c), t) <=> \E i \in 1 .. n - 1 : t \in Range(c[i].txs)
  BY <1>3 DEF Holds
<1>7. \A t : Holds(c, t) <=> Holds(Front(c), t) \/ t \in Range(Last(c).txs)
  BY <1>2, <1>4, <1>5, <1>6
<1> QED BY <1>1, <1>2, <1>3, <1>7 DEF n

(* A branch is sound up to any of its blocks.                              *)
LEMMA Shorter ==
  ASSUME NEW c, Sound(c), NEW d \in Seq(Blocks), Len(d) <= Len(c),
         \A i \in 1 .. Len(d) : d[i] = c[i]
  PROVE  Sound(d)
<1>1. Len(c) \in Nat /\ Len(d) \in Nat
  BY LenProperties DEF Sound
<1>2. \A i \in 1 .. Len(d) : i \in 1 .. Len(c) /\ \A j \in 1 .. i - 1 : j \in 1 .. Len(d)
  BY <1>1
<1>3. OnceOn(d)
  BY <1>2 DEF Sound, OnceOn
<1>4. Backed(d)
  <2>1. SUFFICES ASSUME NEW i \in 1 .. Len(d), NEW p \in 1 .. Len(d[i].txs),
                        NEW u \in Needs[d[i].txs[p]]
                 PROVE  \/ \E q \in 1 .. p - 1 : d[i].txs[q] = u
                        \/ \E j \in 1 .. i - 1 : u \in Range(d[j].txs)
    BY DEF Backed
  <2>2. d[i] = c[i] /\ i \in 1 .. Len(c)
    BY <1>2
  <2>3. \/ \E q \in 1 .. p - 1 : c[i].txs[q] = u
        \/ \E j \in 1 .. i - 1 : u \in Range(c[j].txs)
    BY <2>1, <2>2 DEF Sound, Backed
  <2>4. \A j \in 1 .. i - 1 : d[j] = c[j]
    BY <1>2
  <2> QED BY <2>2, <2>3, <2>4
<1> QED BY <1>3, <1>4 DEF Sound

(* A block that applies leaves the branch sound.                           *)
LEMMA BlockExtends ==
  ASSUME NEW c, Sound(c), NEW b \in Blocks, BlockApplies(b, c)
  PROVE  Sound(Append(c, b))
<1> DEFINE n == Len(c)
           d == Append(c, b)
           m == Len(b.txs)
<1>1. c \in Seq(Blocks) /\ OnceOn(c) /\ Backed(c)
  BY DEF Sound
<1>2. Accepted(c, b.txs)
  BY BlockFields DEF BlockApplies, Accepted
<1>3. Ready(c, b.txs) /\ \A p \in 1 .. m : ~ Holds(c, b.txs[p])
  BY <1>1, <1>2, AcceptedMeans
<1>4. \A p, q \in 1 .. m : b.txs[p] = b.txs[q] => p = q
  BY BlockFields
<1>5. n \in Nat /\ d \in Seq(Blocks) /\ Len(d) = n + 1 /\ d[n + 1] = b /\ \A i \in 1 .. n : d[i] = c[i]
  BY <1>1, AppendedBlock, LenProperties
<1>6. \A i \in 1 .. n : \A p \in 1 .. Len(c[i].txs) : c[i].txs[p] \in Range(c[i].txs)
  BY <1>1, BlocksOf
<1> HIDE DEF d, n, m
<1>7. ASSUME NEW i \in 1 .. n, NEW p \in 1 .. Len(c[i].txs), NEW q \in 1 .. m
      PROVE  c[i].txs[p] # b.txs[q]
  BY <1>3, <1>6 DEF Holds, n
<1>8. \A i \in 1 .. n + 1 : i \in 1 .. n \/ i = n + 1
  BY <1>5
<1>9. OnceOn(d)
  <2>1. SUFFICES ASSUME NEW i \in 1 .. n + 1, NEW j \in 1 .. n + 1,
                        NEW p \in 1 .. Len(d[i].txs), NEW q \in 1 .. Len(d[j].txs),
                        d[i].txs[p] = d[j].txs[q]
                 PROVE  i = j /\ p = q
    BY <1>5 DEF OnceOn
  <2>2. CASE i \in 1 .. n /\ j \in 1 .. n
    <3>1. d[i] = c[i] /\ d[j] = c[j]
      BY <1>5, <2>2
    <3> QED BY <1>1, <2>1, <2>2, <3>1 DEF OnceOn, n
  <2>3. CASE i \in 1 .. n /\ j = n + 1
    BY <1>5, <1>7, <2>1, <2>3 DEF m
  <2>4. CASE i = n + 1 /\ j \in 1 .. n
    BY <1>5, <1>7, <2>1, <2>4 DEF m
  <2>5. CASE i = n + 1 /\ j = n + 1
    BY <1>4, <1>5, <2>1, <2>5 DEF m
  <2> QED BY <1>8, <2>2, <2>3, <2>4, <2>5
<1>10. Backed(d)
  <2>1. SUFFICES ASSUME NEW i \in 1 .. n + 1, NEW p \in 1 .. Len(d[i].txs),
                        NEW u \in Needs[d[i].txs[p]]
                 PROVE  \/ \E q \in 1 .. p - 1 : d[i].txs[q] = u
                        \/ \E j \in 1 .. i - 1 : u \in Range(d[j].txs)
    BY <1>5 DEF Backed
  <2>2. CASE i \in 1 .. n
    <3>1. \A j \in 1 .. i - 1 : j \in 1 .. n
      BY <1>5, <2>2
    <3>2. d[i] = c[i]
      BY <1>5, <2>2
    <3>3. \/ \E q \in 1 .. p - 1 : c[i].txs[q] = u
          \/ \E j \in 1 .. i - 1 : u \in Range(c[j].txs)
      BY <1>1, <2>1, <2>2, <3>2 DEF Backed, n
    <3> QED BY <1>5, <3>1, <3>2, <3>3
  <2>3. CASE i = n + 1
    <3>1. d[i] = b /\ i - 1 = n
      BY <1>5, <2>3
    <3>2. Holds(c, u) \/ \E q \in 1 .. p - 1 : b.txs[q] = u
      BY <1>3, <3>1 DEF Ready
    <3>3. Holds(c, u) => \E j \in 1 .. n : u \in Range(d[j].txs)
      BY <1>5 DEF Holds, n
    <3> QED BY <3>1, <3>2, <3>3
  <2> QED BY <1>8, <2>2, <2>3
<1>11. Sound(d)
  BY <1>5, <1>9, <1>10 DEF Sound
<1> QED BY <1>11 DEF d

(* The transactions of a popped block go before those popped already.      *)
LEMMA ReadyAfterPop ==
  ASSUME NEW c, Sound(c), c # << >>, NEW list \in Seq(Txs), Ready(c, list)
  PROVE  Ready(Front(c), Last(c).txs \o list) /\ Last(c).txs \o list \in Seq(Txs)
<1> DEFINE n == Len(c)
           b == c[n]
           s == b.txs
           m == Len(s)
           l == Len(list)
           r == s \o list
<1>1. c \in Seq(Blocks) /\ OnceOn(c) /\ Backed(c)
  BY DEF Sound
<1>2. /\ n \in Nat \ {0} /\ Last(c) = b /\ b \in Blocks
      /\ \A t : Holds(c, t) <=> Holds(Front(c), t) \/ t \in Range(s)
      /\ \A i \in 1 .. n - 1 : Front(c)[i] = c[i]
      /\ Len(Front(c)) = n - 1
  BY <1>1, FrontOfBlocks
<1>3. s \in Seq(Txs) /\ m \in Nat /\ l \in Nat /\ Len(s) = m /\ Len(list) = l
  BY <1>2, BlockFields, LenProperties
<1>4. \A t : t \in Range(s) <=> \E p \in 1 .. m : s[p] = t
  BY <1>3, InRange
<1>5. n \in 1 .. n
  BY <1>2
<1>6. ASSUME NEW p \in 1 .. m, NEW u \in Needs[s[p]]
      PROVE  Holds(Front(c), u) \/ \E q \in 1 .. p - 1 : s[q] = u
  BY <1>1, <1>2, <1>5 DEF Backed, Holds
<1> HIDE DEF r, s, b, n, m, l
<1>7. /\ r \in Seq(Txs) /\ Len(r) = m + l
      /\ \A i \in 1 .. m : r[i] = s[i]
      /\ \A i \in 1 .. l : r[m + i] = list[i]
  BY <1>3, Concatenated DEF r
<1>8. ASSUME NEW i \in 1 .. m + l, NEW u \in Needs[r[i]]
      PROVE  Holds(Front(c), u) \/ \E j \in 1 .. i - 1 : r[j] = u
  <2>1. CASE i \in 1 .. m
    <3>1. r[i] = s[i] /\ \A j \in 1 .. i - 1 : j \in 1 .. m
      BY <1>3, <1>7, <2>1
    <3>2. Holds(Front(c), u) \/ \E q \in 1 .. i - 1 : s[q] = u
      BY <1>6, <1>8, <2>1, <3>1
    <3> QED BY <1>7, <3>1, <3>2
  <2>2. CASE i \notin 1 .. m
    <3>1. i - m \in 1 .. l /\ m + (i - m) = i
      BY <1>3, <2>2
    <3>2. r[i] = list[i - m]
      BY <1>7, <3>1
    <3>3. Holds(c, u) \/ \E j \in 1 .. (i - m) - 1 : list[j] = u
      BY <1>8, <3>1, <3>2 DEF Ready, l
    <3>4. CASE \E j \in 1 .. (i - m) - 1 : list[j] = u
      <4>1. PICK j \in 1 .. (i - m) - 1 : list[j] = u
        BY <3>4
      <4>2. j \in 1 .. l /\ m + j \in 1 .. i - 1
        BY <1>3, <3>1
      <4> QED BY <1>7, <4>1, <4>2
    <3>5. CASE Holds(c, u)
      <4>1. CASE u \in Range(s)
        <5>1. PICK p \in 1 .. m : s[p] = u
          BY <1>4, <4>1
        <5>2. p \in 1 .. i - 1 /\ r[p] = u
          BY <1>3, <1>7, <2>2, <5>1
        <5> QED BY <5>2
      <4> QED BY <1>2, <3>5, <4>1
    <3> QED BY <3>3, <3>4, <3>5
  <2> QED BY <2>1, <2>2
<1>9. Ready(Front(c), r)
  BY <1>7, <1>8 DEF Ready
<1> QED BY <1>2, <1>7, <1>9 DEF r, s

------------------------------------------------------------------------------
(* The branch that a switch leaves does not change while blocks move       *)
(* between the chain and the list of popped ones.                          *)

(* Without a switch the branch is the chain.                               *)
LEMMA TrunkWhenIdle ==
  ASSUME NEW c \in Seq(Blocks)
  PROVE  Trunk(c, 0, << >>) = c
<1>1. Len(c) \in Nat /\ Len(<< >>) = 0 /\ c = [i \in 1 .. Len(c) |-> c[i]]
  BY LenProperties
<1>2. Len(c) - 0 + 0 = Len(c) /\ \A i \in 1 .. Len(c) : i <= Len(c) - 0
  BY <1>1
<1> QED BY <1>1, <1>2 DEF Trunk

(* A block of the old branch is popped.                                    *)
LEMMA TrunkWhenPopped ==
  ASSUME NEW c \in Seq(Blocks), c # << >>, NEW o \in Seq(Blocks)
  PROVE  Trunk(Front(c), 0, <<Last(c)>> \o o) = Trunk(c, 0, o)
<1> DEFINE n == Len(c)
           m == Len(o)
           r == <<Last(c)>> \o o
<1>1. /\ n \in Nat \ {0} /\ Last(c) = c[n] /\ Last(c) \in Blocks
      /\ Len(Front(c)) = n - 1 /\ \A i \in 1 .. n - 1 : Front(c)[i] = c[i]
  BY FrontOfBlocks
<1>2. <<Last(c)>> \in Seq(Blocks) /\ Len(<<Last(c)>>) = 1 /\ <<Last(c)>>[1] = c[n] /\ m \in Nat
  BY <1>1, LenProperties
<1>3. /\ Len(r) = 1 + m
      /\ \A i \in 1 .. 1 : r[i] = <<Last(c)>>[i]
      /\ \A i \in 1 .. m : r[1 + i] = o[i]
  BY <1>2, Concatenated
<1>4. r[1] = c[n]
  BY <1>2, <1>3
<1> HIDE DEF r, n, m
<1>5. Len(Front(c)) - 0 + Len(r) = n + m /\ Len(c) - 0 + Len(o) = n + m
  BY <1>1, <1>2, <1>3 DEF n, m
<1>6. ASSUME NEW i \in 1 .. n + m
      PROVE  (IF i <= Len(Front(c)) - 0 THEN Front(c)[i] ELSE r[i - (Len(Front(c)) - 0)])
               = (IF i <= Len(c) - 0 THEN c[i] ELSE o[i - (Len(c) - 0)])
  <2>1. Len(Front(c)) - 0 = n - 1 /\ Len(c) - 0 = n
    BY <1>1 DEF n
  <2>2. CASE i <= n - 1
    <3>1. i \in 1 .. n - 1 /\ i <= n
      BY <1>1, <1>2, <2>2
    <3> QED BY <1>1, <2>1, <2>2, <3>1
  <2>3. CASE i = n
    <3>1. ~ (i <= n - 1) /\ i - (n - 1) = 1 /\ i <= n
      BY <1>1, <2>3
    <3> QED BY <1>4, <2>1, <2>3, <3>1
  <2>4. CASE i > n
    <3>1. ~ (i <= n - 1) /\ ~ (i <= n) /\ i - n \in 1 .. m /\ i - (n - 1) = 1 + (i - n)
      BY <1>1, <1>2, <2>4
    <3>2. r[1 + (i - n)] = o[i - n]
      BY <1>3, <3>1
    <3> QED BY <2>1, <3>1, <3>2
  <2> QED BY <1>1, <1>2, <2>2, <2>3, <2>4
<1>7. Trunk(Front(c), 0, r) = Trunk(c, 0, o)
  BY <1>5, <1>6 DEF Trunk
<1> QED BY <1>7 DEF r

(* A block of the other branch is applied.                                 *)
LEMMA TrunkWhenExtended ==
  ASSUME NEW c \in Seq(Blocks), NEW b \in Blocks, NEW n \in 0 .. Len(c), NEW o \in Seq(Blocks)
  PROVE  Trunk(Append(c, b), n + 1, o) = Trunk(c, n, o)
<1>1. /\ Len(c) \in Nat /\ Len(o) \in Nat /\ Len(Append(c, b)) = Len(c) + 1
      /\ \A i \in 1 .. Len(c) : Append(c, b)[i] = c[i]
  BY AppendedBlock, LenProperties
<1>2. Len(Append(c, b)) - (n + 1) = Len(c) - n
  BY <1>1
<1>3. \A i \in 1 .. Len(c) - n + Len(o) : i <= Len(c) - n => i \in 1 .. Len(c)
  BY <1>1
<1> QED BY <1>1, <1>2, <1>3 DEF Trunk

(* A block of the other branch is popped.                                  *)
LEMMA TrunkWhenTakenBack ==
  ASSUME NEW c \in Seq(Blocks), c # << >>, NEW n \in 1 .. Len(c), NEW o \in Seq(Blocks)
  PROVE  Trunk(Front(c), n - 1, o) = Trunk(c, n, o)
<1>1. /\ Len(c) \in Nat /\ Len(o) \in Nat /\ Len(Front(c)) = Len(c) - 1
      /\ \A i \in 1 .. Len(c) - 1 : Front(c)[i] = c[i]
  BY FrontOfBlocks, LenProperties
<1>2. Len(Front(c)) - (n - 1) = Len(c) - n
  BY <1>1
<1>3. \A i \in 1 .. Len(c) - n + Len(o) : i <= Len(c) - n => i \in 1 .. Len(c) - 1
  BY <1>1
<1> QED BY <1>1, <1>2, <1>3 DEF Trunk

(* A block of the old branch is applied again: the chain then is the       *)
(* beginning of that branch, so it is sound although the block was not     *)
(* checked again.                                                          *)
LEMMA TrunkWhenReapplied ==
  ASSUME NEW c \in Seq(Blocks), NEW o \in Seq(Blocks), o # << >>, Sound(Trunk(c, 0, o))
  PROVE  /\ Trunk(Append(c, o[1]), 0, Tail(o)) = Trunk(c, 0, o)
         /\ o[1] \in Blocks /\ Tail(o) \in Seq(Blocks) /\ (Len(o) = 1 => Tail(o) = << >>)
         /\ Sound(Append(c, o[1]))
<1> DEFINE n == Len(c)
           m == Len(o)
           d == Append(c, o[1])
           w == Trunk(c, 0, o)
<1>1. m \in Nat \ {0} /\ n \in Nat /\ 1 \in 1 .. m
  BY EmptySeq, LenProperties
<1>2. o[1] \in Blocks
  BY <1>1, ElementOfSeq
<1>3. /\ d \in Seq(Blocks) /\ Len(d) = n + 1 /\ d[n + 1] = o[1] /\ \A i \in 1 .. n : d[i] = c[i]
  BY <1>2, AppendedBlock
<1>4. Tail(o) \in Seq(Blocks) /\ Len(Tail(o)) = m - 1 /\ \A i \in 1 .. m - 1 : Tail(o)[i] = o[i + 1]
  BY HeadTailProperties
<1>5. m = 1 => Tail(o) = << >>
  <2>1. m = 1 => Len(Tail(o)) = 0
    <3> HIDE DEF m
    <3> QED BY <1>4
  <2> QED BY <1>4, <2>1, EmptySeq
<1>6. w = [i \in 1 .. n + m |-> IF i <= n THEN c[i] ELSE o[i - n]]
  <2>1. n - 0 + m = n + m /\ n - 0 = n
    BY <1>1
  <2> QED BY <2>1 DEF Trunk
<1> HIDE DEF d, n, m, w
<1>7. Trunk(d, 0, Tail(o)) = w
  <2>1. Len(d) - 0 + Len(Tail(o)) = n + m /\ Len(d) - 0 = n + 1
    BY <1>1, <1>3, <1>4
  <2>2. ASSUME NEW i \in 1 .. n + m
        PROVE  (IF i <= n + 1 THEN d[i] ELSE Tail(o)[i - (n + 1)])
                 = (IF i <= n THEN c[i] ELSE o[i - n])
    <3>1. CASE i <= n
      <4>1. i \in 1 .. n /\ i <= n + 1
        BY <1>1, <3>1
      <4> QED BY <1>3, <3>1, <4>1
    <3>2. CASE i = n + 1
      <4>1. i <= n + 1 /\ ~ (i <= n) /\ i - n = 1
        BY <1>1, <3>2
      <4> QED BY <1>3, <3>2, <4>1
    <3>3. CASE i > n + 1
      <4> DEFINE k == i - (n + 1)
                 l == i - n
      <4>1. ~ (i <= n + 1) /\ ~ (i <= n) /\ k \in 1 .. m - 1 /\ k + 1 = l
        BY <1>1, <3>3
      <4> HIDE DEF k, l
      <4>2. Tail(o)[k] = o[l]
        BY <1>4, <4>1
      <4>3. (IF i <= n + 1 THEN d[i] ELSE Tail(o)[k]) = (IF i <= n THEN c[i] ELSE o[l])
        BY <4>1, <4>2
      <4> QED BY <4>3 DEF k, l
    <3>4. i <= n \/ i = n + 1 \/ i > n + 1
      BY <1>1
    <3> QED BY <3>1, <3>2, <3>3, <3>4
  <2> QED BY <1>6, <2>1, <2>2 DEF Trunk
<1>8. Sound(d)
  <2>1. Sound(w)
    BY DEF w
  <2>2. Len(w) = n + m /\ \A i \in 1 .. n + m : w[i] = IF i <= n THEN c[i] ELSE o[i - n]
    BY <1>1, <1>6
  <2>3. ASSUME NEW i \in 1 .. n + 1 PROVE d[i] = w[i]
    <3>1. i \in 1 .. n + m
      BY <1>1
    <3>2. CASE i <= n
      <4>1. i \in 1 .. n
        BY <1>1, <3>2
      <4> QED BY <1>3, <2>2, <3>1, <3>2, <4>1
    <3>3. CASE i = n + 1
      <4>1. ~ (i <= n) /\ i - n = 1
        BY <1>1, <3>3
      <4> QED BY <1>3, <2>2, <3>1, <3>3, <4>1
    <3> QED BY <1>1, <3>2, <3>3
  <2>4. Len(d) <= Len(w)
    BY <1>1, <1>3, <2>2
  <2> QED BY <1>3, <2>1, <2>3, <2>4, Shorter
<1> QED BY <1>2, <1>4, <1>5, <1>7, <1>8 DEF d, w, m

------------------------------------------------------------------------------
(* Every step keeps the invariant. *)

(* What stays ready when a block is applied.                               *)
LEMMA ReadyGrows ==
  ASSUME NEW c \in Seq(Blocks), NEW b \in Blocks, NEW list, Ready(c, list)
  PROVE  Ready(Append(c, b), list)
<1> DEFINE d == Append(c, b)
<1>1. \A t : Holds(c, t) => Holds(d, t)
  BY AppendedBlock
<1> HIDE DEF d
<1>2. Ready(d, list)
  BY <1>1 DEF Ready
<1> QED BY <1>2 DEF d

(* Nothing is pending: the restorer's destructor has an empty list.        *)
LEMMA EmptyIsReady ==
  ASSUME NEW c
  PROVE  Ready(c, << >> \o << >>) /\ << >> \in BlockTxs /\ << >> \o << >> = << >>
<1>1. << >> \o << >> = << >> /\ << >> \in Seq(Txs) /\ Len(<< >>) = 0
  OBVIOUS
<1>2. << >> \in BlockTxs
  <2>1. PICK e : e = << >>
    OBVIOUS
  <2>2. e \in Seq(Txs) /\ \A i, j \in 1 .. Len(e) : e[i] = e[j] => i = j
    BY <1>1, <2>1
  <2>3. e \in BlockTxs
    BY <2>2, BlockTxsMeans
  <2> QED BY <2>1, <2>3
<1>3. Ready(c, << >>)
  BY <1>1 DEF Ready
<1> QED BY <1>1, <1>2, <1>3

(* No blocks, nothing pending.                                             *)
LEMMA InitPending == Init => PendingInv
<1> SUFFICES ASSUME Init PROVE PendingInv
  OBVIOUS
<1>1. << >> \in Seq(Blocks) /\ Len(<< >>) = 0 /\ 1 .. 0 = {} /\ << >> \in Seq(Txs)
  OBVIOUS
<1>2. TypeOK
  <2>1. 0 \in 0 .. MaxHeight
    BY TxAssumption
  <2> QED BY <1>1, <2>1, EmptyIsReady DEF Init, TypeOK
<1>3. Stages
  BY <1>1 DEF Init, Stages
<1>4. Sound(chain)
  BY <1>1 DEF Init, Sound, OnceOn, Backed
<1>5. Sound(Trunk(chain, new, old))
  BY <1>1, <1>4, TrunkWhenIdle DEF Init
<1>6. Accepted(chain, pending)
  BY NothingAccepted DEF Init
<1>7. Ready(chain, popped \o saved)
  BY EmptyIsReady DEF Init
<1> QED BY <1>2, <1>3, <1>4, <1>5, <1>6, <1>7 DEF PendingInv

(* push_block() returns with a chain c that is sound.                      *)
LEMMA EndPending ==
  ASSUME PendingInv, Sound(chain'), End
  PROVE  PendingInv'
<1>1. chain' \in Seq(Blocks)
  BY DEF Sound
<1>2. popped \o saved \in Seq(Txs)
  <2>1. popped \in Seq(Txs) /\ saved \in Seq(Txs)
    BY BlockTxsMeans DEF PendingInv, TypeOK
  <2> QED BY <2>1, ConcatProperties
<1>3. Accepted(chain', pending')
  BY <1>1, <1>2, RestoredAccepted DEF End
<1>4. pending' \in BlockTxs
  BY <1>1, <1>3, AcceptedMeans
<1>5. TypeOK'
  <2>1. 0 \in 0 .. MaxHeight /\ << >> \in Seq(Blocks) /\ << >> \in Seq(Txs)
    BY TxAssumption
  <2> QED BY <1>1, <1>4, <2>1, EmptyIsReady DEF End, TypeOK
<1>6. Stages'
  <2>1. 0 <= Len(chain')
    BY <1>1, LenProperties
  <2> QED BY <2>1 DEF End, Stages
<1>7. Sound(Trunk(chain', new', old'))
  BY <1>1, TrunkWhenIdle DEF End
<1>8. Ready(chain', popped' \o saved')
  BY EmptyIsReady DEF End
<1> QED BY <1>3, <1>5, <1>6, <1>7, <1>8 DEF PendingInv

(* The restorer's constructor: what was pending is ready.                  *)
LEMMA BeginPending ==
  ASSUME PendingInv, NEW b \in Blocks \cup {NoBlock}, NEW mine \in BOOLEAN,
         NEW where \in {"extend", "pop"}, where = "extend" => b \in Blocks,
         Begin(b, mine, where)
  PROVE  PendingInv'
<1>1. /\ chain \in Seq(Blocks) /\ old = << >> /\ popped = << >> /\ saved = << >> /\ new = 0
      /\ Accepted(chain, pending) /\ Sound(chain)
  BY DEF PendingInv, TypeOK, Stages, Begin
<1>2. pending \in BlockTxs /\ pending \in Seq(Txs) /\ Ready(chain, pending)
  BY <1>1, AcceptedMeans
<1>3. Ready(chain', popped' \o saved')
  <2>1. << >> \o pending = pending
    BY <1>2
  <2> QED BY <1>1, <1>2, <2>1 DEF Begin
<1>4. TypeOK'
  BY <1>2, EmptyIsReady DEF PendingInv, TypeOK, Begin
<1>5. Stages'
  BY <1>1, <1>4 DEF PendingInv, Stages, Begin
<1>6. Accepted(chain', pending')
  BY NothingAccepted DEF Begin
<1> QED BY <1>1, <1>3, <1>4, <1>5, <1>6 DEF PendingInv, Begin

(* A block made of candidates is a block.                                  *)
LEMMA GeneratedBlock ==
  ASSUME PendingInv, NEW when \in 1 .. MaxTime
  PROVE  [txs |-> Candidates(when), time |-> when] \in Blocks
<1>1. chain \in Seq(Blocks) /\ pending \in Seq(Txs)
  BY BlockTxsMeans DEF PendingInv, TypeOK
<1>2. Accepted(chain, Candidates(when))
  BY <1>1, CandidatesFit
<1>3. Candidates(when) \in BlockTxs
  BY <1>1, <1>2, AcceptedMeans
<1> QED BY <1>3 DEF Blocks

(* Every step of push_transaction(), push_block() and _generate_block()    *)
(* keeps the invariant.                                                    *)
LEMMA StepPending ==
  ASSUME PendingInv, [Next]_vars
  PROVE  PendingInv'
<1>1. /\ TypeOK /\ Stages /\ Sound(chain) /\ Sound(Trunk(chain, new, old))
      /\ Accepted(chain, pending) /\ Ready(chain, popped \o saved)
  BY DEF PendingInv
<1>2. /\ chain \in Seq(Blocks) /\ Len(chain) \in Nat /\ old \in Seq(Blocks)
      /\ popped \in Seq(Txs) /\ saved \in Seq(Txs) /\ saved \in BlockTxs
      /\ popped \o saved \in Seq(Txs)
      /\ new \in Nat /\ new <= MaxHeight /\ MaxHeight \in Nat /\ new <= Len(chain)
  <2>1. saved \in Seq(Txs) /\ popped \in Seq(Txs) /\ saved \in BlockTxs
    BY <1>1, BlockTxsMeans DEF TypeOK
  <2>2. popped \o saved \in Seq(Txs)
    BY <2>1, ConcatProperties
  <2>3. chain \in Seq(Blocks) /\ Len(chain) \in Nat /\ old \in Seq(Blocks)
    BY <1>1, LenProperties DEF TypeOK
  <2> QED BY <1>1, <2>1, <2>2, <2>3, TxAssumption DEF TypeOK, Stages
<1>3. ASSUME NEW t \in Txs, PushTransaction(t) PROVE PendingInv'
  <2>1. Accepted(chain, Append(pending, t))
    BY <1>1, <1>3, AcceptedAppend DEF PushTransaction
  <2>2. Append(pending, t) \in BlockTxs
    BY <1>2, <2>1, AcceptedMeans
  <2>3. TypeOK' /\ Stages'
    BY <1>1, <1>3, <2>2 DEF TypeOK, Stages, PushTransaction
  <2> QED BY <1>1, <1>3, <2>1, <2>3 DEF PendingInv, PushTransaction
<1>4. ASSUME NEW b \in Blocks, PushBlock(b) PROVE PendingInv'
  BY <1>4, BeginPending DEF PushBlock
<1>5. CASE PushToSwitch
  BY <1>5, BeginPending DEF PushToSwitch
<1>6. ASSUME NEW when \in 1 .. MaxTime, GenerateBlock(when) PROVE PendingInv'
  <2> DEFINE b == [txs |-> Candidates(when), time |-> when]
  <2>1. b \in Blocks
    BY GeneratedBlock
  <2>2. Begin(b, TRUE, "extend")
    BY <1>6 DEF GenerateBlock
  <2> HIDE DEF b
  <2> QED BY <2>1, <2>2, BeginPending
<1>7. CASE ExtendChain
  <2>1. block \in Blocks
    BY <1>1, <1>7 DEF ExtendChain, Stages
  <2>2. Sound(chain')
    BY <1>1, <1>7, <2>1, BlockExtends DEF ExtendChain
  <2> QED BY <1>7, <2>2, EndPending DEF ExtendChain
<1>8. CASE ExtendFails
  BY <1>1, <1>8, EndPending DEF ExtendFails
<1>9. CASE PopOld
  <2>1. chain # << >> /\ new = 0 /\ pending = << >>
    BY <1>1, <1>9 DEF PopOld, PopBlock, Stages
  <2>2. /\ Front(chain) \in Seq(Blocks) /\ Last(chain) \in Blocks
        /\ Len(Front(chain)) = Len(chain) - 1 /\ Len(chain) \in Nat \ {0}
        /\ \A i \in 1 .. Len(chain) - 1 : Front(chain)[i] = chain[i]
    BY <1>2, <2>1, FrontOfBlocks
  <2>3. Last(chain).txs \in Seq(Txs)
    BY <2>2, BlockFields
  <2>4. /\ popped' = Last(chain).txs \o popped /\ popped' \in Seq(Txs)
        /\ popped' \o saved' = Last(chain).txs \o (popped \o saved)
    <3>1. Last(chain).txs \o popped \in Seq(Txs)
      BY <1>2, <2>3, ConcatProperties
    <3>2. (Last(chain).txs \o popped) \o saved = Last(chain).txs \o (popped \o saved)
      <4> DEFINE s == Last(chain).txs
      <4>1. s \in Seq(Txs) /\ popped \in Seq(Txs) /\ saved \in Seq(Txs)
        BY <1>2, <2>3
      <4> HIDE DEF s
      <4>2. (s \o popped) \o saved = s \o (popped \o saved)
        BY <4>1
      <4> QED BY <4>2 DEF s
    <3> QED BY <1>9, <3>1, <3>2 DEF PopOld, PopBlock
  <2>5. chain' = Front(chain) /\ new' = 0 /\ old' = <<Last(chain)>> \o old /\ pc' = pc
        /\ UNCHANGED <<pending, block, own, saved>>
    BY <1>9, <2>1 DEF PopOld, PopBlock
  <2>6. old' \in Seq(Blocks)
    <3>1. <<Last(chain)>> \in Seq(Blocks)
      BY <2>2
    <3> QED BY <1>2, <2>5, <3>1, ConcatProperties
  <2>7. Sound(chain')
    <3>1. Len(Front(chain)) <= Len(chain) /\ 1 .. Len(Front(chain)) = 1 .. Len(chain) - 1
      BY <2>2
    <3> QED BY <1>1, <2>2, <2>5, <3>1, Shorter
  <2>8. Sound(Trunk(chain', new', old'))
    BY <1>1, <1>2, <2>1, <2>5, TrunkWhenPopped
  <2>9. Ready(chain', popped' \o saved')
    BY <1>1, <1>2, <2>1, <2>4, <2>5, ReadyAfterPop
  <2>10. Accepted(chain', pending')
    BY <2>1, <2>5, NothingAccepted
  <2>11. TypeOK'
    BY <1>1, <2>2, <2>4, <2>5, <2>6, TxAssumption DEF TypeOK
  <2>12. Stages'
    <3>1. new' <= Len(chain')
      BY <2>2, <2>5
    <3>2. pc = "pop"
      BY <1>9 DEF PopOld
    <3> QED BY <2>1, <2>5, <3>1, <3>2 DEF Stages
  <2> QED BY <2>7, <2>8, <2>9, <2>10, <2>11, <2>12 DEF PendingInv
<1>10. ASSUME NEW b \in Blocks, ApplyNew(b) PROVE PendingInv'
  <2>1. /\ pc \in {"pop", "apply"} /\ pending = << >> /\ Len(chain) < MaxHeight
        /\ BlockApplies(b, chain) /\ chain' = Append(chain, b)
        /\ pc' = "apply" /\ new' = new + 1
        /\ UNCHANGED <<pending, block, own, saved, popped, old>>
    BY <1>1, <1>10 DEF ApplyNew, Stages
  <2>2. Sound(chain')
    BY <1>1, <2>1, BlockExtends
  <2>3. chain' \in Seq(Blocks) /\ Len(chain') = Len(chain) + 1
    BY <1>2, <2>1, AppendedBlock
  <2>4. Sound(Trunk(chain', new', old'))
    <3>1. new \in 0 .. Len(chain)
      BY <1>2
    <3> QED BY <1>1, <1>2, <2>1, <3>1, TrunkWhenExtended
  <2>5. Ready(chain', popped' \o saved')
    BY <1>1, <1>2, <2>1, ReadyGrows
  <2>6. Accepted(chain', pending')
    BY <2>1, NothingAccepted
  <2>7. new' \in 0 .. MaxHeight /\ new' <= Len(chain')
    BY <1>2, <2>1, <2>3
  <2>8. TypeOK'
    BY <1>1, <2>1, <2>3, <2>7 DEF TypeOK
  <2>9. Stages'
    BY <2>1, <2>7 DEF Stages
  <2> QED BY <2>2, <2>4, <2>5, <2>6, <2>8, <2>9 DEF PendingInv
<1>11. CASE SwitchDone
  BY <1>1, <1>11, EndPending DEF SwitchDone
<1>12. CASE ApplyNewFails
  <2>1. TypeOK' /\ Stages'
    BY <1>1, <1>12 DEF TypeOK, Stages, ApplyNewFails
  <2> QED BY <1>1, <1>12, <2>1 DEF PendingInv, ApplyNewFails
<1>13. CASE PopNew
  <2>1. /\ chain # << >> /\ new > 0 /\ pending = << >> /\ pc = "pop_bad"
        /\ chain' = Front(chain) /\ new' = new - 1 /\ popped' = Last(chain).txs \o popped
        /\ UNCHANGED <<pending, pc, block, own, saved, old>>
    BY <1>1, <1>13 DEF PopNew, PopBlock, Stages
  <2>2. /\ Front(chain) \in Seq(Blocks) /\ Last(chain) \in Blocks
        /\ Len(Front(chain)) = Len(chain) - 1 /\ Len(chain) \in Nat \ {0}
        /\ \A i \in 1 .. Len(chain) - 1 : Front(chain)[i] = chain[i]
    BY <1>2, <2>1, FrontOfBlocks
  <2>3. Last(chain).txs \in Seq(Txs)
    BY <2>2, BlockFields
  <2>4. popped' \in Seq(Txs) /\ popped' \o saved' = Last(chain).txs \o (popped \o saved)
    <3>1. Last(chain).txs \o popped \in Seq(Txs)
      BY <1>2, <2>3, ConcatProperties
    <3>2. (Last(chain).txs \o popped) \o saved = Last(chain).txs \o (popped \o saved)
      <4> DEFINE s == Last(chain).txs
      <4>1. s \in Seq(Txs) /\ popped \in Seq(Txs) /\ saved \in Seq(Txs)
        BY <1>2, <2>3
      <4> HIDE DEF s
      <4>2. (s \o popped) \o saved = s \o (popped \o saved)
        BY <4>1
      <4> QED BY <4>2 DEF s
    <3> QED BY <2>1, <3>1, <3>2
  <2>5. Sound(chain')
    <3>1. Len(Front(chain)) <= Len(chain) /\ 1 .. Len(Front(chain)) = 1 .. Len(chain) - 1
      BY <2>2
    <3> QED BY <1>1, <2>1, <2>2, <3>1, Shorter
  <2>6. new \in 1 .. Len(chain)
    BY <1>2, <2>1
  <2>7. Sound(Trunk(chain', new', old'))
    BY <1>1, <1>2, <2>1, <2>6, TrunkWhenTakenBack
  <2>8. Ready(chain', popped' \o saved')
    BY <1>1, <1>2, <2>1, <2>4, ReadyAfterPop
  <2>9. Accepted(chain', pending')
    BY <2>1, NothingAccepted
  <2>10. new' \in 0 .. MaxHeight /\ new' <= Len(chain')
    BY <1>2, <2>1, <2>2, <2>6
  <2>11. TypeOK'
    BY <1>1, <2>1, <2>2, <2>4, <2>10 DEF TypeOK
  <2>12. Stages'
    BY <2>1, <2>10 DEF Stages
  <2> QED BY <2>5, <2>7, <2>8, <2>9, <2>11, <2>12 DEF PendingInv
<1>14. CASE Reapply
  <2>1. /\ pc \in {"pop_bad", "reapply"} /\ new = 0 /\ old # << >> /\ pending = << >>
        /\ chain' = Append(chain, old[1])
    BY <1>1, <1>14 DEF Reapply, Stages
  <2>2. /\ Trunk(Append(chain, old[1]), 0, Tail(old)) = Trunk(chain, 0, old)
        /\ old[1] \in Blocks /\ Tail(old) \in Seq(Blocks)
        /\ Sound(Append(chain, old[1]))
    BY <1>1, <1>2, <2>1, TrunkWhenReapplied
  <2>3. CASE Len(old) = 1
    BY <1>14, <2>1, <2>2, <2>3, EndPending DEF Reapply
  <2>4. CASE Len(old) # 1
    <3>1. /\ pc' = "reapply" /\ old' = Tail(old)
          /\ UNCHANGED <<pending, block, own, saved, popped, new>>
      BY <1>14, <2>4 DEF Reapply
    <3>2. chain' \in Seq(Blocks) /\ Len(chain') = Len(chain) + 1
      BY <1>2, <2>1, <2>2, AppendedBlock
    <3>3. Sound(Trunk(chain', new', old'))
      BY <1>1, <2>1, <2>2, <3>1
    <3>4. Ready(chain', popped' \o saved')
      BY <1>1, <1>2, <2>1, <2>2, <3>1, ReadyGrows
    <3>5. Accepted(chain', pending')
      BY <2>1, <3>1, NothingAccepted
    <3>6. TypeOK'
      BY <1>1, <2>2, <3>1, <3>2 DEF TypeOK
    <3>7. Stages'
      <4>1. new' <= Len(chain')
        BY <1>2, <2>1, <3>1, <3>2
      <4> QED BY <2>1, <3>1, <4>1 DEF Stages
    <3> QED BY <2>1, <2>2, <3>3, <3>4, <3>5, <3>6, <3>7 DEF PendingInv
  <2> QED BY <2>3, <2>4
<1>15. CASE PushThrows
  BY <1>1, <1>15, EndPending DEF PushThrows
<1>16. CASE UNCHANGED vars
  <2>1. TypeOK' /\ Stages'
    BY <1>1, <1>16 DEF TypeOK, Stages, vars
  <2> QED BY <1>1, <1>16, <2>1 DEF PendingInv, vars
<1> QED BY <1>3, <1>4, <1>5, <1>6, <1>7, <1>8, <1>9, <1>10, <1>11, <1>12, <1>13, <1>14,
           <1>15, <1>16 DEF Next

------------------------------------------------------------------------------
(* The theorems. *)

(* The invariant in itself: between the steps of push_block() the chain,   *)
(* and the branch that a switch leaves, hold every transaction once and    *)
(* after those it relies on, what is pending can be applied in its order,  *)
(* and what the restorer keeps is in an order in which it can be applied.  *)
THEOREM PendingInvariant == Spec => []PendingInv
<1>1. Init => PendingInv
  BY InitPending
<1>2. PendingInv /\ [Next]_vars => PendingInv'
  BY StepPending
<1> QED BY <1>1, <1>2, PTL DEF Spec

(* No transaction is applied twice, by two blocks of the chain or by a     *)
(* block and the pending session, whatever was popped, saved and restored. *)
THEOREM TransactionsAreAppliedOnce == Spec => []AppliedOnce
<1>1. PendingInv => AppliedOnce
  <2> SUFFICES ASSUME PendingInv PROVE AppliedOnce
    OBVIOUS
  <2>1. chain \in Seq(Blocks) /\ OnceOn(chain) /\ Accepted(chain, pending) /\ TypeOK
    BY DEF PendingInv, Sound
  <2> DEFINE s == TxsOf(chain)
             n == Len(s)
             r == s \o pending
  <2>2. s \in Seq(Txs) /\ IsInjective(s) /\ \A t : t \in Range(s) <=> Holds(chain, t)
    BY <2>1, Flattened
  <2>3. pending \in BlockTxs /\ pending \in Seq(Txs)
        /\ \A i \in 1 .. Len(pending) : ~ Holds(chain, pending[i])
    BY <2>1, AcceptedMeans
  <2> HIDE DEF s
  <2>4. r \in Seq(Txs) /\ n \in Nat /\ Len(pending) \in Nat /\ Len(r) = n + Len(pending)
        /\ (\A i \in 1 .. n : r[i] = s[i])
        /\ \A i \in 1 .. Len(pending) : r[n + i] = pending[i]
    BY <2>2, <2>3, Concatenated, LenProperties
  <2>5. \A i, j \in 1 .. n : s[i] = s[j] => i = j
    BY <2>2 DEF IsInjective, Injection
  <2>6. \A i, j \in 1 .. Len(pending) : pending[i] = pending[j] => i = j
    BY <2>3, BlockTxsMeans
  <2>7. \A i \in 1 .. n, j \in 1 .. Len(pending) : s[i] # pending[j]
    BY <2>2, <2>3, InRange
  <2> HIDE DEF n, r
  <2>8. ASSUME NEW i \in 1 .. Len(r), NEW j \in 1 .. Len(r), r[i] = r[j] PROVE i = j
    <3>1. \A k \in 1 .. Len(r) : k \in 1 .. n \/ \E l \in 1 .. Len(pending) : k = n + l
      <4> SUFFICES ASSUME NEW k \in 1 .. Len(r), k \notin 1 .. n
                   PROVE  \E l \in 1 .. Len(pending) : k = n + l
        OBVIOUS
      <4>1. k - n \in 1 .. Len(pending) /\ k = n + (k - n)
        BY <2>4
      <4> QED BY <4>1
    <3>2. CASE i \in 1 .. n /\ j \in 1 .. n
      BY <2>4, <2>5, <2>8, <3>2
    <3>3. CASE i \in 1 .. n /\ j \notin 1 .. n
      <4>1. PICK l \in 1 .. Len(pending) : j = n + l
        BY <3>1, <3>3
      <4>2. r[i] = s[i] /\ r[j] = pending[l]
        BY <2>4, <3>3, <4>1
      <4> QED BY <2>7, <2>8, <3>3, <4>2
    <3>4. CASE i \notin 1 .. n /\ j \in 1 .. n
      <4>1. PICK l \in 1 .. Len(pending) : i = n + l
        BY <3>1, <3>4
      <4>2. r[i] = pending[l] /\ r[j] = s[j]
        BY <2>4, <3>4, <4>1
      <4> QED BY <2>7, <2>8, <3>4, <4>2
    <3>5. CASE i \notin 1 .. n /\ j \notin 1 .. n
      <4>1. PICK l \in 1 .. Len(pending) : i = n + l
        BY <3>1, <3>5
      <4>2. PICK k \in 1 .. Len(pending) : j = n + k
        BY <3>1, <3>5
      <4>3. r[i] = pending[l] /\ r[j] = pending[k]
        BY <2>4, <4>1, <4>2
      <4> QED BY <2>6, <2>8, <4>1, <4>2, <4>3
    <3> QED BY <3>2, <3>3, <3>4, <3>5
  <2>9. IsInjective(r)
    <3>1. DOMAIN r = 1 .. Len(r)
      BY <2>4, LenProperties
    <3> QED BY <2>8, <3>1 DEF IsInjective, Injection
  <2> QED BY <2>1, <2>9 DEF AppliedOnce, r, s
<1> QED BY <1>1, PendingInvariant, PTL


(* A block that _generate_block() made applies to the head it was made     *)
(* for: its transactions are applied before they are put into it, and      *)
(* fit.                                                                    *)
THEOREM OwnBlocksApply == Spec => []OwnBlockApplies
<1>1. Init => OwnBlockApplies
  BY DEF Init, OwnBlockApplies
<1>2. PendingInv /\ OwnBlockApplies /\ [Next]_vars => OwnBlockApplies'
  <2> SUFFICES ASSUME PendingInv, OwnBlockApplies, [Next]_vars, pc' = "extend", own'
               PROVE  BlockApplies(block, chain)'
    BY DEF OwnBlockApplies
  <2>1. ASSUME NEW when \in 1 .. MaxTime, GenerateBlock(when)
        PROVE  BlockApplies(block', chain')
    <3> DEFINE s == Candidates(when)
               b == [txs |-> s, time |-> when]
    <3>1. pending \in Seq(Txs)
      BY BlockTxsMeans DEF PendingInv, TypeOK
    <3>2. Accepted(chain, s) /\ TotalSize(s) <= MaxBlockSize
      BY <3>1, CandidatesFit
    <3>3. Time(chain) < when /\ block' = b /\ chain' = chain
      BY <2>1 DEF GenerateBlock, Begin
    <3> HIDE DEF s
    <3>4. b.txs = s /\ b.time = when
      OBVIOUS
    <3> HIDE DEF b
    <3>5. BlockApplies(b, chain)
      BY <3>2, <3>3, <3>4 DEF BlockApplies, Accepted
    <3> QED BY <3>3, <3>5
  <2>2. ASSUME NEW b \in Blocks, PushBlock(b) PROVE FALSE
    BY <2>2 DEF PushBlock, Begin
  <2>3. CASE PushToSwitch
    BY <2>3 DEF PushToSwitch, Begin
  <2>4. CASE UNCHANGED vars
    BY <2>4 DEF vars, OwnBlockApplies
  <2>5. ASSUME NEW t \in Txs, PushTransaction(t) PROVE FALSE
    BY <2>5 DEF PushTransaction
  <2>6. CASE \/ ExtendChain \/ ExtendFails \/ SwitchDone \/ PushThrows
    BY <2>6 DEF ExtendChain, ExtendFails, SwitchDone, PushThrows, End
  <2>7. CASE PopOld \/ ApplyNewFails \/ PopNew \/ Reapply
    BY <2>7 DEF PopOld, ApplyNewFails, PopNew, Reapply, End
  <2>8. ASSUME NEW b \in Blocks, ApplyNew(b) PROVE FALSE
    BY <2>8 DEF ApplyNew
  <2> QED BY <2>1, <2>2, <2>3, <2>4, <2>5, <2>6, <2>7, <2>8 DEF Next
<1> QED BY <1>1, <1>2, PendingInvariant, PTL DEF Spec

(* The restorer loses nothing: what was pending or in a popped block is on *)
(* the chain or pending when push_block() returns, or cannot be applied    *)
(* any more. The order of the list matters: were a transaction tried       *)
(* before one it relies on, it would be dropped although it applies later. *)
THEOREM NothingIsLost == Spec => NothingLost
<1> DEFINE Kept ==
      pc # "idle" /\ pc' = "idle" =>
        \A t \in Range(popped) \cup Range(saved) :
          \/ t \in Range(TxsOf(chain')) \cup Range(pending')
          \/ ~ Applies(t, chain', pending')
<1>1. PendingInv /\ PendingInv' /\ [Next]_vars => [Kept]_vars
  <2> SUFFICES ASSUME PendingInv, PendingInv', Next, pc # "idle", pc' = "idle"
               PROVE  \A t \in Range(popped) \cup Range(saved) :
                        \/ t \in Range(TxsOf(chain')) \cup Range(pending')
                        \/ ~ Applies(t, chain', pending')
    BY DEF vars
  <2> DEFINE list == popped \o saved
  <2>1. popped \in Seq(Txs) /\ saved \in Seq(Txs) /\ chain \in Seq(Blocks) /\ chain' \in Seq(Blocks)
    BY BlockTxsMeans DEF PendingInv, TypeOK
  <2>2. Ready(chain, list) /\ old \in Seq(Blocks)
    BY DEF PendingInv, TypeOK
  <2>3. list \in Seq(Txs) /\ Range(popped) \cup Range(saved) \subseteq Range(list)
    <3> DEFINE m == Len(popped)
               n == Len(saved)
    <3>1. /\ list \in Seq(Txs) /\ m \in Nat /\ n \in Nat /\ Len(list) = m + n
          /\ \A i \in 1 .. m : list[i] = popped[i]
          /\ \A i \in 1 .. n : list[m + i] = saved[i]
      BY <2>1, Concatenated
    <3> HIDE DEF list
    <3>2. /\ \A t : t \in Range(popped) <=> \E i \in 1 .. m : popped[i] = t
          /\ \A t : t \in Range(saved) <=> \E i \in 1 .. n : saved[i] = t
          /\ \A t : t \in Range(list) <=> \E i \in 1 .. Len(list) : list[i] = t
      BY <2>1, <3>1, InRange
    <3> HIDE DEF m, n
    <3>3. \A i \in 1 .. m : i \in 1 .. Len(list)
      BY <3>1
    <3>4. \A i \in 1 .. n : m + i \in 1 .. Len(list)
      BY <3>1
    <3> QED BY <3>1, <3>2, <3>3, <3>4
  <2> HIDE DEF list
  <2>4. End /\ Ready(chain', list)
    <3>1. CASE ExtendChain
      <4>1. block \in Blocks /\ chain' = Append(chain, block) /\ End
        BY <3>1 DEF ExtendChain, PendingInv, Stages
      <4> QED BY <2>1, <2>2, <4>1, ReadyGrows
    <3>2. CASE ExtendFails \/ SwitchDone \/ PushThrows
      BY <2>2, <3>2 DEF ExtendFails, SwitchDone, PushThrows
    <3>3. CASE Reapply
      <4>1. /\ chain' = Append(chain, old[1]) /\ End /\ old # << >> /\ new = 0
            /\ Sound(Trunk(chain, new, old))
        BY <3>3 DEF Reapply, PendingInv
      <4>2. old[1] \in Blocks
        BY <2>1, <2>2, <4>1, TrunkWhenReapplied
      <4> QED BY <2>1, <2>2, <4>1, <4>2, ReadyGrows
    <3>4. ASSUME NEW t \in Txs, PushTransaction(t) PROVE FALSE
      BY <3>4 DEF PushTransaction
    <3>5. ASSUME NEW b \in Blocks, PushBlock(b) PROVE FALSE
      BY <3>5 DEF PushBlock, Begin
    <3>6. ASSUME NEW when \in 1 .. MaxTime, GenerateBlock(when) PROVE FALSE
      BY <3>6 DEF GenerateBlock, Begin
    <3>7. ASSUME NEW b \in Blocks, ApplyNew(b) PROVE FALSE
      BY <3>7 DEF ApplyNew
    <3>8. CASE PushToSwitch \/ PopOld \/ ApplyNewFails \/ PopNew
      BY <3>8 DEF PushToSwitch, Begin, PopOld, ApplyNewFails, PopNew
    <3> QED BY <3>1, <3>2, <3>3, <3>4, <3>5, <3>6, <3>7, <3>8 DEF Next
  <2>5. pending' = Restored(chain', list)
    BY <2>4 DEF End, list
  <2>6. ASSUME NEW t \in Range(list)
        PROVE  \/ Holds(chain', t) \/ t \in Range(pending')
               \/ ~ Applies(t, chain', pending')
    BY <2>1, <2>3, <2>4, <2>5, RestoredAll
  <2>7. \A t : Holds(chain', t) => t \in Range(TxsOf(chain'))
    BY <2>1, Flattened
  <2> QED BY <2>3, <2>6, <2>7
<1> QED BY <1>1, PendingInvariant, PTL DEF Spec, NothingLost

==============================================================================
