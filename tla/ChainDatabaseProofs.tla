------------------------- MODULE ChainDatabaseProofs -------------------------
(***************************************************************************)
(* Proofs about ChainDatabase, for any tree of blocks, witnesses and       *)
(* limits: what is irreversible stays, and the chain, the log and the fork *)
(* database agree through forks, failing blocks, crashes and restarts.     *)
(***************************************************************************)
EXTENDS P2pSync, FiniteSetTheorems, SequenceTheorems, TLAPS

------------------------------------------------------------------------------
(* Numbers. *)

(* Every set of natural numbers that is not empty has a least one: what    *)
(* the proofs use in place of induction, for a set of counterexamples.     *)
LEMMA LeastNumber ==
  ASSUME NEW T \in SUBSET Nat, T # {}
  PROVE  \E x \in T : \A y \in T : x <= y
<1> DEFINE R == OpToRel(<, Nat)
<1>1. IsWellFoundedOn(R, Nat)
  BY NatLessThanWellFounded
<1>2. \A x, y \in Nat : x < y => <<x, y>> \in R
  BY DEF OpToRel
<1> HIDE DEF R
<1>3. PICK x \in T : \A y \in T : ~ (<<y, x>> \in R)
  BY <1>1, WFMin
<1>4. \A y \in T : ~ (y < x)
  BY <1>2, <1>3, Zenon
<1> QED
  BY <1>4

(* The largest of some numbers that are bounded.                           *)
LEMMA LargestWithin ==
  ASSUME NEW n \in Nat, NEW s \in SUBSET (0 .. n), s # {}
  PROVE  Max(s) \in s /\ \A y \in s : y <= Max(s)
<1> DEFINE T == {n - y : y \in s}
<1>1. T \in SUBSET Nat /\ T # {}
  <2>1. \A y \in s : y \in Nat /\ y <= n
    OBVIOUS
  <2>2. \A y \in s : n - y \in Nat
    BY <2>1
  <2> QED BY <2>2
<1>2. PICK t \in T : \A u \in T : t <= u
  BY <1>1, LeastNumber
<1>3. PICK x \in s : t = n - x
  OBVIOUS
<1>4. \A y \in s : x >= y
  <2>1. TAKE y \in s
  <2>2. n - x <= n - y
    BY <1>2, <1>3
  <2>3. x \in Int /\ y \in Int
    OBVIOUS
  <2> QED BY <2>2, <2>3
<1>5. Max(s) \in s /\ \A y \in s : Max(s) >= y
  BY <1>4 DEF Max
<1>6. \A y \in s : y \in Int
  OBVIOUS
<1>7. Max(s) \in Int
  BY <1>5, <1>6
<1> QED BY <1>5, <1>6, <1>7

(* The larger of two numbers.                                              *)
LEMMA MaxOfTwo ==
  ASSUME NEW a \in Int, NEW b \in Int
  PROVE  Max({a, b}) = IF a >= b THEN a ELSE b
<1>1. PICK x \in {a, b} : \A y \in {a, b} : x >= y
  <2>1. a >= b \/ b >= a
    OBVIOUS
  <2> QED BY <2>1
<1>2. Max({a, b}) \in {a, b} /\ \A y \in {a, b} : Max({a, b}) >= y
  BY <1>1 DEF Max
<1>3. Max({a, b}) >= a /\ Max({a, b}) >= b /\ (Max({a, b}) = a \/ Max({a, b}) = b)
  BY <1>2
<1> QED BY <1>3

(* The smaller of two numbers.                                             *)
LEMMA MinOfTwo ==
  ASSUME NEW a \in Int, NEW b \in Int
  PROVE  Min({a, b}) = IF a <= b THEN a ELSE b
<1>1. PICK x \in {a, b} : \A y \in {a, b} : x =< y
  <2>1. a <= b \/ b <= a
    OBVIOUS
  <2> QED BY <2>1
<1>2. Min({a, b}) \in {a, b} /\ \A y \in {a, b} : Min({a, b}) =< y
  BY <1>1 DEF Min
<1>3. Min({a, b}) <= a /\ Min({a, b}) <= b /\ (Min({a, b}) = a \/ Min({a, b}) = b)
  BY <1>2
<1> QED BY <1>3

(* The smallest of some natural numbers.                                   *)
LEMMA LeastOfSome ==
  ASSUME NEW s \in SUBSET Nat, s # {}
  PROVE  Min(s) \in s /\ \A y \in s : Min(s) <= y
<1>1. PICK x \in s : \A y \in s : x <= y
  BY LeastNumber
<1>2. Min(s) \in s /\ \A y \in s : Min(s) =< y
  BY <1>1 DEF Min
<1> QED BY <1>2

------------------------------------------------------------------------------
(* The last irreversible block. *)

LEMMA Constants ==
  /\ NONE \notin Blocks
  /\ \A b \in Blocks :
       /\ Prev[b] \in Blocks \cup {NONE}
       /\ Num[b] \in Nat /\ Num[b] >= 1
       /\ Prev[b] = NONE => Num[b] = 1
       /\ Prev[b] # NONE => Prev[b] \in Blocks /\ Num[b] = Num[Prev[b]] + 1 /\ Num[b] >= 2
       /\ Producer[b] \in Witnesses
  /\ MaxWitnesses \in Nat /\ MaxWitnesses >= 1
  /\ StartVotingBlock \in Nat /\ StartVotingBlock >= 1
  /\ MaxUndoHistory \in Nat /\ MaxUndoHistory >= 1
  /\ DefaultMaxSize \in Nat /\ DefaultMaxSize >= 1
  /\ IsFiniteSet(Witnesses) /\ Cardinality(Witnesses) \in Nat /\ Cardinality(Witnesses) >= 1
<1>1. /\ NONE \notin Blocks
      /\ \A b \in Blocks : Prev[b] \in Blocks \cup {NONE}
      /\ \A b \in Blocks : Num[b] \in Nat /\ Num[b] >= 1
      /\ \A b \in Blocks : Num[b] = IF Prev[b] = NONE THEN 1 ELSE Num[Prev[b]] + 1
      /\ DefaultMaxSize \in Nat /\ DefaultMaxSize >= 1
  BY TreeAssumption DEF TreeAssumption
<1>2. ASSUME NEW b \in Blocks, Prev[b] # NONE
      PROVE  Prev[b] \in Blocks /\ Num[b] = Num[Prev[b]] + 1 /\ Num[b] >= 2
  <2>1. Prev[b] \in Blocks
    BY <1>1, <1>2
  <2>2. Num[b] = Num[Prev[b]] + 1 /\ Num[Prev[b]] >= 1 /\ Num[Prev[b]] \in Nat
    BY <1>1, <1>2, <2>1
  <2> QED BY <2>1, <2>2
<1>3. /\ IsFiniteSet(Witnesses) /\ Witnesses # {}
      /\ \A b \in Blocks : Producer[b] \in Witnesses
      /\ MaxWitnesses \in Nat /\ MaxWitnesses >= 1
      /\ StartVotingBlock \in Nat /\ StartVotingBlock >= 1
      /\ MaxUndoHistory \in Nat /\ MaxUndoHistory >= 1
  BY ChainAssumption DEF ChainAssumption
<1>4. Cardinality(Witnesses) \in Nat /\ Cardinality(Witnesses) # 0
  BY <1>3, FS_CardinalityType, FS_EmptySet
<1>5. Cardinality(Witnesses) >= 1
  BY <1>4
<1> QED BY <1>1, <1>2, <1>3, <1>4, <1>5

(* What a witness has confirmed is one of the blocks or none, and the last *)
(* block if it produced that.                                              *)
LEMMA ConfirmedWithin ==
  ASSUME NEW c \in Seq(Blocks), NEW w \in Witnesses
  PROVE  /\ LastConfirmed(c, w) \in 0 .. Len(c)
         /\ \A i \in 1 .. Len(c) : Producer[c[i]] = w => i <= LastConfirmed(c, w)
         /\ Len(c) >= 1 /\ Producer[c[Len(c)]] # w => LastConfirmed(c, w) < Len(c)
<1> DEFINE s == {0} \cup {i \in 1 .. Len(c) : Producer[c[i]] = w}
<1>1. Len(c) \in Nat
  OBVIOUS
<1>2. s \in SUBSET (0 .. Len(c)) /\ s # {}
  BY <1>1
<1>3. Max(s) \in s /\ \A y \in s : y <= Max(s)
  BY <1>1, <1>2, LargestWithin
<1>4. LastConfirmed(c, w) = Max(s)
  BY DEF LastConfirmed
<1>5. Len(c) >= 1 /\ Producer[c[Len(c)]] # w => Max(s) # Len(c)
  BY <1>1, <1>3
<1>6. \A i \in 1 .. Len(c) : Producer[c[i]] = w => i \in s
  OBVIOUS
<1> HIDE DEF s
<1>7. Max(s) \in 0 .. Len(c)
  BY <1>2, <1>3
<1>8. \A i \in 1 .. Len(c) : Producer[c[i]] = w => i <= Max(s)
  BY <1>3, <1>6
<1>9. Len(c) >= 1 /\ Producer[c[Len(c)]] # w => Max(s) < Len(c)
  BY <1>1, <1>5, <1>7
<1> QED BY <1>4, <1>7, <1>8, <1>9

(* The nth element exists: it is the least number that enough witnesses    *)
(* are not above.  With two witnesses or more it is not the last block,    *)
(* which only its producer has confirmed.                                  *)
LEMMA MostWithin ==
  ASSUME NEW c \in Seq(Blocks)
  PROVE  /\ ConfirmedByMost(c) \in 0 .. Len(c)
         /\ Cardinality(Witnesses) >= 2 /\ Len(c) >= 1 => ConfirmedByMost(c) < Len(c)
<1> DEFINE N == Cardinality(Witnesses)
           offset == (2500 * N) \div 10000
           last == [w \in Witnesses |-> LastConfirmed(c, w)]
           UpTo(n) == {w \in Witnesses : last[w] <= n}
           Before(n) == {w \in Witnesses : last[w] < n}
           Nth(n) == Cardinality(Before(n)) <= offset /\ Cardinality(UpTo(n)) > offset
           T == {n \in 0 .. Len(c) : Cardinality(UpTo(n)) > offset}
<1>1. Len(c) \in Nat /\ N \in Nat /\ N >= 1 /\ IsFiniteSet(Witnesses)
  BY Constants
<1>2. \A w \in Witnesses : last[w] \in 0 .. Len(c)
  BY ConfirmedWithin
<1>3. offset \in Nat /\ 10000 * offset <= 2500 * N
  BY <1>1
<1>4. offset < N
  BY <1>1, <1>3
<1> HIDE DEF offset, last
<1>5. \A n \in Int : Cardinality(UpTo(n)) \in Nat /\ Cardinality(Before(n)) \in Nat
  BY <1>1, FS_Subset, FS_CardinalityType
<1>6. UpTo(Len(c)) = Witnesses /\ Before(0) = {}
  BY <1>1, <1>2
<1>7. Len(c) \in T
  <2>1. Cardinality(UpTo(Len(c))) = N
    BY <1>6
  <2> HIDE DEF UpTo, N
  <2>2. Cardinality(UpTo(Len(c))) > offset
    BY <1>1, <1>3, <1>4, <2>1
  <2> QED BY <1>1, <2>2
<1>8. PICK n \in T : \A m \in T : n <= m
  <2>1. T \in SUBSET Nat
    BY <1>1
  <2> HIDE DEF T
  <2>2. T # {}
    BY <1>7
  <2> QED BY <2>1, <2>2, LeastNumber
<1>9. n \in 0 .. Len(c) /\ Cardinality(UpTo(n)) > offset
  BY <1>8
<1>10. Cardinality(Before(n)) <= offset
  <2>1. CASE n = 0
    <3>1. Cardinality(Before(0)) = 0
      BY <1>6, FS_EmptySet
    <3> QED BY <1>3, <2>1, <3>1
  <2>2. CASE n # 0
    <3>1. n - 1 \in 0 .. Len(c) /\ ~ (n <= n - 1)
      BY <1>1, <1>9, <2>2
    <3>2. n - 1 \notin T
      BY <1>8, <3>1
    <3>3. ~ (Cardinality(UpTo(n - 1)) > offset)
      BY <3>1, <3>2
    <3>4. Before(n) = UpTo(n - 1)
      BY <1>1, <1>2, <1>9
    <3>5. Cardinality(UpTo(n - 1)) \in Nat
      <4>1. n - 1 \in Int
        BY <3>1
      <4> HIDE DEF UpTo
      <4> QED BY <1>5, <4>1
    <3> HIDE DEF UpTo, Before
    <3> QED BY <1>3, <3>3, <3>4, <3>5
  <2> QED BY <2>1, <2>2
<1>11. Nth(n)
  BY <1>9, <1>10
<1> HIDE DEF T
<1>12. ConfirmedByMost(c) \in 0 .. Len(c) /\ Nth(ConfirmedByMost(c))
  <2>1. ConfirmedByMost(c) = CHOOSE i \in 0 .. Len(c) : Nth(i)
    BY DEF ConfirmedByMost, offset, last
  <2> HIDE DEF Nth
  <2> QED BY <1>9, <1>11, <2>1
<1>13. ASSUME N >= 2, Len(c) >= 1, ConfirmedByMost(c) = Len(c) PROVE FALSE
  <2> DEFINE p == Producer[c[Len(c)]]
  <2>1. Len(c) \in 1 .. Len(c) /\ c[Len(c)] \in Blocks
    BY <1>13, ElementOfSeq
  <2>2. p \in Witnesses
    BY <2>1, Constants
  <2>3. \A w \in Witnesses : w # p => last[w] < Len(c)
    BY <1>13, ConfirmedWithin DEF last
  <2>4. ~ (last[p] < Len(c))
    <3>1. Len(c) <= last[p] /\ last[p] \in 0 .. Len(c)
      BY <1>2, <2>1, <2>2, ConfirmedWithin DEF last
    <3> QED BY <1>1, <3>1
  <2>5. Before(Len(c)) = Witnesses \ {p}
    BY <2>3, <2>4
  <2>6. Cardinality(Witnesses \ {p}) = N - 1
    BY <1>1, <2>2, FS_RemoveElement
  <2>7. N - 1 <= offset
    BY <1>12, <1>13, <2>5, <2>6
  <2> QED BY <1>1, <1>3, <1>13, <2>7
<1> QED BY <1>1, <1>12, <1>13

(* The irreversible block is one of the chain, and with two witnesses or   *)
(* more never its last one.                                                *)
LEMMA LibWithin ==
  ASSUME NEW c \in Seq(Blocks)
  PROVE  /\ Lib(c) \in 0 .. Len(c)
         /\ Cardinality(Witnesses) >= 2 /\ Len(c) >= 1 => Lib(c) < Len(c)
<1> DEFINE m == ConfirmedByMost(c)
<1>1. /\ Len(c) \in Nat /\ MaxWitnesses \in Nat /\ MaxWitnesses >= 1
      /\ StartVotingBlock \in Nat /\ StartVotingBlock >= 1
  BY Constants
<1>2. m \in 0 .. Len(c) /\ (Cardinality(Witnesses) >= 2 /\ Len(c) >= 1 => m < Len(c))
  BY MostWithin
<1> HIDE DEF m
<1>3. CASE Len(c) < StartVotingBlock
  <2> DEFINE k == Len(c) - MaxWitnesses
  <2>1. k \in Int /\ k < Len(c)
    BY <1>1
  <2>2. Lib(c) = Max({0, k})
    BY <1>3 DEF Lib
  <2> HIDE DEF k
  <2>3. Lib(c) = IF 0 >= k THEN 0 ELSE k
    BY <2>1, <2>2, MaxOfTwo
  <2> QED BY <1>1, <2>1, <2>3
<1>4. CASE ~ (Len(c) < StartVotingBlock)
  <2> DEFINE k == StartVotingBlock - 1 - MaxWitnesses
             l == Max({0, k})
  <2>1. k \in Int /\ k < Len(c)
    BY <1>1, <1>4
  <2>2. Lib(c) = Max({m, l})
    BY <1>4 DEF Lib, m
  <2> HIDE DEF k
  <2>3. l = IF 0 >= k THEN 0 ELSE k
    BY <2>1, MaxOfTwo
  <2>4. l \in Nat /\ l <= Len(c) /\ (Len(c) >= 1 => l < Len(c))
    BY <1>1, <2>1, <2>3
  <2> HIDE DEF l
  <2>5. m \in Int /\ l \in Int
    BY <1>2, <2>4
  <2>6. Lib(c) = IF m >= l THEN m ELSE l
    BY <2>2, <2>5, MaxOfTwo
  <2> QED BY <1>1, <1>2, <2>4, <2>6
<1> QED BY <1>3, <1>4

------------------------------------------------------------------------------
(* Walking down the prev pointers. *)

(* A fork database as the methods leave it: only a block with a parent is  *)
(* ever linked.                                                            *)
ForkTyped(f) ==
  /\ f \in ForkDatabases
  /\ IsFiniteSet(f.index)
  /\ \A b \in f.linked : Prev[b] # NONE
  /\ f.anchored => f.head # NONE /\ Prev[f.head] # NONE

(* The walk of Ancestor() exists: its result is the block of that number   *)
(* among the blocks that can be reached.                                   *)
LEMMA WalkExists ==
  ASSUME NEW L \in SUBSET Blocks, \A b \in L : Prev[b] # NONE, NEW n
  PROVE  \E g \in [Blocks -> Blocks \cup {NONE}] :
           g = [c \in Blocks |->
                  IF Num[c] = n THEN c
                  ELSE IF Num[c] > n /\ c \in L THEN g[Prev[c]] ELSE NONE]
<1> DEFINE Goes(c) == Num[c] # n /\ Num[c] > n /\ c \in L
           Closed(S) == \A y \in S : Goes(y) => Prev[y] \in S
           Up(c) == {x \in Blocks : \A S \in SUBSET Blocks : c \in S /\ Closed(S) => x \in S}
           At(c) == {x \in Up(c) : Num[x] = n}
           g == [c \in Blocks |-> IF At(c) = {} THEN NONE ELSE CHOOSE x \in At(c) : TRUE]
<1>1. \A c \in Blocks : Goes(c) => Prev[c] \in Blocks
  BY Constants
<1> HIDE DEF Goes
<1>2. ASSUME NEW c \in Blocks PROVE c \in Up(c) /\ Closed(Up(c)) /\ Up(c) \in SUBSET Blocks
  BY <1>1
<1>3. ASSUME NEW c \in Blocks, ~ Goes(c) PROVE Up(c) = {c}
  <2>1. {c} \in SUBSET Blocks /\ Closed({c})
    BY <1>3
  <2> HIDE DEF Closed
  <2>2. \A x \in Up(c) : x \in {c}
    BY <2>1
  <2> HIDE DEF Up
  <2> QED BY <1>2, <2>2
<1>4. ASSUME NEW c \in Blocks, Goes(c) PROVE Up(c) = {c} \cup Up(Prev[c])
  <2>1. Prev[c] \in Blocks
    BY <1>1, <1>4
  <2>2. Prev[c] \in Up(Prev[c]) /\ Closed(Up(Prev[c])) /\ Up(Prev[c]) \in SUBSET Blocks
    BY <1>2, <2>1
  <2>3. Prev[c] \in Up(c)
    BY <1>2, <1>4
  <2>4. ASSUME NEW x \in Up(Prev[c]) PROVE x \in Up(c)
    BY <1>2, <2>3, <2>4
  <2> DEFINE S == {c} \cup Up(Prev[c])
  <2>5. S \in SUBSET Blocks /\ c \in S
    BY <2>2
  <2>6. Closed(S)
    <3> HIDE DEF Up
    <3> QED BY <2>2
  <2>7. \A x \in Up(c) : x \in S
    <3> HIDE DEF Closed, S
    <3> QED BY <2>5, <2>6
  <2> HIDE DEF Up
  <2> QED BY <1>2, <2>4, <2>7
<1> HIDE DEF Up
<1>5. \A c \in Blocks : At(c) \in SUBSET Blocks
  BY <1>2
<1>6. ASSUME NEW c \in Blocks, Goes(c) PROVE At(c) = At(Prev[c])
  BY <1>4, <1>6 DEF Goes
<1>7. ASSUME NEW c \in Blocks, ~ Goes(c), Num[c] = n PROVE At(c) = {c}
  BY <1>3, <1>7
<1>8. ASSUME NEW c \in Blocks, ~ Goes(c), Num[c] # n PROVE At(c) = {}
  BY <1>3, <1>8
<1> HIDE DEF At
<1>9. g \in [Blocks -> Blocks \cup {NONE}]
  BY <1>5
<1>10. \A c \in Blocks : g[c] = IF At(c) = {} THEN NONE ELSE CHOOSE x \in At(c) : TRUE
  OBVIOUS
<1>11. ASSUME NEW c \in Blocks
       PROVE  g[c] = IF Num[c] = n THEN c
                     ELSE IF Num[c] > n /\ c \in L THEN g[Prev[c]] ELSE NONE
  <2>1. CASE Goes(c)
    <3>1. g[c] = g[Prev[c]]
      BY <1>1, <1>6, <1>10, <2>1
    <3> QED BY <2>1, <3>1 DEF Goes
  <2>2. CASE ~ Goes(c) /\ Num[c] = n
    BY <1>7, <1>10, <2>2
  <2>3. CASE ~ Goes(c) /\ Num[c] # n
    <3>1. g[c] = NONE
      BY <1>8, <1>10, <2>3
    <3> QED BY <2>3, <3>1 DEF Goes
  <2> QED BY <2>1, <2>2, <2>3
<1> HIDE DEF g
<1>12. g = [c \in Blocks |-> IF Num[c] = n THEN c
                             ELSE IF Num[c] > n /\ c \in L THEN g[Prev[c]] ELSE NONE]
  BY <1>9, <1>11
<1> QED BY <1>9, <1>12

(* Ancestor() as the recursion it stands for.                              *)
LEMMA AncestorIs ==
  ASSUME NEW f, ForkTyped(f), NEW b \in Blocks, NEW n
  PROVE  /\ Ancestor(f, b, n) \in Blocks \cup {NONE}
         /\ Ancestor(f, b, n) =
              IF Num[b] = n THEN b
              ELSE IF Num[b] > n /\ b \in f.linked THEN Ancestor(f, Prev[b], n) ELSE NONE
<1> DEFINE Walks(g) == g = [c \in Blocks |->
                  IF Num[c] = n THEN c
                  ELSE IF Num[c] > n /\ c \in f.linked THEN g[Prev[c]] ELSE NONE]
           walk == CHOOSE g : Walks(g)
<1>1. f.linked \in SUBSET Blocks /\ \A c \in f.linked : Prev[c] # NONE
  BY DEF ForkTyped, ForkDatabases
<1>2. PICK h \in [Blocks -> Blocks \cup {NONE}] : Walks(h)
  BY <1>1, WalkExists
<1>3. \A c : Ancestor(f, c, n) = walk[c]
  BY DEF Ancestor
<1> HIDE DEF Walks
<1>4. Walks(walk)
  BY <1>2
<1> HIDE DEF walk
<1>5. \A c \in Blocks : walk[c] = IF Num[c] = n THEN c
                  ELSE IF Num[c] > n /\ c \in f.linked THEN walk[Prev[c]] ELSE NONE
  BY <1>4 DEF Walks
<1> DEFINE T == {Num[c] : c \in {d \in Blocks : walk[d] \notin Blocks \cup {NONE}}}
<1>6. ASSUME NEW c \in Blocks, walk[c] \notin Blocks \cup {NONE}
      PROVE  Prev[c] \in Blocks /\ walk[Prev[c]] \notin Blocks \cup {NONE} /\ Num[c] = Num[Prev[c]] + 1
  <2>1. c \in f.linked /\ walk[c] = walk[Prev[c]]
    BY <1>5, <1>6
  <2> QED BY <1>1, <1>6, <2>1, Constants
<1>7. T \in SUBSET Nat
  BY Constants
<1>8. T = {}
  <2> SUFFICES ASSUME T # {} PROVE FALSE
    OBVIOUS
  <2>1. PICK x \in T : \A y \in T : x <= y
    BY <1>7, LeastNumber
  <2>2. PICK c \in Blocks : walk[c] \notin Blocks \cup {NONE} /\ x = Num[c]
    OBVIOUS
  <2>3. Prev[c] \in Blocks /\ Num[Prev[c]] \in T /\ x = Num[Prev[c]] + 1
    BY <1>6, <2>2
  <2>4. x <= Num[Prev[c]] /\ Num[Prev[c]] \in Nat
    BY <1>7, <2>1, <2>3
  <2> QED BY <2>3, <2>4
<1>9. walk[b] \in Blocks \cup {NONE}
  BY <1>8
<1> QED BY <1>3, <1>5, <1>9

(* The walk from a block of a branch stays on it.                          *)
BranchOf(c) == \A i \in 1 .. Len(c) : Prev[c[i]] = IF i = 1 THEN NONE ELSE c[i - 1]

(* The blocks of a branch are numbered from 1.                             *)
LEMMA BranchNums ==
  ASSUME NEW c \in Seq(Blocks), BranchOf(c)
  PROVE  \A i \in 1 .. Len(c) : c[i] \in Blocks /\ Num[c[i]] = i
<1> DEFINE T == {i \in 1 .. Len(c) : Num[c[i]] # i}
<1>1. \A i \in 1 .. Len(c) : c[i] \in Blocks
  BY ElementOfSeq
<1>2. T = {}
  <2> SUFFICES ASSUME T # {} PROVE FALSE
    OBVIOUS
  <2>1. T \in SUBSET Nat
    OBVIOUS
  <2>2. PICK i \in T : \A y \in T : i <= y
    BY <2>1, LeastNumber
  <2>3. i \in 1 .. Len(c) /\ Num[c[i]] # i /\ c[i] \in Blocks
    BY <1>1, <2>2
  <2>4. CASE i = 1
    BY <2>3, <2>4, Constants DEF BranchOf
  <2>5. CASE i # 1
    <3>1. i - 1 \in 1 .. Len(c) /\ ~ (i <= i - 1)
      BY <2>3, <2>5
    <3>2. Num[c[i - 1]] = i - 1 /\ c[i - 1] \in Blocks
      BY <1>1, <2>2, <3>1
    <3>3. Prev[c[i]] = c[i - 1]
      BY <2>3, <2>5 DEF BranchOf
    <3>4. Num[c[i]] = Num[c[i - 1]] + 1
      BY <2>3, <3>2, <3>3, Constants
    <3> QED BY <2>3, <3>1, <3>2, <3>4
  <2> QED BY <2>4, <2>5
<1> QED BY <1>1, <1>2

(* From a block of a branch the walk arrives at the branch's block of that *)
(* number, or nowhere; and it arrives if every block on the way is linked. *)
LEMMA AncestorOnBranch ==
  ASSUME NEW f, ForkTyped(f), NEW c \in Seq(Blocks), BranchOf(c),
         NEW i \in 1 .. Len(c), NEW n \in Nat
  PROVE  /\ n > i => Ancestor(f, c[i], n) = NONE
         /\ n \in 1 .. i => Ancestor(f, c[i], n) \in {NONE, c[n]}
         /\ n \in 1 .. i /\ (\A j \in n + 1 .. i : c[j] \in f.linked) => Ancestor(f, c[i], n) = c[n]
<1>1. \A j \in 1 .. Len(c) : c[j] \in Blocks /\ Num[c[j]] = j
  BY BranchNums
<1>2. ASSUME n > i PROVE Ancestor(f, c[i], n) = NONE
  <2>1. Num[c[i]] # n /\ ~ (Num[c[i]] > n) /\ c[i] \in Blocks
    BY <1>1, <1>2
  <2> QED BY <2>1, AncestorIs
<1>3. ASSUME NEW j \in 2 .. Len(c), n < j
      PROVE  Ancestor(f, c[j], n) = IF c[j] \in f.linked THEN Ancestor(f, c[j - 1], n) ELSE NONE
  <2>1. c[j] \in Blocks /\ Num[c[j]] # n /\ Num[c[j]] > n /\ Prev[c[j]] = c[j - 1]
    BY <1>1, <1>3 DEF BranchOf
  <2> QED BY <2>1, AncestorIs
<1>4. ASSUME n \in 1 .. Len(c) PROVE Ancestor(f, c[n], n) = c[n]
  BY <1>1, <1>4, AncestorIs
<1>5. ASSUME n \in 1 .. i PROVE Ancestor(f, c[i], n) \in {NONE, c[n]}
  <2> DEFINE T == {j \in n .. i : Ancestor(f, c[j], n) \notin {NONE, c[n]}}
  <2>1. T = {}
    <3> SUFFICES ASSUME T # {} PROVE FALSE
      OBVIOUS
    <3>1. T \in SUBSET Nat
      OBVIOUS
    <3>2. PICK j \in T : \A y \in T : j <= y
      BY <3>1, LeastNumber
    <3>3. j \in n .. i /\ Ancestor(f, c[j], n) \notin {NONE, c[n]}
      BY <3>2
    <3>4. j # n
      BY <1>4, <1>5, <3>3
    <3>5. j \in 2 .. Len(c) /\ n < j /\ j - 1 \in n .. i /\ ~ (j <= j - 1)
      BY <1>5, <3>3, <3>4
    <3>6. j - 1 \notin T
      BY <3>2, <3>5
    <3>7. Ancestor(f, c[j - 1], n) \in {NONE, c[n]}
      BY <3>5, <3>6
    <3> QED BY <1>3, <3>3, <3>5, <3>7
  <2> QED BY <1>5, <2>1
<1>6. ASSUME n \in 1 .. i, \A j \in n + 1 .. i : c[j] \in f.linked
      PROVE  Ancestor(f, c[i], n) = c[n]
  <2> DEFINE T == {j \in n .. i : Ancestor(f, c[j], n) # c[n]}
  <2>1. T = {}
    <3> SUFFICES ASSUME T # {} PROVE FALSE
      OBVIOUS
    <3>1. T \in SUBSET Nat
      OBVIOUS
    <3>2. PICK j \in T : \A y \in T : j <= y
      BY <3>1, LeastNumber
    <3>3. j \in n .. i /\ Ancestor(f, c[j], n) # c[n]
      BY <3>2
    <3>4. j # n
      BY <1>4, <1>6, <3>3
    <3>5. j \in 2 .. Len(c) /\ n < j /\ j - 1 \in n .. i /\ ~ (j <= j - 1) /\ j \in n + 1 .. i
      BY <1>6, <3>3, <3>4
    <3>6. j - 1 \notin T
      BY <3>2, <3>5
    <3>7. Ancestor(f, c[j - 1], n) = c[n]
      BY <3>5, <3>6
    <3> QED BY <1>3, <1>6, <3>3, <3>5, <3>7
  <2> QED BY <1>6, <2>1
<1> QED BY <1>2, <1>5, <1>6

(* Where the walk arrives at some number it passes every number above it,  *)
(* each block being the parent of the next.                                *)
LEMMA AncestorsBetween ==
  ASSUME NEW f, ForkTyped(f), NEW b \in Blocks, NEW m \in Nat, Ancestor(f, b, m) # NONE
  PROVE  /\ m <= Num[b]
         /\ \A n \in m .. Num[b] : Ancestor(f, b, n) \in Blocks /\ Num[Ancestor(f, b, n)] = n
         /\ \A n \in m .. Num[b] : n < Num[b] => Prev[Ancestor(f, b, n + 1)] = Ancestor(f, b, n)
<1> DEFINE Good(d) == Ancestor(f, d, m) # NONE =>
             /\ m <= Num[d]
             /\ \A n \in m .. Num[d] : Ancestor(f, d, n) \in Blocks /\ Num[Ancestor(f, d, n)] = n
             /\ \A n \in m .. Num[d] : n < Num[d] => Prev[Ancestor(f, d, n + 1)] = Ancestor(f, d, n)
           T == {Num[d] : d \in {e \in Blocks : ~ Good(e)}}
<1>1. ASSUME NEW d \in Blocks, Ancestor(f, d, m) # NONE,
             Prev[d] \in Blocks => Good(Prev[d])
      PROVE  Good(d)
  <2>0. Num[d] \in Nat /\ Ancestor(f, d, Num[d]) = d
    BY Constants, AncestorIs
  <2>1. CASE Num[d] = m
    <3>1. \A n \in m .. Num[d] : n = Num[d]
      BY <2>0, <2>1
    <3> QED BY <2>0, <2>1, <3>1
  <2>2. CASE Num[d] # m
    <3>1. Num[d] > m /\ d \in f.linked /\ Ancestor(f, d, m) = Ancestor(f, Prev[d], m)
      BY <1>1, <2>2, AncestorIs
    <3>2. Prev[d] \in Blocks /\ Num[d] = Num[Prev[d]] + 1 /\ Num[Prev[d]] \in Nat
      BY <3>1, Constants DEF ForkTyped
    <3>3. Good(Prev[d]) /\ Ancestor(f, Prev[d], m) # NONE
      BY <1>1, <3>1, <3>2
    <3>4. \A n \in m .. Num[Prev[d]] : Ancestor(f, d, n) = Ancestor(f, Prev[d], n)
      <4> TAKE n \in m .. Num[Prev[d]]
      <4>1. Num[d] # n /\ Num[d] > n
        BY <3>2
      <4> QED BY <3>1, <4>1, AncestorIs
    <3>5. Ancestor(f, Prev[d], Num[Prev[d]]) = Prev[d]
      BY <3>2, AncestorIs
    <3>6. ASSUME NEW n \in m .. Num[d]
          PROVE Ancestor(f, d, n) \in Blocks /\ Num[Ancestor(f, d, n)] = n
      <4>1. n = Num[d] \/ n \in m .. Num[Prev[d]]
        BY <3>2
      <4>2. CASE n = Num[d]
        BY <2>0, <4>2
      <4>3. CASE n \in m .. Num[Prev[d]]
        BY <3>3, <3>4, <4>3
      <4> QED BY <4>1, <4>2, <4>3
    <3>7. ASSUME NEW n \in m .. Num[d], n < Num[d]
          PROVE Prev[Ancestor(f, d, n + 1)] = Ancestor(f, d, n)
      <4>1. n \in m .. Num[Prev[d]]
        BY <3>2, <3>7
      <4>2. CASE n = Num[Prev[d]]
        <5>1. n + 1 = Num[d]
          BY <3>2, <4>2
        <5> QED BY <2>0, <3>4, <3>5, <4>1, <4>2, <5>1
      <4>3. CASE n # Num[Prev[d]]
        <5>1. n < Num[Prev[d]] /\ n + 1 \in m .. Num[Prev[d]]
          BY <3>2, <4>1, <4>3
        <5>2. Prev[Ancestor(f, Prev[d], n + 1)] = Ancestor(f, Prev[d], n)
          BY <3>3, <4>1, <5>1
        <5> QED BY <3>4, <4>1, <5>1, <5>2
      <4> QED BY <4>2, <4>3
    <3>8. m <= Num[d]
      BY <2>0, <3>1
    <3> QED BY <3>6, <3>7, <3>8
  <2> QED BY <2>1, <2>2
<1>2. T \in SUBSET Nat
  BY Constants
<1>3. T = {}
  <2> SUFFICES ASSUME T # {} PROVE FALSE
    OBVIOUS
  <2> HIDE DEF Good
  <2>1. PICK x \in T : \A y \in T : x <= y
    BY <1>2, LeastNumber
  <2>2. PICK d \in Blocks : ~ Good(d) /\ x = Num[d]
    OBVIOUS
  <2>3. Ancestor(f, d, m) # NONE
    BY <2>2 DEF Good
  <2>4. Prev[d] \in Blocks /\ ~ Good(Prev[d])
    BY <1>1, <2>2, <2>3
  <2>5. Num[Prev[d]] \in T /\ Num[d] = Num[Prev[d]] + 1 /\ Num[Prev[d]] \in Nat
    BY <2>4, Constants
  <2>6. x <= Num[Prev[d]]
    BY <2>1, <2>5
  <2> QED BY <2>2, <2>5, <2>6
<1> HIDE DEF Good
<1>4. Good(b)
  BY <1>3
<1> QED BY <1>4 DEF Good

------------------------------------------------------------------------------
(* The block of a number, and what update_last_irreversible_block() takes. *)

(* fetch_block_on_main_branch_by_number() returns a block or none.         *)
LEMMA FetchTyped ==
  ASSUME NEW f, ForkTyped(f), NEW n \in Nat
  PROVE  FetchOnMainBranch(f, n) \in Blocks \cup {NONE}
<1> DEFINE at_n == {b \in f.index : Num[b] = n}
<1>1. at_n \in SUBSET Blocks /\ f.head \in Blocks \cup {NONE}
  BY DEF ForkTyped, ForkDatabases
<1>2. Cardinality({}) # 1
  BY FS_EmptySet
<1>3. f.anchored => Prev[f.head] \in Blocks
  BY <1>1, Constants DEF ForkTyped
<1>4. f.anchored => Ancestor(f, Prev[f.head], n) \in Blocks \cup {NONE}
  BY <1>3, AncestorIs
<1>5. FetchOnMainBranch(f, n) =
        IF Cardinality(at_n) = 1 THEN CHOOSE b \in at_n : TRUE
        ELSE IF at_n = {} \/ f.head = NONE THEN NONE
        ELSE IF Num[f.head] = n THEN f.head
        ELSE IF f.anchored THEN Ancestor(f, Prev[f.head], n) ELSE NONE
  BY DEF FetchOnMainBranch
<1> HIDE DEF at_n
<1>6. Cardinality(at_n) = 1 => at_n # {}
  BY <1>2
<1> QED BY <1>1, <1>4, <1>5, <1>6

(* It names the branch's block or none, if the fork head is on the branch  *)
(* and the branch's block of that number is not missing among others: the  *)
(* block that is alone at its height is then the branch's.                 *)
LEMMA FetchOnBranch ==
  ASSUME NEW f, ForkTyped(f), NEW c \in Seq(Blocks), BranchOf(c),
         NEW n \in 1 .. Len(c), NEW j \in 1 .. Len(c), f.head = c[j],
         \A x \in f.index : Num[x] = n => c[n] \in f.index
  PROVE  /\ FetchOnMainBranch(f, n) \in {NONE, c[n]}
         /\ n < j /\ c[n] \in f.index /\ f.anchored /\ (\A k \in n + 1 .. j - 1 : c[k] \in f.linked)
              => FetchOnMainBranch(f, n) = c[n]
<1> DEFINE at_n == {b \in f.index : Num[b] = n}
           main == IF f.anchored THEN Ancestor(f, Prev[f.head], n) ELSE NONE
<1>1. IsFiniteSet(at_n) /\ f.head # NONE
  <2>1. IsFiniteSet(f.index) /\ at_n \in SUBSET f.index
    BY DEF ForkTyped
  <2>2. c[j] # NONE
    BY BranchNums, Constants
  <2> QED BY <2>1, <2>2, FS_Subset
<1>2. at_n = {} \/ c[n] \in at_n
  BY BranchNums
<1>3. c[n] \in f.index => c[n] \in at_n
  BY BranchNums
<1>4. Num[f.head] = j
  BY BranchNums
<1>5. FetchOnMainBranch(f, n) =
        IF Cardinality(at_n) = 1 THEN CHOOSE b \in at_n : TRUE
        ELSE IF at_n = {} \/ f.head = NONE THEN NONE
        ELSE IF Num[f.head] = n THEN f.head
        ELSE main
  BY DEF FetchOnMainBranch
<1>6. main \in {NONE, c[n]}
  <2>1. CASE f.anchored /\ j # 1
    <3>1. Prev[f.head] = c[j - 1] /\ j - 1 \in 1 .. Len(c) /\ n \in Nat
      BY <2>1 DEF BranchOf
    <3>2. n > j - 1 \/ n \in 1 .. j - 1
      BY <3>1
    <3>3. Ancestor(f, c[j - 1], n) \in {NONE, c[n]}
      BY <3>1, <3>2, AncestorOnBranch
    <3> QED BY <2>1, <3>1, <3>3
  <2>2. CASE f.anchored /\ j = 1
    BY <2>2 DEF BranchOf, ForkTyped
  <2>3. CASE ~ f.anchored
    BY <2>3
  <2> QED BY <2>1, <2>2, <2>3
<1>7. ASSUME n < j, f.anchored, \A k \in n + 1 .. j - 1 : c[k] \in f.linked
      PROVE  main = c[n]
  <2>1. Prev[f.head] = c[j - 1] /\ j - 1 \in 1 .. Len(c) /\ n \in Nat /\ n \in 1 .. j - 1
    BY <1>7 DEF BranchOf
  <2>2. Ancestor(f, c[j - 1], n) = c[n]
    BY <1>7, <2>1, AncestorOnBranch
  <2> QED BY <1>7, <2>1, <2>2
<1> HIDE DEF at_n, main
<1>8. ASSUME Cardinality(at_n) = 1 PROVE FetchOnMainBranch(f, n) = c[n]
  <2>1. PICK x : at_n = {x}
    BY <1>1, <1>8, FS_Singleton
  <2>2. (CHOOSE b \in at_n : TRUE) = c[n]
    BY <1>2, <2>1
  <2> QED BY <1>5, <1>8, <2>2
<1>9. ASSUME Cardinality(at_n) # 1, at_n # {} PROVE FetchOnMainBranch(f, n) = IF j = n THEN c[j] ELSE main
  BY <1>1, <1>4, <1>5, <1>9
<1>10. ASSUME Cardinality(at_n) # 1, at_n = {} PROVE FetchOnMainBranch(f, n) = NONE
  BY <1>5, <1>10
<1>11. FetchOnMainBranch(f, n) \in {NONE, c[n]}
  BY <1>6, <1>8, <1>9, <1>10
<1>12. ASSUME n < j, c[n] \in f.index, f.anchored, \A k \in n + 1 .. j - 1 : c[k] \in f.linked
       PROVE  FetchOnMainBranch(f, n) = c[n]
  <2>1. main = c[n] /\ at_n # {} /\ j # n
    BY <1>3, <1>7, <1>12
  <2> QED BY <1>8, <1>9, <2>1
<1> QED BY <1>11, <1>12

(* The blocks that are appended are the ones fetched, in their order, up   *)
(* to the irreversible one or to the first that is missing.                *)
LEMMA AppendedIs ==
  ASSUME ForkTyped(fork), log \in Seq(Blocks), NEW lib \in Nat
  PROVE  /\ Appended(lib) \in Seq(Blocks)
         /\ Len(Appended(lib)) \in Nat
         /\ Appended(lib) # << >> => Len(log) + Len(Appended(lib)) <= lib
         /\ Len(log) + Len(Appended(lib)) <= lib \/ Len(Appended(lib)) = 0
         /\ \A i \in 1 .. Len(Appended(lib)) :
              /\ Appended(lib)[i] = FetchOnMainBranch(fork, Len(log) + i)
              /\ FetchOnMainBranch(fork, Len(log) + i) # NONE
              /\ Len(log) + i \in Len(log) + 1 .. lib
         /\ (\A n \in Len(log) + 1 .. lib : FetchOnMainBranch(fork, n) # NONE) => LogComplete(lib)
<1> DEFINE missing == {n \in Len(log) + 1 .. lib : FetchOnMainBranch(fork, n) = NONE}
           last == IF missing = {} THEN Max({Len(log), lib}) ELSE Min(missing) - 1
           a == Appended(lib)
<1>1. Len(log) \in Nat
  OBVIOUS
<1>2. a = [i \in 1 .. last - Len(log) |-> FetchOnMainBranch(fork, Len(log) + i)]
  BY DEF Appended
<1> HIDE DEF a
<1>3. missing # {} => Min(missing) \in missing /\ \A y \in missing : Min(missing) <= y
  <2>1. missing \in SUBSET Nat
    BY <1>1
  <2> HIDE DEF missing
  <2> QED BY <2>1, LeastOfSome
<1>4. /\ missing = {} => last = (IF Len(log) >= lib THEN Len(log) ELSE lib)
      /\ missing # {} => last = Min(missing) - 1 /\ Min(missing) \in Len(log) + 1 .. lib
  <2>1. Max({Len(log), lib}) = IF Len(log) >= lib THEN Len(log) ELSE lib
    BY <1>1, MaxOfTwo
  <2>2. missing # {} => Min(missing) \in Len(log) + 1 .. lib
    BY <1>3
  <2> HIDE DEF missing
  <2> QED BY <2>1, <2>2
<1>5. last \in Nat /\ last >= Len(log) /\ (last <= lib \/ last = Len(log)) /\ (missing = {} => last >= lib)
  <2> HIDE DEF missing, last
  <2> QED BY <1>1, <1>4
<1>6. ASSUME NEW i \in 1 .. last - Len(log)
      PROVE  /\ Len(log) + i \in Len(log) + 1 .. lib /\ Len(log) + i \in Nat
             /\ FetchOnMainBranch(fork, Len(log) + i) # NONE
  <2> DEFINE n == Len(log) + i
  <2>1. n \in Len(log) + 1 .. last /\ n \in Nat
    <3> HIDE DEF last
    <3> QED BY <1>1, <1>5
  <2>2. n \in Len(log) + 1 .. lib
    <3> HIDE DEF last
    <3> QED BY <1>1, <1>5, <2>1
  <2>3. n \notin missing
    <3>1. CASE missing = {}
      BY <3>1
    <3>2. CASE missing # {}
      <4>1. n <= Min(missing) - 1 /\ Min(missing) \in Nat
        <5> HIDE DEF missing, last
        <5> QED BY <1>1, <1>4, <2>1, <3>2
      <4>2. ~ (Min(missing) <= n)
        <5> HIDE DEF missing
        <5> QED BY <2>1, <4>1
      <4> HIDE DEF missing
      <4> QED BY <1>3, <3>2, <4>2
    <3> QED BY <3>1, <3>2
  <2> QED BY <2>1, <2>2, <2>3
<1>7. \A i \in 1 .. last - Len(log) : FetchOnMainBranch(fork, Len(log) + i) \in Blocks
  BY <1>6, FetchTyped
<1> DEFINE k == last - Len(log)
<1>8. k \in Nat /\ Len(log) + k = last
  <2> HIDE DEF last
  <2> QED BY <1>1, <1>5
<1>9. a = [i \in 1 .. k |-> FetchOnMainBranch(fork, Len(log) + i)]
  BY <1>2
<1>10. \A i \in 1 .. k : /\ Len(log) + i \in Len(log) + 1 .. lib
                         /\ FetchOnMainBranch(fork, Len(log) + i) # NONE
                         /\ FetchOnMainBranch(fork, Len(log) + i) \in Blocks
  BY <1>6, <1>7
<1> HIDE DEF k, last
<1>11. a \in Seq(Blocks) /\ Len(a) = k /\ \A i \in 1 .. k : a[i] = FetchOnMainBranch(fork, Len(log) + i)
  BY <1>8, <1>9, <1>10
<1>12. Len(log) + k <= lib \/ k = 0
  BY <1>1, <1>5, <1>8
<1>13. (\A n \in Len(log) + 1 .. lib : FetchOnMainBranch(fork, n) # NONE) => Len(log) + k >= lib
  <2>1. (\A n \in Len(log) + 1 .. lib : FetchOnMainBranch(fork, n) # NONE) => missing = {}
    OBVIOUS
  <2> HIDE DEF missing
  <2> QED BY <1>5, <1>8, <2>1
<1>14. a # << >> => k # 0
  BY <1>11
<1> QED BY <1>8, <1>10, <1>11, <1>12, <1>13, <1>14 DEF a, LogComplete

------------------------------------------------------------------------------
(* The two branches of a switch. *)

(* The heights at which two branches meet do not depend on their order.    *)
LEMMA MeetingSymmetric ==
  ASSUME NEW f, NEW b \in Blocks, NEW o \in Blocks
  PROVE  MeetingHeights(f, o, b) = MeetingHeights(f, b, o)
<1>1. {Num[o], Num[b]} = {Num[b], Num[o]}
  OBVIOUS
<1> QED BY <1>1 DEF MeetingHeights

(* fetch_branch_from() yields the blocks from the highest meeting height   *)
(* up to b, each the parent of the next.                                   *)
LEMMA BranchIs ==
  ASSUME NEW f, ForkTyped(f), NEW b \in Blocks, NEW o \in Blocks,
         MeetingHeights(f, b, o) # {},
         NEW m, m = Max(MeetingHeights(f, b, o)), NEW s, s = BranchFrom(f, b, o)
  PROVE  /\ m \in Nat /\ m >= 1 /\ m <= Num[b] /\ m <= Num[o] /\ m \in MeetingHeights(f, b, o)
         /\ \A n \in MeetingHeights(f, b, o) : n <= m
         /\ s \in Seq(Blocks) /\ Len(s) = Num[b] - m + 1 /\ Len(s) >= 1
         /\ \A i \in 1 .. Len(s) : s[i] = Ancestor(f, b, m + i - 1) /\ Num[s[i]] = m + i - 1
         /\ \A i \in 2 .. Len(s) : Prev[s[i]] = s[i - 1]
         /\ s[Len(s)] = b
<1> DEFINE M == MeetingHeights(f, b, o)
<1>1. Num[b] \in Nat /\ Num[o] \in Nat
  BY Constants
<1>2. M \in SUBSET (1 .. Min({Num[b], Num[o]})) /\ \A n \in M : Ancestor(f, b, n) # NONE
  BY DEF MeetingHeights
<1>3. Min({Num[b], Num[o]}) = IF Num[b] <= Num[o] THEN Num[b] ELSE Num[o]
  BY <1>1, MinOfTwo
<1> HIDE DEF M
<1>4. \A n \in M : n \in Nat /\ n >= 1 /\ n <= Num[b] /\ n <= Num[o]
  BY <1>1, <1>2, <1>3
<1>5. M \in SUBSET (0 .. Num[b]) /\ M # {}
  BY <1>1, <1>4 DEF M
<1>6. m \in M /\ \A n \in M : n <= m
  BY <1>1, <1>5, LargestWithin DEF M
<1>7. m \in Nat /\ m >= 1 /\ m <= Num[b] /\ m <= Num[o] /\ Ancestor(f, b, m) # NONE
  BY <1>2, <1>4, <1>6
<1>8. /\ \A n \in m .. Num[b] : Ancestor(f, b, n) \in Blocks /\ Num[Ancestor(f, b, n)] = n
      /\ \A n \in m .. Num[b] : n < Num[b] => Prev[Ancestor(f, b, n + 1)] = Ancestor(f, b, n)
  BY <1>7, AncestorsBetween
<1> DEFINE k == Num[b] - m + 1
<1>9. k \in Nat /\ k >= 1 /\ m + k - 1 = Num[b]
  BY <1>1, <1>7
<1>10. s = [i \in 1 .. k |-> Ancestor(f, b, m + i - 1)]
  BY DEF BranchFrom
<1> HIDE DEF k
<1>11. \A i \in 1 .. k : m + i - 1 \in m .. Num[b]
  BY <1>1, <1>7, <1>9
<1>12. \A i \in 1 .. k : Ancestor(f, b, m + i - 1) \in Blocks /\ Num[Ancestor(f, b, m + i - 1)] = m + i - 1
  BY <1>8, <1>11
<1>13. s \in Seq(Blocks) /\ Len(s) = k /\ \A i \in 1 .. k : s[i] = Ancestor(f, b, m + i - 1)
  BY <1>9, <1>10, <1>12
<1>14. ASSUME NEW i \in 2 .. k PROVE Prev[s[i]] = s[i - 1]
  <2> DEFINE n == m + i - 2
  <2>1. n \in m .. Num[b] /\ n < Num[b] /\ n + 1 = m + i - 1 /\ n = m + (i - 1) - 1
        /\ i \in 1 .. k /\ i - 1 \in 1 .. k
    BY <1>1, <1>7, <1>9
  <2> HIDE DEF n
  <2>2. Prev[Ancestor(f, b, n + 1)] = Ancestor(f, b, n)
    BY <1>8, <2>1
  <2>3. s[i] = Ancestor(f, b, n + 1) /\ s[i - 1] = Ancestor(f, b, n)
    BY <1>13, <2>1
  <2> QED BY <2>2, <2>3
<1>15. s[k] = b
  <2>1. Ancestor(f, b, Num[b]) = b
    BY AncestorIs
  <2> QED BY <1>9, <1>13, <2>1
<1>16. Len(s) = Num[b] - m + 1
  BY <1>13 DEF k
<1> QED BY <1>6, <1>7, <1>9, <1>12, <1>13, <1>14, <1>15, <1>16 DEF M

------------------------------------------------------------------------------
(* The shape of every state. *)

Switching == {"pop", "apply", "pop_bad", "reapply"}

(* Types, and what push_block() holds while it is under way.               *)
Typed ==
  /\ chain \in Seq(Blocks)
  /\ base \in 0 .. Len(chain)
  /\ log \in Seq(Blocks)
  /\ ForkTyped(fork)
  /\ pc \in {"idle", "extend", "pop", "apply", "pop_bad", "reapply", "down", "broken"}
  /\ new \in Seq(Blocks) /\ old \in Seq(Blocks) /\ at \in Nat
  /\ clean \in BOOLEAN
  /\ pc = "extend" => Len(new) = 1
  /\ pc \in Switching => Len(new) >= 1 /\ Len(old) >= 1
  /\ pc \in {"pop", "pop_bad"} => at = 1
  /\ pc = "apply" => at \in 1 .. Len(new)
  /\ pc = "reapply" => at \in 1 .. Len(old)
  /\ pc = "down" => fork = EmptyForkDb(DefaultMaxSize)

(* The block that is about to be applied is one.                           *)
LEMMA ApplyingTyped ==
  ASSUME Typed, NEW b, Applying(b)
  PROVE  b \in Blocks
<1>1. CASE pc = "extend" /\ b = new[1]
  <2>1. Len(new) = 1 /\ new \in Seq(Blocks)
    BY <1>1, Zenon DEF Typed
  <2>2. 1 \in 1 .. Len(new)
    BY <2>1
  <2> QED BY <1>1, <2>1, <2>2, ElementOfSeq
<1>2. CASE pc = "apply" /\ b = new[at]
  BY <1>2, ElementOfSeq DEF Typed
<1>3. CASE pc = "reapply" /\ b = old[at]
  BY <1>3, ElementOfSeq DEF Typed
<1> QED BY <1>1, <1>2, <1>3 DEF Applying

------------------------------------------------------------------------------
(* The methods of the fork database keep its type. *)

(* A fork database with other links has the type of one.                   *)
LEMMA LinksReplaced ==
  ASSUME NEW f \in ForkDatabases, NEW L \in SUBSET Blocks, NEW a \in BOOLEAN
  PROVE  [f EXCEPT !.linked = L, !.anchored = a] \in ForkDatabases
BY DEF ForkDatabases

(* So has one with another head.                                           *)
LEMMA HeadReplaced ==
  ASSUME NEW f \in ForkDatabases, NEW h \in Blocks, NEW a \in BOOLEAN
  PROVE  [f EXCEPT !.head = h, !.anchored = a] \in ForkDatabases
BY DEF ForkDatabases

(* Pointers that die leave the index and the head as they were.            *)
LEMMA ExpireTyped ==
  ASSUME NEW f, ForkTyped(f), NEW held
  PROVE  /\ ForkTyped(Expire(f, held))
         /\ Expire(f, held).index = f.index /\ Expire(f, held).head = f.head
         /\ Expire(f, held).linked = {b \in f.linked : Prev[b] \in f.index \cup {f.head} \cup held}
         /\ Expire(f, held).anchored = (f.anchored /\ Prev[f.head] \in f.index \cup held)
<1> DEFINE g == Expire(f, held)
<1>1. f \in ForkDatabases
  BY DEF ForkTyped
<1>2. /\ g.index = f.index /\ g.head = f.head
      /\ g.linked = {b \in f.linked : Prev[b] \in f.index \cup {f.head} \cup held}
      /\ g.anchored = (f.anchored /\ Prev[f.head] \in f.index \cup held)
  BY <1>1 DEF ForkDatabases, Expire
<1>3. g \in ForkDatabases
  <2> DEFINE L == {b \in f.linked : Prev[b] \in f.index \cup {f.head} \cup held}
             a == f.anchored /\ Prev[f.head] \in f.index \cup held
  <2>1. g = [f EXCEPT !.linked = L, !.anchored = a]
    BY DEF Expire
  <2>2. L \in SUBSET Blocks /\ a \in BOOLEAN
    BY <1>1 DEF ForkDatabases
  <2> HIDE DEF g, L, a
  <2> QED BY <1>1, <2>1, <2>2, LinksReplaced, Zenon
<1> HIDE DEF g
<1>4. ForkTyped(g)
  BY <1>2, <1>3 DEF ForkTyped
<1> QED BY <1>2, <1>4 DEF g

(* The fork database of a new process.                                     *)
LEMMA EmptyTyped ==
  ASSUME NEW n \in Nat
  PROVE  ForkTyped(EmptyForkDb(n))
<1>1. IsFiniteSet({})
  BY FS_EmptySet
<1> QED BY <1>1 DEF ForkTyped, ForkDatabases, EmptyForkDb

(* start_block(): the fork database after open().                          *)
LEMMA StartTyped ==
  ASSUME NEW n \in Nat, NEW b \in Blocks
  PROVE  ForkTyped(StartBlock(EmptyForkDb(n), b))
<1>1. IsFiniteSet({} \cup {b})
  BY FS_EmptySet, FS_AddElement
<1> QED BY <1>1 DEF ForkTyped, ForkDatabases, EmptyForkDb, StartBlock

(* push_block() adds one block, and a higher one becomes the head.         *)
LEMMA PushTyped ==
  ASSUME NEW f, ForkTyped(f), NEW b \in Blocks
  PROVE  /\ ForkTyped(PushItem(f, b)) /\ PushItem(f, b).head \in Blocks
         /\ PushItem(f, b).index = f.index \cup {b}
         /\ f.linked \subseteq PushItem(f, b).linked
         /\ f.head # NONE /\ Prev[b] # NONE /\ b \notin f.index => b \in PushItem(f, b).linked
         /\ f.head = NONE \/ Num[b] > Num[f.head] =>
              /\ PushItem(f, b).head = b
              /\ f.head # NONE /\ Prev[b] # NONE => PushItem(f, b).anchored
         /\ ~ (f.head = NONE \/ Num[b] > Num[f.head]) =>
              PushItem(f, b).head = f.head /\ PushItem(f, b).anchored = f.anchored
<1>1. IsFiniteSet(f.index \cup {b})
  BY FS_AddElement DEF ForkTyped
<1>2. f \in ForkDatabases
  BY DEF ForkTyped
<1> DEFINE g == PushItem(f, b)
           links == f.head # NONE /\ Prev[b] # NONE
           higher == f.head = NONE \/ Num[b] > Num[f.head]
<1>3. /\ g.index = f.index \cup {b}
      /\ g.linked = IF links /\ b \notin f.index THEN f.linked \cup {b} ELSE f.linked
      /\ g.head = IF higher THEN b ELSE f.head
      /\ g.anchored = IF higher THEN links ELSE f.anchored
      /\ g \in ForkDatabases
  BY <1>2 DEF PushItem, ForkDatabases
<1> HIDE DEF g
<1>4. g.head \in Blocks
  BY <1>2, <1>3 DEF ForkDatabases
<1>5. \A x \in g.linked : Prev[x] # NONE
  BY <1>3 DEF ForkTyped
<1>6. g.anchored => g.head # NONE /\ Prev[g.head] # NONE
  BY <1>3, Constants DEF ForkTyped
<1>7. ForkTyped(g)
  BY <1>1, <1>3, <1>5, <1>6 DEF ForkTyped
<1> QED BY <1>3, <1>4, <1>7 DEF g

(* set_head() moves the head and nothing else.                             *)
LEMMA SetHeadTyped ==
  ASSUME NEW f, ForkTyped(f), NEW b \in Blocks
  PROVE  /\ ForkTyped(SetHead(f, b))
         /\ SetHead(f, b).index = f.index /\ SetHead(f, b).head = b
         /\ SetHead(f, b).linked = f.linked
<1> DEFINE g == SetHead(f, b)
<1>1. f \in ForkDatabases
  BY DEF ForkTyped
<1>2. /\ g.index = f.index /\ g.head = b /\ g.linked = f.linked
      /\ g.anchored <=> b \in f.linked
  BY <1>1 DEF ForkDatabases, SetHead
<1>0. g \in ForkDatabases
  <2> DEFINE a == b \in f.linked
  <2>1. g = [f EXCEPT !.head = b, !.anchored = a]
    BY DEF SetHead
  <2>2. a \in BOOLEAN
    OBVIOUS
  <2> HIDE DEF g, a
  <2> QED BY <1>1, <2>1, <2>2, HeadReplaced, Zenon
<1> HIDE DEF g
<1>3. ForkTyped(g)
  BY <1>0, <1>2, Constants DEF ForkTyped
<1> QED BY <1>2, <1>3 DEF g

(* pop_block() moves the head to its parent.                               *)
LEMMA PopTyped ==
  ASSUME NEW f, ForkTyped(f), CanPopItem(f)
  PROVE  ForkTyped(PopItem(f)) /\ PopItem(f).head = Prev[f.head] /\ PopItem(f).index = f.index
         /\ PopItem(f).linked = f.linked
<1>1. Prev[f.head] \in Blocks
  BY Constants DEF ForkTyped, ForkDatabases, CanPopItem
<1>2. PopItem(f) = SetHead(f, Prev[f.head])
  BY DEF PopItem
<1> QED BY <1>1, <1>2, SetHeadTyped

(* remove() takes blocks out of the index and nothing else.                *)
LEMMA RemoveTyped ==
  ASSUME NEW f, ForkTyped(f), NEW bs
  PROVE  /\ ForkTyped(RemoveItems(f, bs))
         /\ RemoveItems(f, bs).index = f.index \ bs
         /\ RemoveItems(f, bs).head = f.head /\ RemoveItems(f, bs).linked = f.linked
         /\ RemoveItems(f, bs).anchored = f.anchored
<1> DEFINE g == RemoveItems(f, bs)
<1>1. f \in ForkDatabases
  BY DEF ForkTyped
<1>2. /\ g.index = f.index \ bs /\ g.head = f.head /\ g.linked = f.linked
      /\ g.anchored = f.anchored /\ g \in ForkDatabases
  BY <1>1 DEF ForkDatabases, RemoveItems
<1>3. IsFiniteSet(f.index \ bs)
  BY FS_Subset DEF ForkTyped
<1> HIDE DEF g
<1>4. ForkTyped(g)
  BY <1>2, <1>3 DEF ForkTyped
<1> QED BY <1>2, <1>4 DEF g

(* Pruning leaves the blocks from some number on.                          *)
LEMMA PruneTyped ==
  ASSUME NEW f, ForkTyped(f), NEW size \in Nat
  PROVE  /\ ForkTyped(SetMaxSize(f, size))
         /\ SetMaxSize(f, size).linked = f.linked /\ SetMaxSize(f, size).head = f.head
         /\ SetMaxSize(f, size).anchored = f.anchored
         /\ f.head = NONE => SetMaxSize(f, size).index = f.index
         /\ f.head # NONE =>
              /\ Num[f.head] \in Nat
              /\ SetMaxSize(f, size).index = {b \in f.index : Num[b] >= Num[f.head] - size}
<1> DEFINE g == [f EXCEPT !.max_size = size]
           h == SetMaxSize(f, size)
<1>1. f \in ForkDatabases /\ g \in ForkDatabases
  BY DEF ForkTyped, ForkDatabases
<1>2. /\ g.index = f.index /\ g.linked = f.linked /\ g.head = f.head
      /\ g.anchored = f.anchored /\ g.max_size = size
  BY <1>1 DEF ForkDatabases
<1>3. h = IF f.head = NONE THEN g
          ELSE [g EXCEPT !.index = {b \in @ : Num[b] >= Horizon(g)}]
  BY DEF SetMaxSize
<1> HIDE DEF g, h
<1>4. CASE f.head = NONE
  <2>1. h = g
    BY <1>3, <1>4
  <2> QED BY <1>1, <1>2, <1>4, <2>1 DEF ForkTyped, h
<1>5. CASE f.head # NONE
  <2>1. f.head \in Blocks /\ Num[f.head] \in Nat
    BY <1>1, <1>5, Constants DEF ForkDatabases
  <2>2. h = [g EXCEPT !.index = {b \in g.index : Num[b] >= Horizon(g)}]
    BY <1>3, <1>5
  <2>3. /\ h.index = {b \in g.index : Num[b] >= Horizon(g)} /\ h.linked = g.linked /\ h.head = g.head
        /\ h.anchored = g.anchored /\ h.max_size = g.max_size /\ h \in ForkDatabases
    BY <1>1, <2>2 DEF ForkDatabases
  <2>4. Horizon(g) = Max({0, Num[f.head] - size})
    BY <1>2 DEF Horizon
  <2>5. Horizon(g) = IF 0 >= Num[f.head] - size THEN 0 ELSE Num[f.head] - size
    BY <2>1, <2>4, MaxOfTwo
  <2>6. \A b \in f.index : Num[b] >= Horizon(g) <=> Num[b] >= Num[f.head] - size
    <3> TAKE b \in f.index
    <3>1. Num[b] \in Nat
      BY <1>1, Constants DEF ForkDatabases
    <3> QED BY <2>1, <2>5, <3>1
  <2>7. h.index = {b \in f.index : Num[b] >= Num[f.head] - size}
    BY <1>2, <2>3, <2>6
  <2>8. IsFiniteSet(h.index)
    BY <2>7, FS_Subset DEF ForkTyped
  <2>9. ForkTyped(h)
    BY <1>2, <2>3, <2>8 DEF ForkTyped
  <2> QED BY <1>2, <1>5, <2>1, <2>3, <2>7, <2>9 DEF h
<1> QED BY <1>4, <1>5

------------------------------------------------------------------------------
(* What is irreversible stays. *)

(* A prefix, element by element.                                           *)
LEMMA PrefixOf ==
  ASSUME NEW S, NEW s \in Seq(S), NEW t \in Seq(S), Len(s) <= Len(t),
         \A i \in 1 .. Len(s) : s[i] = t[i]
  PROVE  IsPrefix(s, t)
<1>1. Len(s) \in Nat /\ Len(t) \in Nat
  OBVIOUS
<1>2. /\ SubSeq(s, 1, Len(s)) \in Seq(S) /\ Len(SubSeq(s, 1, Len(s))) = Len(s)
      /\ SubSeq(t, 1, Len(s)) \in Seq(S) /\ Len(SubSeq(t, 1, Len(s))) = Len(s)
      /\ \A i \in 1 .. Len(s) : SubSeq(s, 1, Len(s))[i] = SubSeq(t, 1, Len(s))[i]
  BY <1>1
<1>3. SubSeq(s, 1, Len(s)) = SubSeq(t, 1, Len(s))
  BY <1>2, SeqEqual
<1> QED BY <1>1, <1>3 DEF IsPrefix

(* The start of a sequence.                                                *)
LEMMA StartOf ==
  ASSUME NEW S, NEW s \in Seq(S), NEW n \in 0 .. Len(s)
  PROVE  /\ SubSeq(s, 1, n) \in Seq(S) /\ Len(SubSeq(s, 1, n)) = n
         /\ \A i \in 1 .. n : SubSeq(s, 1, n)[i] = s[i]
OBVIOUS

(* One block more.                                                         *)
LEMMA OneMore ==
  ASSUME NEW S, NEW s \in Seq(S), NEW b \in S
  PROVE  /\ Append(s, b) \in Seq(S) /\ Len(Append(s, b)) = Len(s) + 1
         /\ Append(s, b)[Len(s) + 1] = b
         /\ \A i \in 1 .. Len(s) : Append(s, b)[i] = s[i]
OBVIOUS

(* Where the elements of two sequences are once they are one.              *)
LEMMA Concatenated ==
  ASSUME NEW S, NEW s \in Seq(S), NEW t \in Seq(S)
  PROVE  /\ s \o t \in Seq(S)
         /\ Len(s) \in Nat /\ Len(t) \in Nat /\ Len(s \o t) = Len(s) + Len(t)
         /\ \A i \in 1 .. Len(s) : (s \o t)[i] = s[i]
         /\ \A i \in 1 .. Len(t) : (s \o t)[Len(s) + i] = t[i]
<1>1. /\ s \o t \in Seq(S) /\ Len(s \o t) = Len(s) + Len(t)
      /\ \A i \in 1 .. Len(s) + Len(t) :
           (s \o t)[i] = IF i <= Len(s) THEN s[i] ELSE t[i - Len(s)]
      /\ Len(s) \in Nat /\ Len(t) \in Nat
  BY ConcatProperties, LenProperties
<1>2. ASSUME NEW i \in 1 .. Len(s) PROVE (s \o t)[i] = s[i]
  <2>1. i \in 1 .. Len(s) + Len(t) /\ i <= Len(s)
    BY <1>1
  <2> QED BY <1>1, <2>1
<1>3. ASSUME NEW i \in 1 .. Len(t) PROVE (s \o t)[Len(s) + i] = t[i]
  <2>1. Len(s) + i \in 1 .. Len(s) + Len(t) /\ ~ (Len(s) + i <= Len(s)) /\ (Len(s) + i) - Len(s) = i
    BY <1>1
  <2> QED BY <1>1, <2>1
<1> QED BY <1>1, <1>2, <1>3

(* The types of what is on disk.                                           *)
DataTyped == chain \in Seq(Blocks) /\ base \in 0 .. Len(chain) /\ log \in Seq(Blocks)

(* The step that CommittedStays allows.                                    *)
Stays ==
  /\ IsPrefix(log, log')
  /\ IsPrefix(SubSeq(chain, 1, base), chain') \/ (pc = "down" /\ chain' = SubSeq(log, 1, base'))

(* The log grows by the blocks that are appended.                          *)
LEMMA LogGrows ==
  ASSUME DataTyped, NEW a \in Seq(Blocks), log' = log \o a
  PROVE  log' \in Seq(Blocks) /\ IsPrefix(log, log')
<1>1. log \in Seq(Blocks)
  BY DEF DataTyped
<1>2. log' \in Seq(Blocks) /\ Len(log) <= Len(log') /\ \A i \in 1 .. Len(log) : log[i] = log'[i]
  BY <1>1, Concatenated
<1> QED BY <1>1, <1>2, PrefixOf

(* The committed blocks are the start of every chain that agrees with the  *)
(* present one up to there.                                                *)
LEMMA ChainKeeps ==
  ASSUME DataTyped, chain' \in Seq(Blocks), base <= Len(chain'),
         \A i \in 1 .. base : chain'[i] = chain[i]
  PROVE  IsPrefix(SubSeq(chain, 1, base), chain')
<1> DEFINE s == SubSeq(chain, 1, base)
<1>1. s \in Seq(Blocks) /\ Len(s) = base /\ \A i \in 1 .. base : s[i] = chain[i]
  BY StartOf DEF DataTyped
<1> HIDE DEF s
<1>2. IsPrefix(s, chain')
  BY <1>1, PrefixOf
<1> QED BY <1>2 DEF s

(* The irreversible block that applying b gives.                           *)
LEMMA LibWithIs ==
  ASSUME DataTyped, NEW b \in Blocks
  PROVE  /\ LibWith(b) \in 0 .. Len(chain) + 1
         /\ Cardinality(Witnesses) >= 2 => LibWith(b) <= Len(chain)
<1> DEFINE c == Append(chain, b)
<1>1. c \in Seq(Blocks) /\ Len(c) = Len(chain) + 1 /\ Len(chain) \in Nat
  BY OneMore DEF DataTyped
<1> HIDE DEF c
<1>2. Lib(c) \in 0 .. Len(c) /\ (Cardinality(Witnesses) >= 2 /\ Len(c) >= 1 => Lib(c) < Len(c))
  BY <1>1, LibWithin
<1>3. LibWith(b) = Lib(c)
  BY DEF LibWith, c
<1> QED BY <1>1, <1>2, <1>3

(* Committing moves the base to a block of the chain, b included if the    *)
(* chain keeps it.                                                         *)
LEMMA CommitKeeps ==
  ASSUME DataTyped, ForkTyped(fork), NEW b \in Blocks, NEW lib, lib = LibWith(b),
         base' = Max({base, lib}),
         chain' = Append(chain, b) \/ (chain' = chain /\ lib <= Len(chain)),
         NEW k \in 0 .. Len(Appended(lib)), log' = log \o SubSeq(Appended(lib), 1, k)
  PROVE  DataTyped' /\ Stays
<1>1. lib \in 0 .. Len(chain) + 1 /\ Len(chain) \in Nat /\ lib \in Nat
  BY LibWithIs DEF DataTyped
<1>2. /\ chain' \in Seq(Blocks) /\ Len(chain') >= Len(chain) /\ lib <= Len(chain')
      /\ \A i \in 1 .. Len(chain) : chain'[i] = chain[i]
  <2>1. CASE chain' = Append(chain, b)
    BY <1>1, <2>1, OneMore DEF DataTyped
  <2>2. CASE chain' = chain /\ lib <= Len(chain)
    BY <1>1, <2>2 DEF DataTyped
  <2> QED BY <2>1, <2>2
<1>3. base \in Nat /\ base <= Len(chain)
  BY DEF DataTyped
<1>4. base' = IF base >= lib THEN base ELSE lib
  BY <1>1, <1>3, MaxOfTwo
<1>5. base' \in 0 .. Len(chain')
  BY <1>1, <1>2, <1>3, <1>4
<1>6. Appended(lib) \in Seq(Blocks)
  BY <1>1, AppendedIs DEF DataTyped
<1>7. SubSeq(Appended(lib), 1, k) \in Seq(Blocks)
  BY <1>6, StartOf
<1>8. log' \in Seq(Blocks) /\ IsPrefix(log, log')
  BY <1>7, LogGrows
<1>9. IsPrefix(SubSeq(chain, 1, base), chain')
  <2>1. base <= Len(chain') /\ \A i \in 1 .. base : chain'[i] = chain[i]
    BY <1>2, <1>3
  <2> QED BY <1>2, <2>1, ChainKeeps
<1> QED BY <1>2, <1>5, <1>8, <1>9 DEF DataTyped, Stays

(* All of what is appended.                                                *)
LEMMA WholeOf ==
  ASSUME DataTyped, ForkTyped(fork), NEW lib \in Nat
  PROVE  Len(Appended(lib)) \in 0 .. Len(Appended(lib))
         /\ SubSeq(Appended(lib), 1, Len(Appended(lib))) = Appended(lib)
<1>1. Appended(lib) \in Seq(Blocks)
  BY AppendedIs DEF DataTyped
<1> QED BY <1>1

(* Nothing happens to the data.                                            *)
LEMMA DataUnchanged ==
  ASSUME DataTyped, UNCHANGED <<chain, base, log>>
  PROVE  DataTyped' /\ Stays
<1>1. DataTyped'
  BY DEF DataTyped
<1>2. IsPrefix(log, log')
  BY PrefixOf DEF DataTyped
<1>3. IsPrefix(SubSeq(chain, 1, base), chain')
  BY ChainKeeps DEF DataTyped
<1> QED BY <1>1, <1>2, <1>3 DEF Stays

(* Applying a block, failing to, and crashing in its commit.               *)
LEMMA ApplyKeeps ==
  ASSUME DataTyped, ForkTyped(fork), NEW b \in Blocks, NEW lib, lib = LibWith(b),
         ApplyBlock(b, lib) \/ FailToApply(b, lib)
  PROVE  DataTyped' /\ Stays /\ ForkTyped(ForkAfter(b, lib))
<1>1. lib \in 0 .. Len(chain) + 1 /\ Len(chain) \in Nat /\ lib \in Nat
  BY LibWithIs DEF DataTyped
<1>2. /\ Len(Appended(lib)) \in 0 .. Len(Appended(lib))
      /\ SubSeq(Appended(lib), 1, Len(Appended(lib))) = Appended(lib)
  BY <1>1, WholeOf
<1>3. ASSUME UNCHANGED <<chain, base, log>> PROVE DataTyped' /\ Stays
  BY <1>3, DataUnchanged
<1>4. ASSUME CommitLib(lib), chain' = Append(chain, b) \/ (chain' = chain /\ lib <= Len(chain))
      PROVE  DataTyped' /\ Stays
  BY <1>2, <1>4, CommitKeeps DEF CommitLib
<1>7. ASSUME base' = Max({base, lib}), log' = log,
             chain' = Append(chain, b) \/ (chain' = chain /\ lib <= Len(chain))
      PROVE  DataTyped' /\ Stays
  <2>1. Appended(lib) \in Seq(Blocks) /\ log \in Seq(Blocks)
    BY <1>1, AppendedIs DEF DataTyped
  <2>2. 0 \in 0 .. Len(Appended(lib)) /\ log' = log \o SubSeq(Appended(lib), 1, 0)
    BY <1>7, <2>1
  <2> QED BY <1>7, <2>2, CommitKeeps
<1>5. \/ UNCHANGED <<chain, base, log>>
      \/ /\ CommitLib(lib) \/ (base' = Max({base, lib}) /\ log' = log)
         /\ chain' = Append(chain, b) \/ (chain' = chain /\ lib <= Len(chain))
  <2>1. CASE ApplyBlock(b, lib)
    BY <2>1, Zenon DEF ApplyBlock
  <2>2. CASE FailToApply(b, lib)
    <3>1. ~ (lib > Len(chain)) => lib <= Len(chain)
      BY <1>1
    <3> QED BY <2>2, <3>1 DEF FailToApply
  <2> QED BY <2>1, <2>2
<1>6. ForkTyped(ForkAfter(b, lib))
  <2>1. Len(chain) + 1 - lib + 1 \in Nat
    BY <1>1
  <2>2. ForkTyped(SetMaxSize(fork, Len(chain) + 1 - lib + 1))
    BY <2>1, PruneTyped
  <2> QED BY <2>2 DEF ForkAfter, PrunedFork
<1> QED BY <1>3, <1>4, <1>5, <1>6, <1>7

------------------------------------------------------------------------------
(* Every step keeps the shape of the state. *)

LEMMA TypedParts ==
  Typed <=>
    /\ DataTyped /\ ForkTyped(fork)
    /\ pc \in {"idle", "extend", "pop", "apply", "pop_bad", "reapply", "down", "broken"}
    /\ new \in Seq(Blocks) /\ old \in Seq(Blocks) /\ at \in Nat
    /\ clean \in BOOLEAN
    /\ pc = "extend" => Len(new) = 1
    /\ pc \in Switching => Len(new) >= 1 /\ Len(old) >= 1
    /\ pc \in {"pop", "pop_bad"} => at = 1
    /\ pc = "apply" => at \in 1 .. Len(new)
    /\ pc = "reapply" => at \in 1 .. Len(old)
    /\ pc = "down" => fork = EmptyForkDb(DefaultMaxSize)
BY Zenon DEF Typed, DataTyped

(* The node starts in the right shape.                                     *)
LEMMA InitTyped == Init => Typed
<1> SUFFICES ASSUME Init PROVE Typed
  OBVIOUS
<1>1. DataTyped /\ new \in Seq(Blocks) /\ old \in Seq(Blocks) /\ at \in Nat
  BY DEF Init, DataTyped
<1>2. ForkTyped(fork)
  BY EmptyTyped, Constants DEF Init
<1> QED BY <1>1, <1>2 DEF Init, Typed, DataTyped, Switching

(* The call returns.                                                       *)
LEMMA ReturnTyped ==
  ASSUME DataTyped', clean \in BOOLEAN, NEW how, NEW f, ForkTyped(f), Return(how, f)
  PROVE  Typed'
<1>1. fork' = Expire(f, {})
  BY DEF Return
<1>2. ForkTyped(fork)'
  BY <1>1, ExpireTyped DEF ForkTyped, ForkDatabases
<1>3. pc' = "idle" /\ new' = << >> /\ old' = << >> /\ at' = 0 /\ clean' \in BOOLEAN
  BY DEF Return
<1> QED BY <1>2, <1>3 DEF Typed, DataTyped, Switching

(* push_block() up to the applications of blocks.                          *)
LEMMA PushKeeps ==
  ASSUME Typed, NEW b \in Blocks,
         PushRejected(b) \/ PushStored(b) \/ PushExtends(b) \/ PushSwitches(b)
  PROVE  Typed' /\ Stays
<1> DEFINE f == PushItem(fork, b)
<1>1. DataTyped /\ ForkTyped(fork) /\ clean \in BOOLEAN
  BY DEF Typed, DataTyped
<1>2. UNCHANGED <<chain, base, log>>
  BY DEF PushRejected, PushStored, PushExtends, PushSwitches, Deliver
<1>3. DataTyped' /\ Stays
  BY <1>1, <1>2, DataUnchanged
<1>4. ForkTyped(f) /\ f.head \in Blocks
  BY <1>1, PushTyped
<1> HIDE DEF f
<1>5. CASE PushRejected(b)
  BY <1>1, <1>3, <1>5, ReturnTyped DEF PushRejected
<1>6. CASE PushStored(b)
  BY <1>1, <1>3, <1>4, <1>6, ReturnTyped DEF PushStored, f
<1>7. CASE PushExtends(b)
  <2>1. /\ fork' = f /\ pc' = "extend" /\ new' = <<b>> /\ UNCHANGED <<old, at>>
        /\ clean' \in BOOLEAN
    BY <1>7 DEF PushExtends, f
  <2>2. new' \in Seq(Blocks) /\ Len(new') = 1
    BY <2>1
  <2>3. ForkTyped(fork)'
    BY <1>4, <2>1 DEF ForkTyped, ForkDatabases
  <2> QED BY <1>3, <2>1, <2>2, <2>3 DEF Typed, DataTyped, Switching
<1>8. CASE PushSwitches(b)
  <2>1. IF HeadBlock # NONE /\ CanFetchBranches(f, f.head, HeadBlock)
        THEN /\ fork' = f /\ pc' = "pop" /\ at' = 1 /\ UNCHANGED clean
             /\ new' = BranchFrom(f, f.head, HeadBlock)
             /\ old' = BranchFrom(f, HeadBlock, f.head)
        ELSE Return("spoilt", f)
    BY <1>8 DEF PushSwitches, f
  <2>2. CASE HeadBlock # NONE /\ CanFetchBranches(f, f.head, HeadBlock)
    <3>1. HeadBlock \in Blocks /\ f.head \in Blocks
      BY <2>2, <1>4 DEF CanFetchBranches, ForkTyped, ForkDatabases
    <3>2. MeetingHeights(f, f.head, HeadBlock) # {} /\ MeetingHeights(f, HeadBlock, f.head) # {}
      BY <2>2, <3>1, MeetingSymmetric DEF CanFetchBranches
    <3>3. new' \in Seq(Blocks) /\ Len(new') >= 1
      BY <1>4, <2>1, <2>2, <3>1, <3>2, BranchIs
    <3>4. old' \in Seq(Blocks) /\ Len(old') >= 1
      BY <1>4, <2>1, <2>2, <3>1, <3>2, BranchIs
    <3>5. ForkTyped(fork)'
      BY <1>4, <2>1, <2>2 DEF ForkTyped, ForkDatabases
    <3>6. pc' = "pop" /\ at' = 1 /\ clean' \in BOOLEAN
      BY <1>1, <2>1, <2>2
    <3> QED BY <1>3, <3>3, <3>4, <3>5, <3>6 DEF Typed, DataTyped, Switching
  <2>3. CASE ~ (HeadBlock # NONE /\ CanFetchBranches(f, f.head, HeadBlock))
    <3>1. Return("spoilt", f)
      BY <2>1, <2>3
    <3> QED BY <1>1, <1>3, <1>4, <3>1, ReturnTyped
  <2> QED BY <2>2, <2>3
<1> QED BY <1>5, <1>6, <1>7, <1>8

(* The application of the block that extends the chain.                    *)
LEMMA ExtendKeeps ==
  ASSUME Typed, ExtendChain \/ ExtendFails
  PROVE  Typed' /\ Stays
<1> DEFINE b == new[1]
           lib == LibWith(b)
           how == IF Vetoed(b) THEN "spoilt" ELSE "failed"
<1>1. DataTyped /\ ForkTyped(fork) /\ clean \in BOOLEAN /\ pc = "extend"
  BY DEF Typed, DataTyped, ExtendChain, ExtendFails
<1>2. b \in Blocks
  <2>1. Applying(b)
    BY <1>1 DEF Applying
  <2> QED BY <2>1, ApplyingTyped
<1>3. \/ ApplyBlock(b, lib) /\ Return("done", ForkAfter(b, lib))
      \/ FailToApply(b, lib) /\ Return(how, RemoveItems(ForkAfter(b, lib), {b}))
  BY DEF ExtendChain, ExtendFails
<1> HIDE DEF b, lib, how
<1>4. lib = LibWith(b)
  BY DEF lib
<1>5. DataTyped' /\ Stays /\ ForkTyped(ForkAfter(b, lib))
  BY <1>1, <1>2, <1>3, <1>4, ApplyKeeps
<1>6. ForkTyped(RemoveItems(ForkAfter(b, lib), {b}))
  BY <1>5, RemoveTyped
<1> QED BY <1>1, <1>3, <1>5, <1>6, ReturnTyped

(* The pops of both loops.                                                 *)
LEMMA PopKeeps ==
  ASSUME Typed, PopBlock \/ PopThrows \/ PopsDone
  PROVE  Typed' /\ Stays
<1>1. DataTyped /\ ForkTyped(fork) /\ clean \in BOOLEAN /\ pc \in {"pop", "pop_bad"}
  BY DEF Typed, DataTyped, PopBlock, PopThrows, PopsDone
<1>2. CASE PopBlock
  <2>1. /\ chain' = IF Len(chain) > base THEN Front(chain) ELSE chain
        /\ fork' = PopItem(fork) /\ CanPopItem(fork)
        /\ UNCHANGED <<base, log, pc, new, old, at, clean>>
    BY <1>2 DEF PopBlock, CanPop
  <2>2. ForkTyped(fork)'
    BY <1>1, <2>1, PopTyped DEF ForkTyped, ForkDatabases
  <2>3. /\ chain' \in Seq(Blocks) /\ base <= Len(chain') /\ \A i \in 1 .. base : chain'[i] = chain[i]
        /\ base \in Nat /\ Len(chain') \in Nat
    <3>1. chain \in Seq(Blocks) /\ base \in Nat /\ base <= Len(chain) /\ Len(chain) \in Nat
      BY <1>1 DEF DataTyped
    <3>2. CASE Len(chain) > base
      <4>1. chain' = SubSeq(chain, 1, Len(chain) - 1) /\ Len(chain) - 1 \in 0 .. Len(chain)
        BY <2>1, <3>1, <3>2 DEF Front
      <4>2. chain' \in Seq(Blocks) /\ Len(chain') = Len(chain) - 1
            /\ \A i \in 1 .. Len(chain) - 1 : chain'[i] = chain[i]
        BY <3>1, <4>1, StartOf
      <4> QED BY <3>1, <3>2, <4>2
    <3>3. CASE ~ (Len(chain) > base)
      BY <2>1, <3>1, <3>3
    <3> QED BY <3>2, <3>3
  <2>4. IsPrefix(SubSeq(chain, 1, base), chain')
    BY <1>1, <2>3, ChainKeeps
  <2>5. IsPrefix(log, log')
    BY <1>1, <2>1, PrefixOf DEF DataTyped
  <2>6. DataTyped'
    BY <1>1, <2>1, <2>3 DEF DataTyped
  <2>7. Typed'
    <3>1. pc' \in {"pop", "pop_bad"}
      BY <1>1, <2>1
    <3> QED BY <2>1, <2>2, <2>6, <3>1 DEF Typed, DataTyped, Switching
  <2> QED BY <2>4, <2>5, <2>7 DEF Stays
<1>3. CASE PopThrows
  <2>1. Return("spoilt", fork) /\ UNCHANGED <<chain, base, log>>
    BY <1>3, Zenon DEF PopThrows
  <2>2. DataTyped' /\ Stays
    BY <1>1, <2>1, DataUnchanged
  <2> QED BY <1>1, <2>1, <2>2, ReturnTyped
<1>4. CASE PopsDone
  <2>1. /\ pc' = IF pc = "pop" THEN "apply" ELSE "reapply"
        /\ UNCHANGED <<chain, base, log, fork, new, old, at, clean>>
    BY <1>4 DEF PopsDone
  <2>2. DataTyped' /\ Stays
    BY <1>1, <2>1, DataUnchanged
  <2>3. at = 1 /\ Len(new) >= 1 /\ Len(old) >= 1 /\ Len(new) \in Nat /\ Len(old) \in Nat
    BY <1>1 DEF Typed, Switching
  <2>4. at' \in 1 .. Len(new') /\ at' \in 1 .. Len(old') /\ pc' \in {"apply", "reapply"}
    BY <1>1, <2>1, <2>3
  <2> QED BY <2>1, <2>2, <2>3, <2>4 DEF Typed, DataTyped, Switching
<1> QED BY <1>2, <1>3, <1>4

(* The applications of a switch and of the way back from it.               *)
LEMMA SwitchKeeps ==
  ASSUME Typed, ApplyNew \/ ApplyNewFails \/ Reapply \/ ReapplyFails
  PROVE  Typed' /\ Stays
<1>1. DataTyped /\ ForkTyped(fork) /\ clean \in BOOLEAN /\ pc \in {"apply", "reapply"}
      /\ new \in Seq(Blocks) /\ old \in Seq(Blocks) /\ at \in Nat
  BY DEF Typed, DataTyped, ApplyNew, ApplyNewFails, Reapply, ReapplyFails
<1>2. Len(new) >= 1 /\ Len(old) >= 1 /\ Len(new) \in Nat /\ Len(old) \in Nat
  BY <1>1 DEF Typed, Switching
<1>4. CASE ApplyNew
  <2> DEFINE b == new[at]
             lib == LibWith(b)
             f == ForkAfter(b, lib)
  <2>0. pc = "apply" /\ at \in 1 .. Len(new)
    BY <1>4 DEF ApplyNew, Typed
  <2>1. b \in Blocks
    BY <1>1, <2>0, ElementOfSeq
  <2>2. /\ ApplyBlock(b, lib)
        /\ IF at = Len(new)
           THEN Return("done", f)
           ELSE /\ fork' = Expire(f, Held)
                /\ at' = at + 1
                /\ UNCHANGED <<pc, new, old, clean>>
    BY <1>4 DEF ApplyNew
  <2> HIDE DEF b
  <2>3. lib = LibWith(b)
    OBVIOUS
  <2> HIDE DEF lib
  <2>4. DataTyped' /\ Stays /\ ForkTyped(f)
    BY <1>1, <2>1, <2>2, <2>3, ApplyKeeps
  <2> HIDE DEF f
  <2>5. CASE at = Len(new)
    BY <1>1, <2>2, <2>4, <2>5, ReturnTyped
  <2>6. CASE at # Len(new)
    <3>1. fork' = Expire(f, Held) /\ at' = at + 1 /\ UNCHANGED <<pc, new, old, clean>>
      BY <2>2, <2>6
    <3>2. ForkTyped(fork)'
      BY <2>4, <3>1, ExpireTyped DEF ForkTyped, ForkDatabases
    <3>3. at' \in 1 .. Len(new')
      BY <1>2, <2>0, <2>6, <3>1
    <3>4. at' \in Nat /\ pc' = "apply"
      BY <1>1, <2>0, <3>1
    <3> QED BY <1>1, <1>2, <2>4, <3>1, <3>2, <3>3, <3>4 DEF Typed, DataTyped, Switching
  <2> QED BY <2>5, <2>6
<1>5. CASE ApplyNewFails
  <2> DEFINE b == new[at]
             lib == LibWith(b)
             f == RemoveItems(ForkAfter(b, lib), Range(SubSeq(new, at, Len(new))))
  <2>0. pc = "apply" /\ at \in 1 .. Len(new)
    BY <1>5 DEF ApplyNewFails, Typed
  <2>1. b \in Blocks
    BY <1>1, <2>0, ElementOfSeq
  <2>2. /\ FailToApply(b, lib) /\ fork' = SetHead(f, Last(old))
        /\ pc' = "pop_bad" /\ at' = 1 /\ UNCHANGED <<new, old>> /\ clean' \in BOOLEAN
    BY <1>5 DEF ApplyNewFails
  <2> HIDE DEF b
  <2>3. lib = LibWith(b)
    OBVIOUS
  <2> HIDE DEF lib
  <2>4. DataTyped' /\ Stays /\ ForkTyped(ForkAfter(b, lib))
    BY <1>1, <2>1, <2>2, <2>3, ApplyKeeps
  <2>5. ForkTyped(f)
    BY <2>4, RemoveTyped
  <2> HIDE DEF f
  <2>6. Last(old) \in Blocks
    <3>1. Len(old) \in 1 .. Len(old)
      BY <1>2
    <3> QED BY <1>1, <3>1, ElementOfSeq DEF Last
  <2>7. ForkTyped(fork)'
    BY <2>2, <2>5, <2>6, SetHeadTyped DEF ForkTyped, ForkDatabases
  <2> QED BY <1>1, <1>2, <2>2, <2>4, <2>7 DEF Typed, DataTyped, Switching
<1>6. CASE Reapply
  <2> DEFINE b == old[at]
             lib == LibWith(b)
             f == ForkAfter(b, lib)
  <2>0. pc = "reapply" /\ at \in 1 .. Len(old)
    BY <1>6 DEF Reapply, Typed
  <2>1. b \in Blocks
    BY <1>1, <2>0, ElementOfSeq
  <2>2. /\ ApplyBlock(b, lib)
        /\ IF at = Len(old)
           THEN Return("spoilt", f)
           ELSE /\ fork' = Expire(f, Held)
                /\ at' = at + 1
                /\ UNCHANGED <<pc, new, old, clean>>
    BY <1>6 DEF Reapply
  <2> HIDE DEF b
  <2>3. lib = LibWith(b)
    OBVIOUS
  <2> HIDE DEF lib
  <2>4. DataTyped' /\ Stays /\ ForkTyped(f)
    BY <1>1, <2>1, <2>2, <2>3, ApplyKeeps
  <2> HIDE DEF f
  <2>5. CASE at = Len(old)
    BY <1>1, <2>2, <2>4, <2>5, ReturnTyped
  <2>6. CASE at # Len(old)
    <3>1. fork' = Expire(f, Held) /\ at' = at + 1 /\ UNCHANGED <<pc, new, old, clean>>
      BY <2>2, <2>6
    <3>2. ForkTyped(fork)'
      BY <2>4, <3>1, ExpireTyped DEF ForkTyped, ForkDatabases
    <3>3. at' \in 1 .. Len(old')
      BY <1>2, <2>0, <2>6, <3>1
    <3>4. at' \in Nat /\ pc' = "reapply"
      BY <1>1, <2>0, <3>1
    <3> QED BY <1>1, <1>2, <2>4, <3>1, <3>2, <3>3, <3>4 DEF Typed, DataTyped, Switching
  <2> QED BY <2>5, <2>6
<1>7. CASE ReapplyFails
  <2> DEFINE b == old[at]
             lib == LibWith(b)
             f == ForkAfter(b, lib)
  <2>0. pc = "reapply" /\ at \in 1 .. Len(old)
    BY <1>7 DEF ReapplyFails, Typed
  <2>1. b \in Blocks
    BY <1>1, <2>0, ElementOfSeq
  <2>2. FailToApply(b, lib) /\ Return("spoilt", f)
    BY <1>7 DEF ReapplyFails
  <2> HIDE DEF b
  <2>3. lib = LibWith(b)
    OBVIOUS
  <2> HIDE DEF lib
  <2>4. DataTyped' /\ Stays /\ ForkTyped(f)
    BY <1>1, <2>1, <2>2, <2>3, ApplyKeeps
  <2> HIDE DEF f
  <2> QED BY <1>1, <2>2, <2>4, ReturnTyped
<1> QED BY <1>4, <1>5, <1>6, <1>7

(* The end of the process, and its next start.                             *)
LEMMA DownTyped ==
  ASSUME DataTyped', Down
  PROVE  Typed'
<1>1. /\ pc' = "down" /\ new' = << >> /\ old' = << >> /\ at' = 0
      /\ fork' = EmptyForkDb(DefaultMaxSize) /\ clean' \in BOOLEAN
  BY DEF Down, Tidy
<1>2. ForkTyped(fork)'
  BY <1>1, EmptyTyped, Constants DEF ForkTyped, ForkDatabases
<1> QED BY <1>1, <1>2 DEF Typed, DataTyped, Switching

(* A stop or a crash keeps what is on disk.                                *)
LEMMA CrashKeeps ==
  ASSUME Typed, Stop \/ \E b \in Blocks : CrashInCommit(b)
  PROVE  Typed' /\ Stays
<1>1. DataTyped /\ ForkTyped(fork)
  BY DEF Typed, DataTyped
<1>2. CASE Stop
  <2>1. Down /\ UNCHANGED <<chain, base, log>>
    BY <1>2, Zenon DEF Stop
  <2>2. DataTyped' /\ Stays
    BY <1>1, <2>1, DataUnchanged
  <2> QED BY <2>1, <2>2, DownTyped
<1>3. ASSUME NEW b \in Blocks, CrashInCommit(b) PROVE Typed' /\ Stays
  <2> DEFINE lib == LibWith(b)
  <2>1. lib \in Nat /\ Len(chain) \in Nat
    BY <1>1, LibWithIs DEF DataTyped
  <2>2. PICK k \in 0 .. Len(Appended(lib)) : log' = log \o SubSeq(Appended(lib), 1, k)
    BY <1>3 DEF CrashInCommit
  <2>3. /\ base' = Max({base, lib}) /\ Down
        /\ chain' = IF lib > Len(chain) THEN Append(chain, b) ELSE chain
    BY <1>3 DEF CrashInCommit
  <2>4. lib = LibWith(b)
    OBVIOUS
  <2> HIDE DEF lib
  <2>5. chain' = Append(chain, b) \/ (chain' = chain /\ lib <= Len(chain))
    BY <2>1, <2>3
  <2>6. DataTyped' /\ Stays
    BY <1>1, <2>2, <2>3, <2>4, <2>5, CommitKeeps
  <2> QED BY <2>3, <2>6, DownTyped
<1> QED BY <1>2, <1>3

(* open(), reindex() and a resync keep the log, and the chain or the log.  *)
LEMMA StartKeeps ==
  ASSUME Typed, Open \/ Reindex \/ Resync
  PROVE  Typed' /\ Stays
<1>1. /\ DataTyped /\ ForkTyped(fork) /\ clean \in BOOLEAN /\ pc = "down"
      /\ new \in Seq(Blocks) /\ old \in Seq(Blocks) /\ at \in Nat
      /\ fork = EmptyForkDb(DefaultMaxSize) /\ DefaultMaxSize \in Nat
  BY Constants DEF Typed, DataTyped, Open, Reindex, Resync, Started
<1>2. pc' = "idle" /\ UNCHANGED <<new, old, at, clean>>
  BY Zenon DEF Open, Reindex, Resync, Started
<1>3. ASSUME DataTyped', ForkTyped(fork)' PROVE Typed'
  BY <1>1, <1>2, <1>3 DEF Typed, DataTyped, Switching
<1>4. /\ chain \in Seq(Blocks) /\ base \in Nat /\ base <= Len(chain) /\ base \in 0 .. Len(chain)
      /\ log \in Seq(Blocks) /\ Len(log) \in Nat
  BY <1>1 DEF DataTyped
<1>5. ASSUME log' = log PROVE IsPrefix(log, log')
  BY <1>4, <1>5, PrefixOf
<1>6. CASE Open
  <2>1. /\ chain' = SubSeq(chain, 1, base) /\ UNCHANGED <<base, log>>
        /\ fork' = IF base = 0 THEN fork ELSE StartBlock(fork, chain[base])
    BY <1>6 DEF Open
  <2>2. chain' \in Seq(Blocks) /\ Len(chain') = base /\ \A i \in 1 .. base : chain'[i] = chain[i]
    BY <1>4, <2>1, StartOf
  <2>3. DataTyped'
    BY <1>4, <2>1, <2>2 DEF DataTyped
  <2>4. ForkTyped(fork)'
    <3>1. CASE base = 0
      BY <1>1, <2>1, <3>1 DEF ForkTyped, ForkDatabases
    <3>2. CASE base # 0
      <4>1. chain[base] \in Blocks
        BY <1>4, <3>2, ElementOfSeq
      <4> QED BY <1>1, <2>1, <3>2, <4>1, StartTyped DEF ForkTyped, ForkDatabases
    <3> QED BY <3>1, <3>2
  <2>5. IsPrefix(SubSeq(chain, 1, base), chain')
    BY <1>1, <1>4, <2>2, ChainKeeps
  <2> QED BY <1>3, <1>5, <2>1, <2>3, <2>4, <2>5 DEF Stays
<1>7. CASE Reindex
  <2>1. /\ chain' = log /\ base' = Len(log) /\ log' = log /\ log # << >>
        /\ fork' = StartBlock(EmptyForkDb(Len(log) - Lib(log) + 1), Last(log))
    BY <1>7 DEF Reindex
  <2>2. DataTyped'
    BY <1>4, <2>1 DEF DataTyped
  <2>3. Len(log) - Lib(log) + 1 \in Nat
    <3>1. Lib(log) \in 0 .. Len(log)
      BY <1>4, LibWithin
    <3> QED BY <1>4, <3>1
  <2>4. Last(log) \in Blocks
    <3>1. Len(log) \in 1 .. Len(log)
      BY <1>4, <2>1
    <3> QED BY <1>4, <3>1, ElementOfSeq DEF Last
  <2>5. ForkTyped(fork)'
    BY <2>1, <2>3, <2>4, StartTyped DEF ForkTyped, ForkDatabases
  <2>6. chain' = SubSeq(log, 1, base')
    BY <1>4, <2>1
  <2> QED BY <1>1, <1>3, <1>5, <2>1, <2>2, <2>5, <2>6 DEF Stays
<1>8. CASE Resync
  <2>1. chain' = << >> /\ base' = 0 /\ log = << >> /\ UNCHANGED <<log, fork>>
    BY <1>8 DEF Resync
  <2>2. DataTyped'
    BY <1>4, <2>1 DEF DataTyped
  <2>3. ForkTyped(fork)'
    BY <1>1, <2>1 DEF ForkTyped, ForkDatabases
  <2>4. chain' = SubSeq(log, 1, base')
    BY <2>1
  <2> QED BY <1>1, <1>3, <1>5, <2>1, <2>2, <2>3, <2>4 DEF Stays
<1> QED BY <1>6, <1>7, <1>8

(* A replay that does not get to the end of the log leaves a part of it.   *)
LEMMA ThrowKeeps ==
  ASSUME Typed, ReindexThrows
  PROVE  Typed' /\ Stays
<1>1. /\ DataTyped /\ ForkTyped(fork) /\ pc = "down" /\ pc' = "broken"
      /\ UNCHANGED <<log, fork, new, old, at, clean>>
  BY DEF Typed, DataTyped, ReindexThrows
<1>2. PICK n \in 0 .. Len(log) - 1 : chain' = SubSeq(log, 1, n) /\ base' = n
  BY DEF ReindexThrows
<1>3. log \in Seq(Blocks) /\ Len(log) \in Nat
  BY <1>1 DEF DataTyped
<1>4. n \in 0 .. Len(log)
  BY <1>2, <1>3
<1>5. chain' \in Seq(Blocks) /\ Len(chain') = n
  BY <1>2, <1>3, <1>4, StartOf
<1>6. DataTyped'
  BY <1>1, <1>2, <1>3, <1>4, <1>5 DEF DataTyped
<1>7. IsPrefix(log, log')
  BY <1>1, <1>3, PrefixOf
<1>8. ForkTyped(fork)'
  BY <1>1 DEF ForkTyped, ForkDatabases
<1>9. Typed'
  BY <1>1, <1>6, <1>8 DEF Typed, DataTyped, Switching
<1> QED BY <1>1, <1>2, <1>7, <1>9 DEF Stays

(* Every step keeps the shape of the state and what is irreversible.       *)
LEMMA NextKeeps == Typed /\ [Next]_vars => Typed' /\ [Stays]_vars
<1> SUFFICES ASSUME Typed, [Next]_vars PROVE Typed' /\ [Stays]_vars
  OBVIOUS
<1>1. CASE \E b \in Blocks :
             PushRejected(b) \/ PushStored(b) \/ PushExtends(b) \/ PushSwitches(b)
  BY <1>1, PushKeeps
<1>2. CASE Step
  BY <1>2, ExtendKeeps, PopKeeps, SwitchKeeps DEF Step
<1>3. CASE Stop \/ \E b \in Blocks : CrashInCommit(b)
  BY <1>3, CrashKeeps
<1>4. CASE Open \/ Reindex \/ Resync \/ ReindexThrows
  BY <1>4, StartKeeps, ThrowKeeps
<1>5. CASE UNCHANGED vars
  BY <1>5 DEF Typed, vars, ForkTyped, ForkDatabases, Switching
<1>6. Startup => Open \/ Reindex \/ Resync \/ ReindexThrows \/ UNCHANGED vars
  BY Zenon DEF Startup, StartAgain
<1> QED BY <1>1, <1>2, <1>3, <1>4, <1>5, <1>6 DEF Next

(* The state always has its shape.                                         *)
LEMMA AlwaysTyped == Spec => []Typed
<1>1. Typed /\ [Next]_vars => Typed'
  BY NextKeeps
<1> QED BY <1>1, InitTyped, PTL DEF Spec

(* An irreversible block stays, for any blocks, witnesses and limits, and  *)
(* through every failure and crash: nothing leaves the log, and what was   *)
(* committed leaves the chain only when it is rebuilt from the log.        *)
THEOREM IrreversibleBlocksStay == Spec => CommittedStays
<1>1. Typed /\ [Next]_vars => [Stays]_vars
  BY NextKeeps
<1>2. [Stays]_vars =>
        [/\ IsPrefix(log, log')
         /\ \/ IsPrefix(SubSeq(chain, 1, base), chain')
            \/ pc = "down" /\ chain' = SubSeq(log, 1, base')]_vars
  BY DEF Stays
<1> QED BY <1>1, <1>2, AlwaysTyped, PTL DEF Spec, CommittedStays

------------------------------------------------------------------------------
(* The chain, the log and the fork database agree. *)

(* A switch of branches that ends in an exception: it cannot be begun or   *)
(* undone, or the node is back on its old branch.  After one the index may *)
(* have been pruned relative to a fork head far above the chain, and later *)
(* blocks may go to the log that are not the chain's.                      *)
SwitchThrows ==
  \/ PopThrows \/ ReapplyFails
  \/ Reapply /\ pc' = "idle"
  \/ \E b \in Blocks : PushSwitches(b) /\ pc' = "idle"

(* What ends Tidy: that, a veto, or a block of the index that is pushed on *)
(* top of one that failed, and is going to be taken out of the index.      *)
Spoils ==
  \/ SwitchThrows
  \/ \E b \in Blocks : PushExtends(b) /\ b \in fork.index
  \/ ExtendFails /\ Vetoed(new[1])
  \/ ApplyNewFails /\ Vetoed(new[at])

(* The bookkeeping of the two history variables.                           *)
Counted == spoils \in 0 .. MaxSpoils /\ (clean => Tidy)

(* spoils only grows.                                                      *)
LEMMA SpoilCounts ==
  ASSUME spoils \in 0 .. MaxSpoils, NEW bad \in BOOLEAN, Spoil(bad)
  PROVE  spoils' \in 0 .. MaxSpoils /\ (Tidy' => Tidy /\ ~ bad) /\ (~ bad => spoils' = spoils)
<1>1. MaxSpoils \in Nat /\ MaxSpoils >= 1
  BY ChainAssumption
<1>2. CASE bad
  BY <1>1, <1>2 DEF Spoil, Tidy
<1>3. CASE ~ bad
  BY <1>1, <1>3 DEF Spoil, Tidy
<1> QED BY <1>2, <1>3

(* A call that ends as "spoilt" ends Tidy.                                 *)
LEMMA ReturnCounts ==
  ASSUME Counted, NEW how, NEW f, Return(how, f)
  PROVE  Counted' /\ (Tidy' => Tidy /\ how # "spoilt")
<1> DEFINE bad == how = "spoilt"
<1>1. bad \in BOOLEAN /\ Spoil(bad) /\ spoils \in 0 .. MaxSpoils
  BY DEF Return, Counted
<1> HIDE DEF bad
<1>2. spoils' \in 0 .. MaxSpoils /\ (Tidy' => Tidy /\ ~ bad) /\ (~ bad => spoils' = spoils)
  BY <1>1, SpoilCounts
<1>3. clean' => clean /\ how = "done"
  BY DEF Return
<1>4. clean' => Tidy'
  BY <1>2, <1>3 DEF bad, Counted, Tidy
<1> QED BY <1>2, <1>4 DEF bad, Counted

(* Every step counts what spoils.                                          *)
LEMMA NextCounts ==
  ASSUME Counted, [Next]_vars
  PROVE  Counted' /\ (Tidy' => Tidy /\ [Next /\ ~ Spoils]_vars)
<1>0. ASSUME UNCHANGED <<clean, spoils>> PROVE Counted' /\ (Tidy' => Tidy)
  BY <1>0 DEF Counted, Tidy
<1>1. ASSUME Spoils PROVE Counted' /\ ~ Tidy'
  <2>1. CASE \E b \in Blocks : PushSwitches(b) /\ pc' = "idle"
    <3>1. PICK b \in Blocks : PushSwitches(b) /\ pc' = "idle"
      BY <2>1
    <3>2. Return("spoilt", PushItem(fork, b))
      BY <3>1 DEF PushSwitches
    <3> QED BY <3>2, ReturnCounts
  <2>2. CASE PopThrows
    <3>1. Return("spoilt", fork)
      BY <2>2, Zenon DEF PopThrows
    <3> QED BY <3>1, ReturnCounts
  <2>3. CASE ReapplyFails
    <3>1. Return("spoilt", ForkAfter(old[at], LibWith(old[at])))
      BY <2>3 DEF ReapplyFails
    <3> QED BY <3>1, ReturnCounts
  <2>4. CASE Reapply /\ pc' = "idle"
    <3>1. Return("spoilt", ForkAfter(old[at], LibWith(old[at])))
      BY <2>4 DEF Reapply
    <3> QED BY <3>1, ReturnCounts
  <2>5. CASE ExtendFails /\ Vetoed(new[1])
    <3>1. Return("spoilt", RemoveItems(ForkAfter(new[1], LibWith(new[1])), {new[1]}))
      BY <2>5 DEF ExtendFails
    <3> QED BY <3>1, ReturnCounts
  <2>6. CASE \E b \in Blocks : PushExtends(b) /\ b \in fork.index
    <3>1. Spoil(TRUE) /\ clean' = FALSE
      BY <2>6 DEF PushExtends, Spoil
    <3> QED BY <3>1, SpoilCounts DEF Counted
  <2>7. CASE ApplyNewFails /\ Vetoed(new[at])
    <3>1. Spoil(TRUE) /\ clean' = FALSE
      BY <2>7 DEF ApplyNewFails, Spoil
    <3> QED BY <3>1, SpoilCounts DEF Counted
  <2> QED BY <1>1, <2>1, <2>2, <2>3, <2>4, <2>5, <2>6, <2>7 DEF Spoils, SwitchThrows
<1>2. ASSUME Next, ~ Spoils PROVE Counted' /\ (Tidy' => Tidy)
  <2>0. ASSUME spoils' = spoils, clean' => clean PROVE Counted' /\ (Tidy' => Tidy)
    BY <2>0 DEF Counted, Tidy
  <2>1. ASSUME NEW b \in Blocks, PushRejected(b) PROVE Counted' /\ (Tidy' => Tidy)
    <3>1. Return("done", fork)
      BY <2>1 DEF PushRejected
    <3> QED BY <3>1, ReturnCounts
  <2>2. ASSUME NEW b \in Blocks, PushStored(b) PROVE Counted' /\ (Tidy' => Tidy)
    <3>1. Return("done", PushItem(fork, b))
      BY <2>2 DEF PushStored
    <3> QED BY <3>1, ReturnCounts
  <2>3. ASSUME NEW b \in Blocks, PushExtends(b) PROVE Counted' /\ (Tidy' => Tidy)
    <3>1. b \notin fork.index
      BY <1>2, <2>3 DEF Spoils
    <3>2. spoils' = spoils /\ (clean' => clean)
      BY <2>3, <3>1 DEF PushExtends, Spoil
    <3> QED BY <2>0, <3>2
  <2>4. ASSUME NEW b \in Blocks, PushSwitches(b) PROVE Counted' /\ (Tidy' => Tidy)
    <3>1. pc' # "idle"
      BY <1>2, <2>4 DEF Spoils, SwitchThrows
    <3>2. UNCHANGED <<clean, spoils>>
      BY <2>4, <3>1 DEF PushSwitches, Return
    <3> QED BY <1>0, <3>2
  <2>5. CASE ExtendChain
    <3>1. Return("done", ForkAfter(new[1], LibWith(new[1])))
      BY <2>5 DEF ExtendChain
    <3> QED BY <3>1, ReturnCounts
  <2>6. CASE ExtendFails
    <3>1. PICK how : Return(how, RemoveItems(ForkAfter(new[1], LibWith(new[1])), {new[1]}))
      BY <2>6 DEF ExtendFails
    <3> QED BY <3>1, ReturnCounts
  <2>7. CASE PopBlock \/ PopsDone
    <3>1. UNCHANGED <<clean, spoils>>
      BY <2>7 DEF PopBlock, PopsDone
    <3> QED BY <1>0, <3>1
  <2>8. CASE ApplyNew
    <3>1. Return("done", ForkAfter(new[at], LibWith(new[at]))) \/ UNCHANGED <<clean, spoils>>
      BY <2>8 DEF ApplyNew
    <3> QED BY <1>0, <3>1, ReturnCounts
  <2>9. CASE ApplyNewFails
    <3>1. ~ Vetoed(new[at])
      BY <1>2, <2>9 DEF Spoils
    <3>2. spoils' = spoils /\ (clean' => clean)
      BY <2>9, <3>1 DEF ApplyNewFails, Spoil
    <3> QED BY <2>0, <3>2
  <2>10. CASE Reapply
    <3>1. Return("spoilt", ForkAfter(old[at], LibWith(old[at]))) \/ UNCHANGED <<clean, spoils>>
      BY <2>10 DEF Reapply
    <3> QED BY <1>0, <3>1, ReturnCounts
  <2>11. CASE Stop \/ \E b \in Blocks : CrashInCommit(b)
    <3>1. clean' = Tidy /\ spoils' = spoils
      BY <2>11 DEF Stop, CrashInCommit, Down
    <3> QED BY <3>1 DEF Counted, Tidy
  <2>12. CASE Startup
    <3>1. UNCHANGED <<clean, spoils>>
      BY <2>12 DEF Startup, Open, Reindex, Resync, Started, ReindexThrows, StartAgain, vars
    <3> QED BY <1>0, <3>1
  <2> QED BY <1>2, <2>1, <2>2, <2>3, <2>4, <2>5, <2>6, <2>7, <2>8, <2>9, <2>10, <2>11, <2>12
          DEF Next, Step, Spoils, SwitchThrows
<1>3. CASE UNCHANGED vars
  BY <1>0, <1>3 DEF vars
<1>4. CASE Next
  BY <1>1, <1>2, <1>4
<1> QED BY <1>3, <1>4

(* The blocks are a branch from block 1 on, and applied to the end.        *)
Sound(c) == BranchOf(c) /\ \A i \in 1 .. Len(c) : Fate[c[i]] \in {"ok", "flaky"}

(* What is on disk, in every state.                                        *)
DiskSound ==
  /\ Sound(chain)
  /\ Len(log) <= base
  /\ \A i \in 1 .. Len(log) : log[i] = chain[i]

Top(c) == IF c = << >> THEN NONE ELSE Last(c)

(* The blocks J of the fork database f hold the blocks of the chain c that *)
(* the log of length l does not; they are linked down to the log; none is  *)
(* higher than n.                                                          *)
Kept(J, c, l) == \A n \in l + 1 .. Len(c) : c[n] \in J
HasTop(J, c) == c # << >> => c[Len(c)] \in J
Whole(f, J, l) == \A x \in J : Num[x] >= l + 2 => x \in f.linked /\ Prev[x] \in J
Below(J, n) == \A x \in J : Num[x] <= n

(* The fork database between two calls.  Its head may be a block that      *)
(* extended the chain and failed, which is not in the index any more.      *)
IdleFork(f, c, l) ==
  /\ Kept(f.index, c, l) /\ HasTop(f.index, c)
  /\ Whole(f, f.index, l) /\ Below(f.index, Len(c))
  /\ f.head = NONE => c = << >> /\ f.index = {}
  /\ f.head # NONE =>
       Num[f.head] <= Len(c) \/ (Prev[f.head] = Top(c) /\ (c # << >> => f.anchored))

(* The fork database while b, its newest block, is applied to the chain.   *)
ExtendFork(f, b, c, l) ==
  LET J == f.index \ {b} IN
    /\ Kept(J, c, l) /\ HasTop(J, c) /\ Whole(f, J, l) /\ Below(J, Len(c))
    /\ b \in f.index /\ Num[b] <= Len(c) + 1
    /\ Num[b] >= l + 2 => b \in f.linked /\ Prev[b] \in J
    /\ f.head # NONE /\ Prev[f.head] = Top(c) /\ (c # << >> => f.anchored)

(* The branch s rises from the chain's block m; the chain runs along it.   *)
Rises(s, c, m) ==
  /\ m \in 0 .. Len(c) /\ Len(s) >= 1
  /\ Prev[s[1]] = IF m = 0 THEN NONE ELSE c[m]
  /\ \A i \in 2 .. Len(s) : Prev[s[i]] = s[i - 1]
Along(s, c, m) ==
  Len(c) <= m + Len(s) /\ \A i \in 1 .. Len(s) : m + i <= Len(c) => c[m + i] = s[i]

ForkAt == Num[old[1]] - 1

(* The branches n and o rise from block m, share nothing, n is longer.     *)
Branches(n, o, c, m) ==
  /\ Rises(n, c, m) /\ Rises(o, c, m)
  /\ Len(n) = Len(o) + 1
  /\ \A i \in 1 .. Len(o) : n[i] # o[i]

(* The blocks of s above the log are in the index.                         *)
InIndex(f, s, m, l) == \A i \in 1 .. Len(s) : m + i > l => s[i] \in f.index

(* The fork database while the node switches.                              *)
SwitchFork(f, n, o, c, m, l) ==
  /\ Kept(f.index, c, l) /\ Whole(f, f.index, l)
  /\ InIndex(f, n, m, l) /\ InIndex(f, o, m, l)
  /\ Below(f.index, m + Len(n))

(* The block of a height is in the index if any other block of it is.      *)
Alone(f, n, b) == \A x \in f.index : Num[x] = n => b \in f.index

(* The fork database while the node goes back to its old branch.           *)
BackFork(f, o, c, m, l) ==
  /\ \A n \in l + 1 .. m : Alone(f, n, c[n])
  /\ \A i \in 1 .. Len(o) : m + i > l => Alone(f, m + i, o[i])
  /\ (\E i \in 1 .. Len(o) : f.head = o[i]) \/ (\E i \in 1 .. m : f.head = c[i])

ChainInv ==
  /\ DiskSound
  /\ pc = "idle" => base = Len(log) /\ IdleFork(fork, chain, Len(log))
  /\ pc = "extend" => base = Len(log) /\ ExtendFork(fork, new[1], chain, Len(log))
  /\ pc \in Switching => Branches(new, old, chain, ForkAt)
  /\ pc \in {"pop", "apply"} =>
       base = Len(log) /\ SwitchFork(fork, new, old, chain, ForkAt, Len(log))
  /\ pc = "pop" => /\ Along(old, chain, ForkAt)
                   /\ base > ForkAt \/ fork.head = new[Len(chain) - ForkAt + 1]
  /\ pc = "apply" => /\ Along(new, chain, ForkAt)
                     /\ Len(chain) = ForkAt + at - 1 /\ fork.head = new[1]
  /\ pc \in {"pop_bad", "reapply"} => BackFork(fork, old, chain, ForkAt, Len(log))
  /\ pc = "pop_bad" => Along(new, chain, ForkAt)
  /\ pc = "reapply" => Along(old, chain, ForkAt) /\ Len(chain) = ForkAt + at - 1

(* The head block of a branch has its length as number.                    *)
LEMMA TopIs ==
  ASSUME NEW c \in Seq(Blocks), BranchOf(c)
  PROVE  /\ Len(c) \in Nat
         /\ c = << >> <=> Len(c) = 0
         /\ c # << >> => Top(c) = c[Len(c)] /\ Top(c) \in Blocks /\ Num[Top(c)] = Len(c)
         /\ c = << >> => Top(c) = NONE
         /\ Top(c) = NONE <=> c = << >>
         /\ \A b \in Blocks : Prev[b] = Top(c) => Num[b] = Len(c) + 1
<1>1. Len(c) \in Nat /\ (c = << >> <=> Len(c) = 0)
  OBVIOUS
<1>2. ASSUME c # << >> PROVE Top(c) = c[Len(c)] /\ Top(c) \in Blocks /\ Num[Top(c)] = Len(c)
  <2>1. Len(c) \in 1 .. Len(c)
    BY <1>1, <1>2
  <2> QED BY <1>2, <2>1, BranchNums DEF Top, Last
<1>3. c = << >> => Top(c) = NONE
  BY DEF Top
<1>4. ASSUME NEW b \in Blocks, Prev[b] = Top(c) PROVE Num[b] = Len(c) + 1
  <2>1. CASE c = << >>
    BY <1>1, <1>3, <1>4, <2>1, Constants
  <2>2. CASE c # << >>
    BY <1>1, <1>2, <1>4, <2>2, Constants
  <2> QED BY <2>1, <2>2
<1> QED BY <1>1, <1>2, <1>3, <1>4, Constants

(* A branch together with the part of the chain it rises from.             *)
Path(s, c, m) == [n \in 1 .. m + Len(s) |-> IF n <= m THEN c[n] ELSE s[n - m]]

(* It is a branch itself, numbered through.                                *)
LEMMA PathIs ==
  ASSUME NEW c \in Seq(Blocks), BranchOf(c), NEW s \in Seq(Blocks), NEW m, Rises(s, c, m),
         NEW p, p = Path(s, c, m)
  PROVE  /\ m \in Nat /\ m <= Len(c) /\ Len(c) \in Nat /\ Len(s) \in Nat /\ Len(s) >= 1
         /\ p \in Seq(Blocks) /\ Len(p) = m + Len(s)
         /\ BranchOf(p)
         /\ \A n \in 1 .. m : p[n] = c[n]
         /\ \A i \in 1 .. Len(s) : p[m + i] = s[i]
         /\ \A i \in 1 .. Len(s) : s[i] \in Blocks /\ Num[s[i]] = m + i
<1>1. m \in Nat /\ m <= Len(c) /\ Len(c) \in Nat /\ Len(s) \in Nat /\ Len(s) >= 1
  BY DEF Rises
<1>2. \A n \in 1 .. Len(c) : c[n] \in Blocks
  BY ElementOfSeq
<1>3. \A i \in 1 .. Len(s) : s[i] \in Blocks
  BY ElementOfSeq
<1>4. \A n \in 1 .. m + Len(s) : n <= m => n \in 1 .. Len(c)
  BY <1>1
<1>5. \A n \in 1 .. m + Len(s) : ~ (n <= m) => n - m \in 1 .. Len(s)
  BY <1>1
<1>6. \A n \in 1 .. m + Len(s) : (IF n <= m THEN c[n] ELSE s[n - m]) \in Blocks
  BY <1>2, <1>3, <1>4, <1>5
<1>7. m + Len(s) \in Nat
  BY <1>1
<1>8. p \in Seq(Blocks) /\ Len(p) = m + Len(s)
      /\ \A n \in 1 .. m + Len(s) : p[n] = IF n <= m THEN c[n] ELSE s[n - m]
  <2> DEFINE q == [n \in 1 .. m + Len(s) |-> IF n <= m THEN c[n] ELSE s[n - m]]
  <2>1. p = q
    BY DEF Path
  <2>2. q \in Seq(Blocks) /\ Len(q) = m + Len(s)
        /\ \A n \in 1 .. m + Len(s) : q[n] = IF n <= m THEN c[n] ELSE s[n - m]
    BY <1>6, <1>7
  <2> QED BY <2>1, <2>2
<1>9. \A n \in 1 .. m : p[n] = c[n]
  BY <1>1, <1>8
<1>10. ASSUME NEW i \in 1 .. Len(s) PROVE p[m + i] = s[i]
  <2>1. m + i \in 1 .. m + Len(s) /\ ~ (m + i <= m) /\ (m + i) - m = i
    BY <1>1
  <2> QED BY <1>8, <2>1
<1>11. ASSUME NEW n \in 1 .. Len(p) PROVE Prev[p[n]] = IF n = 1 THEN NONE ELSE p[n - 1]
  <2>1. CASE n <= m
    <3>1. n \in 1 .. Len(c) /\ p[n] = c[n] /\ n \in 1 .. m
      BY <1>1, <1>8, <1>9, <2>1
    <3>2. Prev[c[n]] = IF n = 1 THEN NONE ELSE c[n - 1]
      BY <3>1 DEF BranchOf
    <3>3. n # 1 => n - 1 \in 1 .. m
      BY <1>1, <3>1
    <3> QED BY <1>9, <3>1, <3>2, <3>3
  <2>2. CASE n = m + 1
    <3>1. 1 \in 1 .. Len(s) /\ p[n] = s[1]
      BY <1>1, <1>10, <2>2
    <3>2. Prev[s[1]] = IF m = 0 THEN NONE ELSE c[m]
      BY DEF Rises
    <3>3. m # 0 => m \in 1 .. m /\ n # 1 /\ n - 1 = m
      BY <1>1, <2>2
    <3>4. m = 0 => n = 1
      BY <2>2
    <3> QED BY <1>9, <3>1, <3>2, <3>3, <3>4
  <2>3. CASE n > m + 1
    <3> DEFINE i == n - m
    <3>1. i \in 2 .. Len(s) /\ i \in 1 .. Len(s) /\ i - 1 \in 1 .. Len(s)
          /\ m + i = n /\ m + (i - 1) = n - 1 /\ n # 1
      BY <1>1, <1>8, <2>3
    <3> HIDE DEF i
    <3>2. p[n] = s[i] /\ p[n - 1] = s[i - 1]
      BY <1>10, <3>1
    <3>3. Prev[s[i]] = s[i - 1]
      BY <3>1 DEF Rises
    <3> QED BY <3>1, <3>2, <3>3
  <2>4. n <= m \/ n = m + 1 \/ n > m + 1
    BY <1>1, <1>8
  <2> QED BY <2>1, <2>2, <2>3, <2>4
<1>12. BranchOf(p)
  BY <1>11 DEF BranchOf
<1>13. ASSUME NEW i \in 1 .. Len(s) PROVE s[i] \in Blocks /\ Num[s[i]] = m + i
  <2>1. m + i \in 1 .. Len(p)
    BY <1>1, <1>8
  <2>2. Num[p[m + i]] = m + i
    BY <1>8, <1>12, <2>1, BranchNums
  <2>3. p[m + i] = s[i]
    BY <1>10
  <2> QED BY <1>3, <2>2, <2>3
<1> QED BY <1>1, <1>8, <1>9, <1>10, <1>12, <1>13

------------------------------------------------------------------------------
(* What is written to disk. *)

(* The fork database names no block of another branch.                     *)
FetchSafe ==
  \A n \in Len(log) + 1 .. Len(chain) : FetchOnMainBranch(fork, n) \in {NONE, chain[n]}

(* A branch of applied blocks with one more.                               *)
LEMMA BranchMore ==
  ASSUME NEW c \in Seq(Blocks), NEW F, BranchOf(c), \A i \in 1 .. Len(c) : Fate[c[i]] \in F, NEW b \in Blocks,
         Prev[b] = Top(c), Fate[b] \in F
  PROVE  /\ BranchOf(Append(c, b))
         /\ \A i \in 1 .. Len(Append(c, b)) : Fate[Append(c, b)[i]] \in F
<1> DEFINE d == Append(c, b)
<1>1. d \in Seq(Blocks) /\ Len(d) = Len(c) + 1 /\ d[Len(c) + 1] = b /\ Len(c) \in Nat
      /\ \A i \in 1 .. Len(c) : d[i] = c[i]
  BY OneMore
<1> HIDE DEF d
<1>3. ASSUME NEW i \in 1 .. Len(d)
      PROVE  Prev[d[i]] = (IF i = 1 THEN NONE ELSE d[i - 1]) /\ Fate[d[i]] \in F
  <2>1. CASE i = Len(c) + 1
    <3>1. d[i] = b
      BY <1>1, <2>1
    <3>2. CASE c = << >>
      <4>1. i = 1 /\ Top(c) = NONE
        BY <2>1, <3>2 DEF Top
      <4> QED BY <3>1, <4>1
    <3>3. CASE c # << >>
      <4>1. i # 1 /\ i - 1 = Len(c) /\ Len(c) \in 1 .. Len(c)
        BY <1>1, <2>1, <3>3
      <4>2. Top(c) = c[Len(c)]
        BY <3>3 DEF Top, Last
      <4> QED BY <1>1, <3>1, <4>1, <4>2
    <3> QED BY <3>2, <3>3
  <2>2. CASE i # Len(c) + 1
    <3>1. i \in 1 .. Len(c) /\ (i # 1 => i - 1 \in 1 .. Len(c))
      BY <1>1, <2>2
    <3>2. d[i] = c[i] /\ (i # 1 => d[i - 1] = c[i - 1])
      BY <1>1, <3>1
    <3>3. Prev[c[i]] = IF i = 1 THEN NONE ELSE c[i - 1]
      BY <3>1 DEF BranchOf
    <3> QED BY <3>1, <3>2, <3>3
  <2> QED BY <2>1, <2>2
<1>4. BranchOf(d) /\ \A i \in 1 .. Len(d) : Fate[d[i]] \in F
  BY <1>3 DEF BranchOf
<1> QED BY <1>4 DEF d

(* In particular a sound one stays sound.                                  *)
LEMMA SoundMore ==
  ASSUME NEW c \in Seq(Blocks), Sound(c), NEW b \in Blocks,
         Prev[b] = Top(c), Fate[b] \in {"ok", "flaky"}
  PROVE  Sound(Append(c, b))
BY BranchMore DEF Sound

(* The start of one.                                                       *)
LEMMA BranchStart ==
  ASSUME NEW c \in Seq(Blocks), NEW F, BranchOf(c), \A i \in 1 .. Len(c) : Fate[c[i]] \in F, NEW d \in Seq(Blocks), Len(d) <= Len(c),
         \A i \in 1 .. Len(d) : d[i] = c[i]
  PROVE  BranchOf(d) /\ \A i \in 1 .. Len(d) : Fate[d[i]] \in F
<1>1. Len(d) \in Nat /\ Len(c) \in Nat
  OBVIOUS
<1>2. ASSUME NEW i \in 1 .. Len(d)
      PROVE  Prev[d[i]] = (IF i = 1 THEN NONE ELSE d[i - 1]) /\ Fate[d[i]] \in F
  <2>1. i \in 1 .. Len(c) /\ (i # 1 => i - 1 \in 1 .. Len(d))
    BY <1>1
  <2>2. Prev[c[i]] = (IF i = 1 THEN NONE ELSE c[i - 1]) /\ Fate[c[i]] \in F
    BY <2>1 DEF BranchOf
  <2> QED BY <2>1, <2>2
<1> QED BY <1>2 DEF BranchOf

(* The start of a sound one.                                               *)
LEMMA SoundStart ==
  ASSUME NEW c \in Seq(Blocks), Sound(c), NEW d \in Seq(Blocks), Len(d) <= Len(c),
         \A i \in 1 .. Len(d) : d[i] = c[i]
  PROVE  Sound(d)
BY BranchStart DEF Sound

(* The chain stays sound whatever update_last_irreversible_block() writes, *)
(* all of it or a part.  With two witnesses or more, the block that is     *)
(* being applied is not irreversible yet.                                  *)
LEMMA CommitSound ==
  ASSUME Cardinality(Witnesses) >= 2, Typed, DiskSound, FetchSafe, NEW b \in Blocks,
         NEW lib, lib = LibWith(b), base' = Max({base, lib}),
         chain' = chain \/ (chain' = Append(chain, b) /\ Prev[b] = HeadBlock /\ Fate[b] \in {"ok", "flaky"}),
         NEW k \in 0 .. Len(Appended(lib)), log' = log \o SubSeq(Appended(lib), 1, k)
  PROVE  /\ DiskSound' /\ Len(log') = Len(log) + k
         /\ base = Len(log) /\ LogComplete(lib) /\ k = Len(Appended(lib)) => base' = Len(log')
         /\ LogComplete(lib) /\ k = Len(Appended(lib)) => Len(log') >= lib
<1>1. DataTyped /\ ForkTyped(fork) /\ chain \in Seq(Blocks) /\ log \in Seq(Blocks)
      /\ base \in Nat /\ base <= Len(chain) /\ Len(chain) \in Nat /\ Len(log) \in Nat
  BY DEF Typed, DataTyped
<1>2. lib \in Nat /\ lib <= Len(chain)
  BY <1>1, LibWithIs
<1> DEFINE a == Appended(lib)
           p == SubSeq(a, 1, k)
<1>3. /\ a \in Seq(Blocks) /\ Len(a) \in Nat
      /\ Len(log) + Len(a) <= lib \/ Len(a) = 0
      /\ \A i \in 1 .. Len(a) :
           /\ a[i] = FetchOnMainBranch(fork, Len(log) + i)
           /\ FetchOnMainBranch(fork, Len(log) + i) # NONE
           /\ Len(log) + i \in Len(log) + 1 .. lib
  BY <1>1, <1>2, AppendedIs
<1>4. ASSUME NEW i \in 1 .. Len(a) PROVE a[i] = chain[Len(log) + i]
  <2>1. Len(log) + i \in Len(log) + 1 .. lib
    BY <1>3
  <2>2. Len(log) + i \in Len(log) + 1 .. Len(chain)
    <3> HIDE DEF a
    <3> QED BY <1>1, <1>2, <2>1
  <2> QED BY <1>3, <2>2 DEF FetchSafe
<1>5. LogComplete(lib) => Len(log) + Len(a) >= lib
  BY DEF LogComplete
<1> HIDE DEF a
<1>6. k \in Nat /\ k <= Len(a) /\ k \in 0 .. Len(a)
  BY <1>3 DEF a
<1>7. p \in Seq(Blocks) /\ Len(p) = k /\ \A i \in 1 .. k : p[i] = a[i]
  BY <1>3, <1>6, StartOf
<1>8. log' = log \o p
  BY DEF a
<1> HIDE DEF p
<1>9. /\ log' \in Seq(Blocks) /\ Len(log') = Len(log) + k
      /\ \A i \in 1 .. Len(log) : log'[i] = log[i]
      /\ \A i \in 1 .. k : log'[Len(log) + i] = p[i]
  <2>1. /\ log \o p \in Seq(Blocks) /\ Len(log \o p) = Len(log) + Len(p)
        /\ \A i \in 1 .. Len(log) : (log \o p)[i] = log[i]
        /\ \A i \in 1 .. Len(p) : (log \o p)[Len(log) + i] = p[i]
    <3>1. log \in Seq(Blocks) /\ p \in Seq(Blocks)
      BY <1>1, <1>7
    <3> QED BY <3>1, Concatenated
  <2> QED BY <1>7, <1>8, <2>1
<1>10. /\ chain' \in Seq(Blocks) /\ Len(chain') \in Nat /\ Len(chain') >= Len(chain)
       /\ \A i \in 1 .. Len(chain) : chain'[i] = chain[i]
  <2>1. CASE chain' = chain
    BY <1>1, <2>1
  <2>2. CASE chain' = Append(chain, b)
    <3>1. /\ Append(chain, b) \in Seq(Blocks) /\ Len(Append(chain, b)) = Len(chain) + 1
          /\ \A i \in 1 .. Len(chain) : Append(chain, b)[i] = chain[i]
      BY <1>1, OneMore
    <3> QED BY <1>1, <2>2, <3>1
  <2> QED BY <2>1, <2>2
<1>11. Sound(chain)'
  <2>1. Sound(chain)
    BY DEF DiskSound
  <2>2. HeadBlock = Top(chain)
    BY DEF HeadBlock, Top
  <2>3. Sound(chain')
    BY <1>1, <2>1, <2>2, SoundMore
  <2> QED BY <2>3 DEF Sound, BranchOf
<1>12. base' = IF base >= lib THEN base ELSE lib
  <2>1. Max({base, lib}) = IF base >= lib THEN base ELSE lib
    BY <1>1, <1>2, MaxOfTwo
  <2> QED BY <2>1
<1>13. Len(log) <= base
  BY DEF DiskSound
<1>14. Len(log') <= base'
  BY <1>1, <1>2, <1>3, <1>6, <1>9, <1>12, <1>13
<1>15. ASSUME NEW i \in 1 .. Len(log') PROVE log'[i] = chain'[i]
  <2>1. CASE i <= Len(log)
    <3>1. i \in 1 .. Len(log) /\ i \in 1 .. Len(chain)
      BY <1>1, <1>13, <2>1
    <3> QED BY <1>9, <1>10, <3>1 DEF DiskSound
  <2>2. CASE ~ (i <= Len(log))
    <3> DEFINE j == i - Len(log)
    <3>1. j \in 1 .. k /\ Len(log) + j = i /\ j \in 1 .. Len(a)
      BY <1>1, <1>6, <1>9, <2>2
    <3> HIDE DEF j
    <3>2. log'[i] = chain[i]
      BY <1>4, <1>7, <1>9, <3>1
    <3>3. i \in 1 .. Len(chain)
      <4>1. i \in Len(log) + 1 .. lib
        BY <1>3, <3>1
      <4> QED BY <1>1, <1>2, <4>1
    <3> QED BY <1>10, <3>2, <3>3
  <2> QED BY <2>1, <2>2
<1>16. DiskSound'
  BY <1>11, <1>14, <1>15 DEF DiskSound
<1>17. LogComplete(lib) /\ k = Len(a) => Len(log') >= lib
  BY <1>5, <1>9
<1>18. ASSUME base = Len(log), LogComplete(lib), k = Len(a) PROVE base' = Len(log')
  <2>1. Len(log) + k >= lib /\ (Len(log) + k <= lib \/ k = 0)
    BY <1>3, <1>5, <1>18
  <2>2. Len(log') = Len(log) + k /\ k \in Nat
    BY <1>6, <1>9
  <2>3. CASE k = 0
    <3>1. base >= lib /\ Len(log') = Len(log)
      BY <1>1, <1>18, <2>1, <2>2, <2>3
    <3> QED BY <1>12, <1>18, <3>1
  <2>4. CASE k # 0
    <3>1. Len(log) + k = lib /\ ~ (Len(log) >= lib)
      <4>1. \A x, y, z \in Nat : y # 0 /\ x + y >= z /\ x + y <= z => x + y = z /\ ~ (x >= z)
        OBVIOUS
      <4>2. Len(log) \in Nat /\ lib \in Nat /\ k \in Nat
        BY <1>1, <1>2, <2>2
      <4> QED BY <2>1, <2>4, <4>1, <4>2, Zenon
    <3> QED BY <1>12, <1>18, <2>2, <3>1
  <2> QED BY <2>3, <2>4
<1> QED BY <1>9, <1>16, <1>17, <1>18 DEF a

------------------------------------------------------------------------------
(* What the fork database keeps. *)

(* g is f without the blocks below number h.                               *)
Pruned(f, g, h) ==
  /\ g.linked = f.linked /\ g.head = f.head /\ g.anchored = f.anchored
  /\ g.index = {x \in f.index : Num[x] >= h}

(* apply_block() prunes only what is below the irreversible block, as long *)
(* as the fork head is at most the next block of the chain.                *)
LEMMA ForkAfterIs ==
  ASSUME Typed, NEW b \in Blocks, NEW lib \in Nat, lib <= Len(chain), fork.head # NONE
  PROVE  /\ ForkTyped(ForkAfter(b, lib))
         /\ \E h \in Int :
              /\ Pruned(fork, ForkAfter(b, lib), h)
              /\ Num[fork.head] <= Len(chain) + 1 =>
                   h <= 0 \/ (h < lib /\ Accepts(b) /\ LogComplete(lib))
<1>1. ForkTyped(fork) /\ Len(chain) \in Nat /\ fork.head \in Blocks /\ fork \in ForkDatabases
  BY DEF Typed, ForkTyped, ForkDatabases
<1>2. Num[fork.head] \in Nat /\ \A x \in fork.index : Num[x] \in Nat /\ Num[x] >= 0
  BY <1>1, Constants DEF ForkDatabases
<1> DEFINE size == Len(chain) + 1 - lib + 1
           g == SetMaxSize(fork, size)
<1>3. size \in Nat
  BY <1>1
<1>4. CASE Accepts(b) /\ ~ Vetoed(b) /\ LogComplete(lib)
  <2>1. ForkAfter(b, lib) = g
    BY <1>4 DEF ForkAfter, PrunedFork
  <2> HIDE DEF size
  <2>2. ForkTyped(g) /\ Pruned(fork, g, Num[fork.head] - size)
    BY <1>1, <1>3, PruneTyped DEF Pruned
  <2>3. Num[fork.head] - size \in Int
    BY <1>2, <1>3
  <2>4. Num[fork.head] <= Len(chain) + 1 => Num[fork.head] - size < lib
    BY <1>1, <1>2 DEF size
  <2> QED BY <1>4, <2>1, <2>2, <2>3, <2>4
<1>5. CASE ~ (Accepts(b) /\ ~ Vetoed(b) /\ LogComplete(lib))
  <2>1. ForkAfter(b, lib) = fork
    BY <1>5 DEF ForkAfter, PrunedFork
  <2>2. Pruned(fork, fork, 0)
    BY <1>2 DEF Pruned
  <2> QED BY <1>1, <2>1, <2>2
<1> QED BY <1>4, <1>5

(* Between two calls only the index and _head own blocks.                  *)
LEMMA ExpireIdle ==
  ASSUME NEW f, ForkTyped(f), NEW c \in Seq(Blocks), BranchOf(c), NEW l \in Nat, IdleFork(f, c, l)
  PROVE  IdleFork(Expire(f, {}), c, l)
<1> DEFINE g == Expire(f, {})
<1>1. /\ g.index = f.index /\ g.head = f.head
      /\ g.linked = {b \in f.linked : Prev[b] \in f.index \cup {f.head} \cup {}}
      /\ g.anchored = (f.anchored /\ Prev[f.head] \in f.index \cup {})
  BY ExpireTyped
<1> HIDE DEF g
<1>2. Whole(g, g.index, l)
  BY <1>1 DEF IdleFork, Whole
<1>3. ASSUME Prev[f.head] = Top(c), c # << >> => f.anchored PROVE c # << >> => g.anchored
  <2>1. c # << >> => Top(c) \in f.index
    BY TopIs DEF IdleFork, HasTop
  <2> QED BY <1>1, <1>3, <2>1
<1>4. /\ Kept(g.index, c, l) /\ HasTop(g.index, c) /\ Below(g.index, Len(c))
      /\ g.head = NONE => c = << >> /\ g.index = {}
  BY <1>1 DEF IdleFork
<1>5. g.head # NONE =>
        Num[g.head] <= Len(c) \/ (Prev[g.head] = Top(c) /\ (c # << >> => g.anchored))
  BY <1>1, <1>3 DEF IdleFork
<1> QED BY <1>2, <1>4, <1>5 DEF IdleFork, g

(* The index of a pruned fork database.                                    *)
LEMMA PrunedKeeps ==
  ASSUME NEW f, ForkTyped(f), NEW g, NEW h \in Int, Pruned(f, g, h), NEW b \in f.index
  PROVE  Num[b] \in Nat /\ b \in Blocks /\ (h <= Num[b] => b \in g.index)
<1>1. b \in Blocks
  BY DEF ForkTyped, ForkDatabases
<1>2. Num[b] \in Nat
  BY <1>1, Constants
<1> QED BY <1>1, <1>2 DEF Pruned

(* The block was applied: the fork database is ready for the next call.    *)
LEMMA ExtendedIdle ==
  ASSUME NEW f, ForkTyped(f), NEW g, NEW h \in Int, Pruned(f, g, h),
         NEW c \in Seq(Blocks), BranchOf(c), NEW b \in Blocks, NEW l \in Nat, NEW k \in Nat,
         ExtendFork(f, b, c, l), Prev[b] = Top(c), l <= k, h <= k, h <= Len(c)
  PROVE  IdleFork(g, Append(c, b), k)
<1> DEFINE d == Append(c, b)
           J == f.index \ {b}
<1>1. d \in Seq(Blocks) /\ Len(d) = Len(c) + 1 /\ d[Len(c) + 1] = b /\ Len(c) \in Nat
      /\ \A i \in 1 .. Len(c) : d[i] = c[i]
  BY OneMore
<1>2. d # << >>
  BY <1>1
<1> HIDE DEF d
<1>3. /\ Kept(J, c, l) /\ Whole(f, J, l) /\ Below(J, Len(c)) /\ b \in f.index
      /\ Num[b] >= l + 2 => b \in f.linked /\ Prev[b] \in J
      /\ f.head # NONE /\ Prev[f.head] = Top(c)
  BY DEF ExtendFork
<1> HIDE DEF J
<1>4. Num[b] = Len(c) + 1
  BY TopIs
<1>5. /\ g.linked = f.linked /\ g.head = f.head /\ g.index \subseteq f.index
  BY DEF Pruned
<1>6. ASSUME NEW x \in J PROVE x \in f.index
  BY DEF J
<1>7. \A x \in f.index : x = b \/ x \in J
  BY DEF J
<1>8. b \in g.index
  <2>1. h <= Num[b]
    BY <1>1, <1>4
  <2> QED BY <1>3, <2>1, PrunedKeeps
<1>9. Kept(g.index, d, k)
  <2> SUFFICES ASSUME NEW n \in k + 1 .. Len(d) PROVE d[n] \in g.index
    BY DEF Kept
  <2>1. CASE n = Len(c) + 1
    BY <1>1, <1>8, <2>1
  <2>2. CASE n # Len(c) + 1
    <3>1. n \in l + 1 .. Len(c) /\ n \in 1 .. Len(c) /\ h <= n
      BY <1>1, <2>2
    <3>2. c[n] \in f.index
      BY <1>3, <1>6, <3>1 DEF Kept
    <3>3. Num[c[n]] = n
      BY <3>1, BranchNums
    <3>4. c[n] \in g.index
      BY <3>1, <3>2, <3>3, PrunedKeeps
    <3> QED BY <1>1, <3>1, <3>4
  <2> QED BY <2>1, <2>2
<1>10. HasTop(g.index, d)
  BY <1>1, <1>8 DEF HasTop
<1>11. Whole(g, g.index, k)
  <2> SUFFICES ASSUME NEW x \in g.index, Num[x] >= k + 2 PROVE x \in g.linked /\ Prev[x] \in g.index
    BY DEF Whole
  <2>1. x \in f.index /\ x \in Blocks /\ Num[x] \in Nat
    BY <1>5, PrunedKeeps
  <2>2. Num[x] >= l + 2
    BY <2>1
  <2>3. x \in f.linked /\ Prev[x] \in f.index
    BY <1>3, <1>6, <1>7, <2>1, <2>2 DEF Whole
  <2>4. Num[Prev[x]] = Num[x] - 1
    <3>1. Prev[x] # NONE
      BY <2>3 DEF ForkTyped
    <3> QED BY <2>1, <3>1, Constants
  <2>5. h <= Num[Prev[x]]
    BY <2>1, <2>4
  <2> QED BY <1>5, <2>3, <2>5, PrunedKeeps
<1>12. Below(g.index, Len(d))
  <2> SUFFICES ASSUME NEW x \in g.index PROVE Num[x] <= Len(d)
    BY DEF Below
  <2>1. x \in f.index /\ Num[x] \in Nat
    BY <1>5, PrunedKeeps
  <2>2. x \in J => Num[x] <= Len(c)
    BY <1>3 DEF Below
  <2>3. x = b => Num[x] = Len(c) + 1
    BY <1>4
  <2> QED BY <1>1, <1>7, <2>1, <2>2, <2>3
<1>13. g.head # NONE /\ Num[g.head] <= Len(d)
  <2>1. f.head \in Blocks
    BY <1>3 DEF ForkTyped, ForkDatabases
  <2>2. Num[f.head] = Len(c) + 1
    BY <1>3, <2>1, TopIs
  <2> QED BY <1>1, <1>3, <1>5, <2>2
<1> QED BY <1>9, <1>10, <1>11, <1>12, <1>13 DEF IdleFork, d

(* The block failed: it is taken out again.                                *)
LEMMA FailedIdle ==
  ASSUME NEW f, ForkTyped(f), NEW g, ForkTyped(g), NEW h \in Int, Pruned(f, g, h),
         NEW c \in Seq(Blocks), BranchOf(c), NEW b \in Blocks, NEW l \in Nat, NEW k \in Nat,
         ExtendFork(f, b, c, l), l <= k, h <= k, h <= Len(c)
  PROVE  IdleFork(RemoveItems(g, {b}), c, k)
<1> DEFINE e == RemoveItems(g, {b})
           J == f.index \ {b}
<1>1. /\ e.index = g.index \ {b} /\ e.head = g.head /\ e.linked = g.linked /\ e.anchored = g.anchored
  BY RemoveTyped
<1> HIDE DEF e
<1>2. /\ Kept(J, c, l) /\ HasTop(J, c) /\ Whole(f, J, l) /\ Below(J, Len(c))
      /\ f.head # NONE /\ Prev[f.head] = Top(c) /\ (c # << >> => f.anchored)
  BY DEF ExtendFork
<1>3. /\ e.linked = f.linked /\ e.head = f.head /\ e.anchored = f.anchored
      /\ e.index \subseteq J
  BY <1>1 DEF Pruned
<1>4. ASSUME NEW x \in J, h <= Num[x] PROVE x \in e.index
  <2>1. x \in f.index /\ x # b
    OBVIOUS
  <2> QED BY <1>1, <1>4, <2>1, PrunedKeeps
<1>5. \A x \in J : x \in f.index /\ x \in Blocks /\ Num[x] \in Nat
  BY PrunedKeeps
<1> HIDE DEF J
<1>6. Len(c) \in Nat
  OBVIOUS
<1>7. Kept(e.index, c, k)
  <2> SUFFICES ASSUME NEW n \in k + 1 .. Len(c) PROVE c[n] \in e.index
    BY DEF Kept
  <2>1. n \in l + 1 .. Len(c) /\ n \in 1 .. Len(c) /\ h <= n
    BY <1>6
  <2>2. c[n] \in J /\ Num[c[n]] = n
    BY <1>2, <2>1, BranchNums DEF Kept
  <2> QED BY <1>4, <2>1, <2>2
<1>8. HasTop(e.index, c)
  <2> SUFFICES ASSUME c # << >> PROVE c[Len(c)] \in e.index
    BY DEF HasTop
  <2>1. c[Len(c)] \in J /\ Num[c[Len(c)]] = Len(c)
    BY <1>2, TopIs DEF HasTop
  <2> QED BY <1>4, <2>1
<1>9. Whole(e, e.index, k)
  <2> SUFFICES ASSUME NEW x \in e.index, Num[x] >= k + 2 PROVE x \in e.linked /\ Prev[x] \in e.index
    BY DEF Whole
  <2>1. x \in J /\ x \in Blocks /\ Num[x] \in Nat
    BY <1>3, <1>5
  <2>2. Num[x] >= l + 2
    BY <2>1
  <2>3. x \in f.linked /\ Prev[x] \in J
    BY <1>2, <2>1, <2>2 DEF Whole
  <2>4. Num[Prev[x]] = Num[x] - 1
    <3>1. Prev[x] # NONE
      BY <2>3 DEF ForkTyped
    <3> QED BY <2>1, <3>1, Constants
  <2>5. h <= Num[Prev[x]]
    BY <2>1, <2>4
  <2> QED BY <1>3, <1>4, <2>3, <2>5
<1>10. Below(e.index, Len(c))
  BY <1>2, <1>3 DEF Below
<1> QED BY <1>2, <1>3, <1>7, <1>8, <1>9, <1>10 DEF IdleFork, e

------------------------------------------------------------------------------
(* The blocks that go to the log are the chain's. *)

(* While the chain is extended every block that is not in the log yet is   *)
(* found, whatever other branches the fork database holds.                 *)
LEMMA ExtendFetch ==
  ASSUME Typed, DiskSound, NEW b \in Blocks, ExtendFork(fork, b, chain, Len(log))
  PROVE  \A n \in Len(log) + 1 .. Len(chain) : FetchOnMainBranch(fork, n) = chain[n]
<1> DEFINE s == <<fork.head>>
           m == Len(chain)
           c == Path(s, chain, m)
           J == fork.index \ {b}
<1>1. /\ ForkTyped(fork) /\ chain \in Seq(Blocks) /\ BranchOf(chain) /\ m \in Nat /\ Len(log) \in Nat
  BY DEF Typed, DiskSound, Sound
<1>2. /\ Kept(J, chain, Len(log)) /\ Whole(fork, J, Len(log))
      /\ fork.head # NONE /\ Prev[fork.head] = Top(chain) /\ (chain # << >> => fork.anchored)
  BY DEF ExtendFork
<1>3. fork.head \in Blocks
  BY <1>1, <1>2 DEF ForkTyped, ForkDatabases
<1>4. s \in Seq(Blocks) /\ Len(s) = 1 /\ s[1] = fork.head
  BY <1>3
<1> HIDE DEF s
<1>5. Rises(s, chain, m)
  <2>1. Prev[s[1]] = IF m = 0 THEN NONE ELSE chain[m]
    BY <1>1, <1>2, <1>4, TopIs
  <2>2. 2 .. Len(s) = {}
    BY <1>4
  <2> QED BY <1>1, <1>4, <2>1, <2>2 DEF Rises
<1> HIDE DEF c, m
<1>6. /\ c \in Seq(Blocks) /\ Len(c) = m + 1 /\ BranchOf(c)
      /\ \A n \in 1 .. m : c[n] = chain[n]
      /\ c[m + 1] = fork.head
  <2>1. chain \in Seq(Blocks) /\ BranchOf(chain) /\ s \in Seq(Blocks) /\ c = Path(s, chain, m)
    BY <1>1, <1>4 DEF c
  <2>2. /\ m \in Nat /\ c \in Seq(Blocks) /\ Len(c) = m + Len(s) /\ BranchOf(c)
        /\ \A n \in 1 .. m : c[n] = chain[n]
        /\ \A i \in 1 .. Len(s) : c[m + i] = s[i]
    BY <1>5, <2>1, PathIs
  <2>3. 1 \in 1 .. Len(s)
    BY <1>4
  <2> QED BY <1>4, <2>2, <2>3
<1> USE DEF m
<1>7. ASSUME NEW n \in Len(log) + 1 .. Len(chain) PROVE FetchOnMainBranch(fork, n) = chain[n]
  <2>1. n \in 1 .. m /\ n \in 1 .. Len(c) /\ m + 1 \in 1 .. Len(c) /\ n < m + 1 /\ m >= 1 /\ (m + 1) - 1 = m
    BY <1>1, <1>6
  <2>2. c[n] = chain[n] /\ chain[n] \in J /\ J \subseteq fork.index
    BY <1>2, <1>6, <2>1 DEF Kept
  <2>3. fork.anchored
    BY <1>1, <1>2, <2>1
  <2>4. ASSUME NEW k \in n + 1 .. (m + 1) - 1 PROVE c[k] \in fork.linked
    <3>1. k \in 1 .. m /\ k \in Len(log) + 1 .. Len(chain) /\ k >= Len(log) + 2
      BY <1>1, <2>1
    <3>2. chain[k] \in J /\ Num[chain[k]] = k
      BY <1>1, <1>2, <3>1, BranchNums DEF Kept
    <3>3. chain[k] \in fork.linked
      BY <1>2, <3>1, <3>2 DEF Whole
    <3> QED BY <1>6, <3>1, <3>3
  <2>5. c[n] \in fork.index
    BY <2>2
  <2> HIDE DEF J, m
  <2> QED BY <1>1, <1>6, <2>1, <2>2, <2>3, <2>4, <2>5, FetchOnBranch
<1> QED BY <1>7

(* So all of them are appended.                                            *)
LEMMA ExtendComplete ==
  ASSUME Typed, DiskSound, NEW b \in Blocks, ExtendFork(fork, b, chain, Len(log)),
         NEW lib \in Nat, lib <= Len(chain)
  PROVE  LogComplete(lib) /\ FetchSafe
<1>1. \A n \in Len(log) + 1 .. Len(chain) : FetchOnMainBranch(fork, n) = chain[n]
  BY ExtendFetch
<1>2. ForkTyped(fork) /\ chain \in Seq(Blocks) /\ log \in Seq(Blocks) /\ Len(chain) \in Nat /\ Len(log) \in Nat
  BY DEF Typed
<1>3. ASSUME NEW n \in Len(log) + 1 .. lib PROVE FetchOnMainBranch(fork, n) # NONE
  <2>1. n \in Len(log) + 1 .. Len(chain) /\ n \in 1 .. Len(chain)
    BY <1>2
  <2>2. chain[n] \in Blocks
    BY <1>2, <2>1, ElementOfSeq
  <2> QED BY <1>1, <2>1, <2>2, Constants
<1> QED BY <1>1, <1>2, <1>3, AppendedIs DEF FetchSafe

(* In a switch the fork head is on the branch the chain runs along, and    *)
(* that suffices although the fork head lags behind the chain.             *)
LEMMA AlongFetch ==
  ASSUME Typed, DiskSound, NEW s \in Seq(Blocks), NEW m,
         Rises(s, chain, m), Along(s, chain, m),
         NEW j \in 1 .. m + Len(s), fork.head = Path(s, chain, m)[j],
         \A n \in Len(log) + 1 .. Len(chain) : Alone(fork, n, chain[n])
  PROVE  FetchSafe
<1> DEFINE c == Path(s, chain, m)
<1>1. /\ ForkTyped(fork) /\ chain \in Seq(Blocks) /\ BranchOf(chain) /\ Len(log) \in Nat
  BY DEF Typed, DiskSound, Sound
<1>2. /\ m \in Nat /\ m <= Len(chain) /\ Len(chain) \in Nat /\ Len(s) \in Nat
      /\ c \in Seq(Blocks) /\ Len(c) = m + Len(s) /\ BranchOf(c)
      /\ \A n \in 1 .. m : c[n] = chain[n]
      /\ \A i \in 1 .. Len(s) : c[m + i] = s[i]
  <2>1. c = Path(s, chain, m)
    OBVIOUS
  <2> HIDE DEF c
  <2> QED BY <1>1, <2>1, PathIs
<1>3. fork.head = c[j] /\ j \in 1 .. Len(c)
  BY <1>2
<1> HIDE DEF c
<1>4. ASSUME NEW n \in Len(log) + 1 .. Len(chain)
      PROVE  FetchOnMainBranch(fork, n) \in {NONE, chain[n]}
  <2>1. n \in 1 .. Len(c)
    BY <1>1, <1>2 DEF Along
  <2>2. c[n] = chain[n]
    <3>1. CASE n <= m
      <4>1. n \in 1 .. m
        BY <1>1, <1>2, <3>1
      <4> QED BY <1>2, <4>1
    <3>2. CASE ~ (n <= m)
      <4> DEFINE i == n - m
      <4>1. i \in 1 .. Len(s) /\ m + i = n /\ m + i <= Len(chain)
        BY <1>1, <1>2, <2>1, <3>2
      <4> HIDE DEF i
      <4>2. chain[m + i] = s[i] /\ c[m + i] = s[i]
        BY <1>2, <4>1 DEF Along
      <4> QED BY <4>1, <4>2
    <3> QED BY <3>1, <3>2
  <2>3. \A x \in fork.index : Num[x] = n => c[n] \in fork.index
    BY <2>2 DEF Alone
  <2>4. FetchOnMainBranch(fork, n) \in {NONE, c[n]}
    BY <1>1, <1>2, <1>3, <2>1, <2>3, FetchOnBranch
  <2> QED BY <2>2, <2>4
<1> QED BY <1>4 DEF FetchSafe

(* While a new branch is applied, fetching by number gives its blocks.     *)
LEMMA ApplyFetch ==
  ASSUME Typed, ChainInv, pc = "apply"
  PROVE  FetchSafe
<1>1. /\ DiskSound /\ Branches(new, old, chain, ForkAt) /\ Along(new, chain, ForkAt)
      /\ SwitchFork(fork, new, old, chain, ForkAt, Len(log)) /\ fork.head = new[1]
      /\ new \in Seq(Blocks) /\ chain \in Seq(Blocks) /\ BranchOf(chain)
  BY DEF ChainInv, Typed, DiskSound, Sound, Switching
<1>2. Rises(new, chain, ForkAt)
  BY <1>1 DEF Branches
<1> DEFINE c == Path(new, chain, ForkAt)
<1>0. c = Path(new, chain, ForkAt)
  OBVIOUS
<1> HIDE DEF c
<1>3. ForkAt \in Nat /\ Len(new) \in Nat /\ \A i \in 1 .. Len(new) : c[ForkAt + i] = new[i]
  BY <1>0, <1>1, <1>2, PathIs
<1>4. 1 \in 1 .. Len(new)
  BY <1>2, <1>3 DEF Rises
<1>5. fork.head = c[ForkAt + 1] /\ ForkAt + 1 \in 1 .. ForkAt + Len(new)
  BY <1>1, <1>3, <1>4
<1>6. \A n \in Len(log) + 1 .. Len(chain) : Alone(fork, n, chain[n])
  BY <1>1 DEF SwitchFork, Kept, Alone
<1> QED BY <1>1, <1>2, <1>5, <1>6, AlongFetch DEF c

(* While the old branch is put back, fetching by number gives its blocks.  *)
LEMMA ReapplyFetch ==
  ASSUME Typed, ChainInv, pc = "reapply"
  PROVE  FetchSafe
<1>1. /\ DiskSound /\ Branches(new, old, chain, ForkAt) /\ Along(old, chain, ForkAt)
      /\ BackFork(fork, old, chain, ForkAt, Len(log))
      /\ old \in Seq(Blocks) /\ chain \in Seq(Blocks) /\ BranchOf(chain) /\ Len(log) \in Nat
  BY DEF ChainInv, Typed, DiskSound, Sound, Switching
<1>2. Rises(old, chain, ForkAt)
  BY <1>1 DEF Branches
<1> DEFINE c == Path(old, chain, ForkAt)
<1>0. c = Path(old, chain, ForkAt)
  OBVIOUS
<1> HIDE DEF c
<1>3. /\ ForkAt \in Nat /\ ForkAt <= Len(chain) /\ Len(chain) \in Nat /\ Len(old) \in Nat
      /\ \A n \in 1 .. ForkAt : c[n] = chain[n]
      /\ \A i \in 1 .. Len(old) : c[ForkAt + i] = old[i]
  <2>1. chain \in Seq(Blocks) /\ BranchOf(chain) /\ old \in Seq(Blocks)
    BY <1>1
  <2> QED BY <1>0, <1>2, <2>1, PathIs
<1>4. PICK j \in 1 .. ForkAt + Len(old) : fork.head = c[j]
  <2>1. CASE \E i \in 1 .. Len(old) : fork.head = old[i]
    <3>1. PICK i \in 1 .. Len(old) : fork.head = old[i]
      BY <2>1
    <3>2. ForkAt + i \in 1 .. ForkAt + Len(old) /\ fork.head = c[ForkAt + i]
      BY <1>3, <3>1
    <3> QED BY <3>2
  <2>2. CASE \E i \in 1 .. ForkAt : fork.head = chain[i]
    <3>1. PICK i \in 1 .. ForkAt : fork.head = chain[i]
      BY <2>2
    <3>2. i \in 1 .. ForkAt + Len(old) /\ fork.head = c[i]
      BY <1>3, <3>1
    <3> QED BY <3>2
  <2> QED BY <1>1, <2>1, <2>2 DEF BackFork
<1>5. ASSUME NEW n \in Len(log) + 1 .. Len(chain) PROVE Alone(fork, n, chain[n])
  <2>1. CASE n <= ForkAt
    <3>1. n \in Len(log) + 1 .. ForkAt
      BY <1>1, <1>3, <2>1
    <3> QED BY <1>1, <3>1 DEF BackFork
  <2>2. CASE ~ (n <= ForkAt)
    <3> DEFINE i == n - ForkAt
    <3>1. i \in 1 .. Len(old) /\ ForkAt + i = n /\ ForkAt + i > Len(log) /\ ForkAt + i <= Len(chain)
      BY <1>1, <1>3, <2>2 DEF Along
    <3> HIDE DEF i
    <3>2. chain[ForkAt + i] = old[i]
      BY <1>1, <3>1 DEF Along
    <3>3. Alone(fork, ForkAt + i, old[i])
      BY <1>1, <3>1 DEF BackFork
    <3> QED BY <3>1, <3>2, <3>3
  <2> QED BY <2>1, <2>2
<1> QED BY <1>1, <1>2, <1>4, <1>5, AlongFetch DEF c

------------------------------------------------------------------------------
(* The calls of push_block() that begin and end in one step. *)

(* The invariant of a state that is idle, extending or down.               *)
LEMMA IdleNext ==
  ASSUME pc' = "idle", DiskSound', base' = Len(log'), IdleFork(fork', chain', Len(log'))
  PROVE  ChainInv'
<1>1. IdleFork(fork, chain, Len(log))'
  BY DEF IdleFork, Kept, HasTop, Whole, Below, Top
<1> QED BY <1>1 DEF ChainInv, Switching

(* The invariant in a state that is about to apply one more block.         *)
LEMMA ExtendNext ==
  ASSUME pc' = "extend", DiskSound', base' = Len(log'), ExtendFork(fork', new'[1], chain', Len(log'))
  PROVE  ChainInv'
<1>1. ExtendFork(fork, new[1], chain, Len(log))'
  BY DEF ExtendFork, Kept, HasTop, Whole, Below, Top
<1> QED BY <1>1 DEF ChainInv, Switching

(* The invariant of a process that does not run is about its files.        *)
LEMMA DownNext ==
  ASSUME pc' = "down", DiskSound'
  PROVE  ChainInv'
  BY DEF ChainInv, Switching

(* What leaves the chain and the log alone keeps them sound.               *)
LEMMA DiskStays ==
  ASSUME DiskSound, UNCHANGED <<chain, base, log>>
  PROVE  DiskSound'
  BY DEF DiskSound, Sound, BranchOf

(* What the invariant says of the data.                                    *)
LEMMA InvParts ==
  ASSUME Typed, ChainInv
  PROVE  /\ DiskSound /\ Sound(chain) /\ BranchOf(chain) /\ ForkTyped(fork)
         /\ chain \in Seq(Blocks) /\ log \in Seq(Blocks) /\ new \in Seq(Blocks) /\ old \in Seq(Blocks)
         /\ Len(chain) \in Nat /\ Len(log) \in Nat /\ base \in Nat /\ base <= Len(chain)
         /\ Len(log) <= base /\ HeadBlock = Top(chain)
         /\ \A i \in 1 .. Len(log) : log[i] = chain[i]
         /\ \A i \in 1 .. Len(chain) : chain[i] \in Blocks /\ Num[chain[i]] = i
<1>1. DiskSound /\ Sound(chain) /\ BranchOf(chain) /\ Len(log) <= base
      /\ \A i \in 1 .. Len(log) : log[i] = chain[i]
  BY DEF ChainInv, DiskSound, Sound
<1>2. /\ ForkTyped(fork) /\ chain \in Seq(Blocks) /\ log \in Seq(Blocks)
      /\ new \in Seq(Blocks) /\ old \in Seq(Blocks) /\ base \in 0 .. Len(chain)
  BY DEF Typed
<1>3. Len(chain) \in Nat /\ Len(log) \in Nat /\ base \in Nat /\ base <= Len(chain)
  BY <1>2
<1>4. HeadBlock = Top(chain)
  BY DEF HeadBlock, Top
<1>5. \A i \in 1 .. Len(chain) : chain[i] \in Blocks /\ Num[chain[i]] = i
  BY <1>1, <1>2, BranchNums
<1> QED BY <1>1, <1>2, <1>3, <1>4, <1>5

(* The call ends with a fork database that fits the chain.                 *)
LEMMA ReturnNext ==
  ASSUME NEW ok, NEW f, ForkTyped(f), Return(ok, f), DiskSound', chain' \in Seq(Blocks),
         log' \in Seq(Blocks), base' = Len(log'), IdleFork(f, chain', Len(log'))
  PROVE  ChainInv'
<1>1. pc' = "idle" /\ fork' = Expire(f, {})
  BY DEF Return
<1>2. BranchOf(chain')
  <2>1. BranchOf(chain)'
    BY DEF DiskSound, Sound
  <2> QED BY <2>1 DEF BranchOf
<1>3. Len(log') \in Nat
  OBVIOUS
<1>4. IdleFork(Expire(f, {}), chain', Len(log'))
  BY <1>2, <1>3, ExpireIdle
<1> QED BY <1>1, <1>4, IdleNext

(* The fork database with the block that was pushed.                       *)
LEMMA PushFacts ==
  ASSUME Typed, ChainInv, NEW b \in Blocks, Deliver(b), CanPush(fork, b),
         NEW f, f = PushItem(fork, b)
  PROVE  /\ ForkTyped(f) /\ f.head \in Blocks /\ f.index = fork.index \cup {b}
         /\ base = Len(log)
         /\ Kept(fork.index, chain, Len(log)) /\ HasTop(fork.index, chain)
         /\ Whole(f, fork.index, Len(log)) /\ Below(fork.index, Len(chain))
         /\ fork.head = NONE => chain = << >> /\ fork.index = {} /\ f.head = b
         /\ fork.head # NONE =>
              /\ Num[b] <= Len(chain) + 1
              /\ Num[b] >= Len(log) + 2 => b \in f.linked /\ Prev[b] \in fork.index
              /\ Num[f.head] >= Num[b]
              /\ \/ f.head = b /\ (Prev[b] # NONE => f.anchored)
                 \/ f.head = fork.head /\ f.anchored = fork.anchored
<1>1. pc = "idle"
  BY DEF Deliver
<1>2. base = Len(log) /\ IdleFork(fork, chain, Len(log))
  BY <1>1 DEF ChainInv
<1>3. ForkTyped(fork) /\ Len(chain) \in Nat /\ Len(log) \in Nat /\ Num[b] \in Nat /\ Num[b] >= 1
  BY InvParts, Constants
<1>4. /\ ForkTyped(f) /\ f.head \in Blocks /\ f.index = fork.index \cup {b}
      /\ fork.linked \subseteq f.linked
      /\ fork.head # NONE /\ Prev[b] # NONE /\ b \notin fork.index => b \in f.linked
      /\ fork.head = NONE \/ Num[b] > Num[fork.head] =>
           f.head = b /\ (fork.head # NONE /\ Prev[b] # NONE => f.anchored)
      /\ ~ (fork.head = NONE \/ Num[b] > Num[fork.head]) =>
           f.head = fork.head /\ f.anchored = fork.anchored
  BY <1>1, <1>3, PushTyped
<1>5. /\ Kept(fork.index, chain, Len(log)) /\ HasTop(fork.index, chain)
      /\ Whole(fork, fork.index, Len(log)) /\ Below(fork.index, Len(chain))
      /\ fork.head = NONE => chain = << >> /\ fork.index = {}
  BY <1>2 DEF IdleFork
<1>6. Whole(f, fork.index, Len(log))
  BY <1>4, <1>5 DEF Whole
<1>7. ASSUME fork.head # NONE
      PROVE  /\ Num[b] <= Len(chain) + 1
             /\ Num[b] >= Len(log) + 2 => b \in f.linked /\ Prev[b] \in fork.index
             /\ Num[f.head] >= Num[b]
             /\ \/ f.head = b /\ (Prev[b] # NONE => f.anchored)
                \/ f.head = fork.head /\ f.anchored = fork.anchored
  <2>1. Prev[b] # NONE => Prev[b] \in fork.index
    BY <1>7 DEF CanPush, Unlinkable
  <2>2. Prev[b] = NONE => Num[b] = 1
    BY Constants
  <2>3. Prev[b] # NONE => Prev[b] \in Blocks /\ Num[b] = Num[Prev[b]] + 1 /\ Num[Prev[b]] \in Nat
    BY Constants
  <2>4. Num[b] <= Len(chain) + 1
    <3>1. CASE Prev[b] = NONE
      BY <1>3, <2>2, <3>1
    <3>2. CASE Prev[b] # NONE
      <4>1. Num[Prev[b]] <= Len(chain)
        BY <1>5, <2>1, <3>2 DEF Below
      <4> QED BY <1>3, <2>3, <3>2, <4>1
    <3> QED BY <3>1, <3>2
  <2>5. Num[b] >= Len(log) + 2 => Prev[b] # NONE
    BY <1>3, <2>2
  <2>6. fork.head \in Blocks /\ Num[fork.head] \in Nat
    BY <1>3, <1>7, Constants DEF ForkTyped, ForkDatabases
  <2>7. Num[f.head] >= Num[b]
    BY <1>3, <1>4, <2>6
  <2>8. \/ f.head = b /\ (Prev[b] # NONE => f.anchored)
        \/ f.head = fork.head /\ f.anchored = fork.anchored
    BY <1>4, <1>7, Zenon
  <2>9. Num[b] >= Len(log) + 2 => b \in f.linked /\ Prev[b] \in fork.index
    <3>1. CASE b \in fork.index
      BY <1>6, <3>1 DEF Whole
    <3>2. CASE b \notin fork.index
      BY <1>4, <1>7, <2>1, <2>5, <3>2
    <3> QED BY <3>1, <3>2
  <2> QED BY <2>4, <2>7, <2>8, <2>9
<1> QED BY <1>1, <1>2, <1>4, <1>5, <1>6, <1>7

(* A block that is refused or only stored.                                 *)
LEMMA StoredInv ==
  ASSUME Typed, ChainInv, NEW b \in Blocks, PushRejected(b) \/ PushStored(b)
  PROVE  ChainInv'
<1>1. Deliver(b) /\ UNCHANGED <<chain, base, log>> /\ pc = "idle"
  BY DEF PushRejected, PushStored, Deliver
<1>2. DiskSound' /\ chain' \in Seq(Blocks) /\ log' \in Seq(Blocks) /\ ForkTyped(fork)
  BY <1>1, InvParts, DiskStays
<1>3. base = Len(log) /\ IdleFork(fork, chain, Len(log))
  BY <1>1 DEF ChainInv
<1>4. base' = Len(log')
  BY <1>1, <1>3
<1>5. CASE PushRejected(b)
  <2>1. Return("done", fork)
    BY <1>5 DEF PushRejected
  <2>2. IdleFork(fork, chain', Len(log'))
    BY <1>1, <1>3
  <2> QED BY <1>2, <1>4, <2>1, <2>2, ReturnNext
<1>6. CASE PushStored(b)
  <2> DEFINE f == PushItem(fork, b)
  <2>1. CanPush(fork, b) /\ Num[f.head] <= Len(chain) /\ Return("done", f)
    BY <1>6 DEF PushStored
  <2>2. f = PushItem(fork, b)
    OBVIOUS
  <2> HIDE DEF f
  <2>3. /\ ForkTyped(f) /\ f.head \in Blocks /\ f.index = fork.index \cup {b}
        /\ base = Len(log)
        /\ Kept(fork.index, chain, Len(log)) /\ HasTop(fork.index, chain)
        /\ Whole(f, fork.index, Len(log)) /\ Below(fork.index, Len(chain))
        /\ fork.head = NONE => chain = << >> /\ fork.index = {} /\ f.head = b
        /\ fork.head # NONE =>
             /\ Num[b] <= Len(chain) + 1
             /\ Num[b] >= Len(log) + 2 => b \in f.linked /\ Prev[b] \in fork.index
             /\ Num[f.head] >= Num[b]
    BY <1>1, <2>1, <2>2, PushFacts
  <2>4. Num[b] \in Nat /\ Num[b] >= 1 /\ Num[f.head] \in Nat /\ Len(chain) \in Nat /\ Len(log) \in Nat
    BY <2>3, Constants, InvParts
  <2>5. fork.head # NONE
    <3> SUFFICES ASSUME fork.head = NONE PROVE FALSE
      OBVIOUS
    <3>1. Len(chain) = 0 /\ Num[f.head] = Num[b]
      BY <2>3
    <3> QED BY <2>1, <2>4, <3>1
  <2>6. Num[b] <= Len(chain)
    BY <2>1, <2>3, <2>4, <2>5
  <2>7. Kept(f.index, chain, Len(log)) /\ HasTop(f.index, chain)
    BY <2>3 DEF Kept, HasTop
  <2>8. Whole(f, f.index, Len(log))
    BY <2>3, <2>5 DEF Whole
  <2>9. Below(f.index, Len(chain))
    BY <2>3, <2>6 DEF Below
  <2>10. f.head # NONE
    BY <2>3, Constants
  <2>11. IdleFork(f, chain, Len(log))
    BY <2>1, <2>7, <2>8, <2>9, <2>10 DEF IdleFork
  <2>12. IdleFork(f, chain', Len(log'))
    BY <1>1, <2>11
  <2> QED BY <1>2, <1>4, <2>1, <2>3, <2>12, ReturnNext
<1> QED BY <1>5, <1>6

(* A block that is going to be applied on the chain.                       *)
LEMMA PushExtendsInv ==
  ASSUME Typed, ChainInv, NEW b \in Blocks, PushExtends(b), b \notin fork.index
  PROVE  ChainInv'
<1> DEFINE f == PushItem(fork, b)
<1>1. /\ Deliver(b) /\ UNCHANGED <<chain, base, log>> /\ pc = "idle" /\ CanPush(fork, b)
      /\ Prev[f.head] = HeadBlock /\ fork' = f /\ pc' = "extend" /\ new' = <<b>>
  BY DEF PushExtends, Deliver
<1>2. DiskSound' /\ Len(chain) \in Nat /\ Len(log) \in Nat /\ HeadBlock = Top(chain)
      /\ BranchOf(chain) /\ chain \in Seq(Blocks) /\ Len(log) <= base /\ base <= Len(chain)
  BY <1>1, InvParts, DiskStays
<1>3. base = Len(log) /\ IdleFork(fork, chain, Len(log))
  BY <1>1 DEF ChainInv
<1>4. f = PushItem(fork, b)
  OBVIOUS
<1> HIDE DEF f
<1>5. /\ ForkTyped(f) /\ f.head \in Blocks /\ f.index = fork.index \cup {b}
      /\ base = Len(log)
      /\ Kept(fork.index, chain, Len(log)) /\ HasTop(fork.index, chain)
      /\ Whole(f, fork.index, Len(log)) /\ Below(fork.index, Len(chain))
      /\ fork.head = NONE => chain = << >> /\ fork.index = {} /\ f.head = b
      /\ fork.head # NONE =>
           /\ Num[b] <= Len(chain) + 1
           /\ Num[b] >= Len(log) + 2 => b \in f.linked /\ Prev[b] \in fork.index
           /\ \/ f.head = b /\ (Prev[b] # NONE => f.anchored)
              \/ f.head = fork.head /\ f.anchored = fork.anchored
  BY <1>1, <1>4, PushFacts
<1>6. f.index \ {b} = fork.index /\ b \in f.index /\ f.head # NONE
  BY <1>5, Constants
<1>7. Prev[f.head] = Top(chain)
  BY <1>1, <1>2
<1>8. Num[f.head] = Len(chain) + 1 /\ (chain # << >> => Top(chain) # NONE) /\ (chain = << >> => Len(chain) = 0)
  BY <1>2, <1>5, <1>7, TopIs
<1>9. Num[b] <= Len(chain) + 1 /\ (Num[b] >= Len(log) + 2 => b \in f.linked /\ Prev[b] \in fork.index)
  <2>1. CASE fork.head # NONE
    BY <1>5, <2>1
  <2>2. CASE fork.head = NONE
    <3>1. Num[b] = 1 /\ Len(chain) = 0
      BY <1>5, <1>8, <2>2
    <3> QED BY <1>2, <3>1
  <2> QED BY <2>1, <2>2
<1>10. ASSUME chain # << >> PROVE f.anchored
  <2>1. fork.head # NONE
    BY <1>5, <1>10
  <2>2. CASE f.head = b /\ (Prev[b] # NONE => f.anchored)
    BY <1>7, <1>8, <1>10, <2>2
  <2>3. CASE f.head = fork.head /\ f.anchored = fork.anchored
    <3>1. ~ (Num[fork.head] <= Len(chain))
      BY <1>2, <1>8, <2>3
    <3>2. fork.anchored
      BY <1>3, <1>10, <2>1, <3>1 DEF IdleFork
    <3> QED BY <2>3, <3>2
  <2> QED BY <1>5, <2>1, <2>2, <2>3
<1>11. ExtendFork(f, b, chain, Len(log))
  BY <1>5, <1>6, <1>7, <1>9, <1>10 DEF ExtendFork
<1>12. ExtendFork(fork', new'[1], chain', Len(log'))
  <2>1. new'[1] = b
    BY <1>1
  <2> QED BY <1>1, <1>11, <2>1
<1>13. base' = Len(log')
  BY <1>1, <1>3
<1> QED BY <1>1, <1>2, <1>12, <1>13, ExtendNext

------------------------------------------------------------------------------
(* Switching to a higher branch. *)

(* The branches fetch_branch_from() returns for a block b one higher than  *)
(* the chain c with head o.                                                *)
FetchedBranches(f, c, b, o, s, t) ==
  /\ c # << >> /\ Num[b] = Len(c) + 1 /\ o = Top(c) /\ Prev[b] # o
  /\ MeetingHeights(f, b, o) # {}
  /\ s = BranchFrom(f, b, o) /\ t = BranchFrom(f, o, b)

(* They leave the chain at the same block m, the second is the rest of the *)
(* chain, and they share nothing.                                          *)
LEMMA BranchedAt ==
  ASSUME NEW f, ForkTyped(f), NEW c \in Seq(Blocks), BranchOf(c), NEW b \in Blocks,
         NEW o, NEW s, NEW t, FetchedBranches(f, c, b, o, s, t)
  PROVE  \E m \in Nat :
           /\ m = Num[t[1]] - 1 /\ s \in Seq(Blocks) /\ t \in Seq(Blocks)
           /\ Rises(s, c, m) /\ Rises(t, c, m) /\ Along(t, c, m)
           /\ Len(s) = Len(t) + 1 /\ \A i \in 1 .. Len(t) : s[i] # t[i]
           /\ s[Len(s)] = b /\ m + Len(s) = Len(c) + 1
<1> DEFINE M == MeetingHeights(f, b, o)
           k == Max(M)
           L == Len(c)
           m == k - 1
<1>1. L \in Nat /\ L >= 1 /\ o = c[L] /\ o \in Blocks /\ Num[o] = L /\ L \in 1 .. L
  <2>1. c # << >> /\ o = Top(c)
    BY DEF FetchedBranches
  <2>2. /\ Len(c) \in Nat /\ (c = << >> <=> Len(c) = 0)
        /\ Top(c) = c[Len(c)] /\ Top(c) \in Blocks /\ Num[Top(c)] = Len(c)
    BY <2>1, TopIs
  <2> QED BY <2>1, <2>2
<1>2. MeetingHeights(f, o, b) = M
  BY <1>1, MeetingSymmetric
<1>3. k = Max(M) /\ k = Max(MeetingHeights(f, o, b)) /\ M # {} /\ MeetingHeights(f, o, b) # {}
  BY <1>2 DEF FetchedBranches
<1>0. s = BranchFrom(f, b, o) /\ t = BranchFrom(f, o, b) /\ Prev[b] # o /\ Num[b] = L + 1
  BY DEF FetchedBranches
<1> HIDE DEF k
<1>4. /\ k \in Nat /\ k >= 1 /\ k <= Num[b] /\ k <= Num[o] /\ k \in M
      /\ \A n \in M : n <= k
      /\ s \in Seq(Blocks) /\ Len(s) = Num[b] - k + 1 /\ Len(s) >= 1
      /\ \A i \in 1 .. Len(s) : s[i] = Ancestor(f, b, k + i - 1) /\ Num[s[i]] = k + i - 1
      /\ \A i \in 2 .. Len(s) : Prev[s[i]] = s[i - 1]
      /\ s[Len(s)] = b
  <2>1. b \in Blocks /\ o \in Blocks /\ MeetingHeights(f, b, o) # {}
    BY <1>1, <1>3
  <2>2. k = Max(MeetingHeights(f, b, o)) /\ s = BranchFrom(f, b, o)
    BY <1>0, <1>3
  <2> QED BY <2>1, <2>2, BranchIs
<1>5. /\ t \in Seq(Blocks) /\ Len(t) = Num[o] - k + 1 /\ Len(t) >= 1
      /\ \A i \in 1 .. Len(t) : t[i] = Ancestor(f, o, k + i - 1) /\ Num[t[i]] = k + i - 1
      /\ \A i \in 2 .. Len(t) : Prev[t[i]] = t[i - 1]
      /\ t[Len(t)] = o
  BY <1>0, <1>1, <1>3, BranchIs
<1>6. /\ \A n \in Nat : n \in M => n \in 1 .. Min({Num[b], Num[o]}) /\ Prev[Ancestor(f, b, n)] = Prev[Ancestor(f, o, n)]
      /\ \A n \in 1 .. Min({Num[b], Num[o]}) :
           Ancestor(f, b, n) # NONE /\ Ancestor(f, o, n) # NONE /\ Prev[Ancestor(f, b, n)] = Prev[Ancestor(f, o, n)]
             => n \in M
  BY DEF MeetingHeights
<1> HIDE DEF M, L
<1>7. Min({Num[b], Num[o]}) = L
  <2>1. Num[b] \in Nat /\ Num[o] \in Nat /\ Num[b] = L + 1
    BY <1>0, <1>1
  <2>2. Min({Num[b], Num[o]}) = IF Num[b] <= Num[o] THEN Num[b] ELSE Num[o]
    BY <2>1, MinOfTwo
  <2>3. ~ (Num[b] <= Num[o])
    BY <1>1, <2>1
  <2> QED BY <1>1, <2>2, <2>3
<1>8. Num[b] = L + 1 /\ Len(s) = L - k + 2 /\ Len(t) = L - k + 1 /\ Len(s) = Len(t) + 1
      /\ Len(s) \in Nat /\ Len(t) \in Nat /\ k <= L /\ Len(t) >= 1
  BY <1>0, <1>1, <1>4, <1>5
<1>9. m = k - 1 /\ m \in Nat /\ k = m + 1 /\ m = Num[t[1]] - 1
  <2>1. 1 \in 1 .. Len(t)
    BY <1>8
  <2>2. Num[t[1]] = k + 1 - 1
    BY <1>5, <2>1
  <2> QED BY <1>4, <2>2
<1> HIDE DEF m
<1>10. m <= L /\ m + Len(s) = L + 1 /\ m + Len(t) = L /\ m \in 0 .. L
  <2>1. m \in Nat /\ L \in Nat /\ k = m + 1 /\ k <= L
    BY <1>1, <1>8, <1>9
  <2>2. m <= L /\ m \in 0 .. L
    BY <2>1
  <2>3. Len(s) = L - (m + 1) + 2 /\ Len(t) = L - (m + 1) + 1
    BY <1>8, <2>1
  <2>4. m + Len(s) = L + 1
    BY <2>1, <2>3
  <2>5. m + Len(t) = L
    BY <2>1, <2>3
  <2> QED BY <2>2, <2>4, <2>5
<1>11. ASSUME NEW i \in 1 .. Len(t)
       PROVE  m + i \in 1 .. L /\ t[i] = c[m + i] /\ t[i] = Ancestor(f, o, m + i) /\ t[i] \in Blocks
  <2>0. i \in Nat /\ i >= 1 /\ i <= Len(t) /\ m \in Nat /\ L \in Nat /\ k = m + 1
    BY <1>1, <1>8, <1>9
  <2>1. k + i - 1 = m + i /\ m + i \in 1 .. L /\ m + i \in Nat
    <3>1. k + i - 1 = m + i /\ m + i \in Nat /\ m + i >= 1
      BY <2>0
    <3>2. m + i <= L
      BY <1>8, <1>10, <2>0
    <3> QED BY <2>0, <3>1, <3>2
  <2>2. t[i] = Ancestor(f, o, m + i) /\ t[i] \in Blocks
    BY <1>5, <2>1, ElementOfSeq
  <2>3. Ancestor(f, c[L], m + i) \in {NONE, c[m + i]}
    <3>1. L \in 1 .. Len(c)
      BY <1>1 DEF L
    <3> QED BY <2>1, <3>1, AncestorOnBranch
  <2>4. t[i] # NONE
    BY <2>2, Constants
  <2> QED BY <1>1, <2>1, <2>2, <2>3, <2>4
<1>12. \A i \in 1 .. Len(s) : s[i] = Ancestor(f, b, m + i) /\ s[i] \in Blocks
  <2> SUFFICES ASSUME NEW i \in 1 .. Len(s) PROVE s[i] = Ancestor(f, b, m + i) /\ s[i] \in Blocks
    OBVIOUS
  <2>1. k + i - 1 = m + i
    BY <1>8, <1>9
  <2> QED BY <1>4, <2>1, ElementOfSeq
<1>13. Prev[s[1]] = Prev[t[1]] /\ Prev[t[1]] = IF m = 0 THEN NONE ELSE c[m]
  <2>1. 1 \in 1 .. Len(s) /\ 1 \in 1 .. Len(t) /\ m + 1 \in 1 .. L /\ (m + 1 = 1 <=> m = 0) /\ (m + 1) - 1 = m
    BY <1>1, <1>8, <1>9
  <2>2. s[1] = Ancestor(f, b, k) /\ t[1] = Ancestor(f, o, k) /\ t[1] = c[m + 1]
    BY <1>9, <1>11, <1>12, <2>1
  <2>3. Prev[c[m + 1]] = IF m + 1 = 1 THEN NONE ELSE c[(m + 1) - 1]
    BY <2>1 DEF BranchOf, L
  <2> QED BY <1>4, <1>6, <2>1, <2>2, <2>3
<1>14. Rises(s, c, m) /\ Rises(t, c, m)
  BY <1>4, <1>5, <1>10, <1>13 DEF Rises, L
<1>15. Along(t, c, m)
  BY <1>10, <1>11 DEF Along, L
<1>16. ASSUME NEW i \in 1 .. Len(t), s[i] = t[i] PROVE FALSE
  <2>1. i + 1 \in 2 .. Len(s) /\ i + 1 \in 1 .. Len(s) /\ (i + 1) - 1 = i
    BY <1>8
  <2>2. Prev[s[i + 1]] = s[i]
    BY <1>4, <2>1
  <2>3. CASE i = Len(t)
    <3>1. s[i + 1] = b /\ s[i] = o
      BY <1>4, <1>5, <1>8, <1>16, <2>3
    <3> QED BY <1>0, <2>2, <3>1
  <2>4. CASE i # Len(t)
    <3>1. i + 1 \in 2 .. Len(t) /\ i + 1 \in 1 .. Len(t)
      BY <1>8, <2>4
    <3>2. Prev[t[i + 1]] = t[i]
      BY <1>5, <2>1, <3>1
    <3> DEFINE n == m + (i + 1)
    <3>3. n \in 1 .. L /\ n \in Nat /\ n > k
      <4>1. \A x, y, z \in Nat : y \in 1 .. z /\ y > 1 =>
              x + y \in 1 .. x + z /\ x + y \in Nat /\ x + y > x + 1
        OBVIOUS
      <4>2. i + 1 \in Nat /\ i + 1 > 1 /\ m \in Nat /\ Len(t) \in Nat
        BY <1>8, <1>9, <3>1
      <4> QED BY <1>9, <1>10, <3>1, <4>1, <4>2, Zenon
    <3>4. s[i + 1] = Ancestor(f, b, n) /\ t[i + 1] = Ancestor(f, o, n)
          /\ s[i + 1] # NONE /\ t[i + 1] # NONE
      BY <1>11, <1>12, <2>1, <3>1, Constants
    <3> HIDE DEF n
    <3>5. n \in M
      BY <1>6, <1>7, <1>16, <2>2, <3>2, <3>3, <3>4
    <3>6. n <= k
      BY <1>4, <3>5
    <3> QED BY <1>4, <3>3, <3>6
  <2> QED BY <2>3, <2>4
<1> QED BY <1>4, <1>5, <1>8, <1>9, <1>10, <1>14, <1>15, <1>16 DEF L

(* The invariant of a state in a switch.                                   *)
LEMMA PopNext ==
  ASSUME NEW m, m = Num[old'[1]] - 1, pc' = "pop", DiskSound', base' = Len(log'),
         Branches(new', old', chain', m), Along(old', chain', m),
         SwitchFork(fork', new', old', chain', m, Len(log')),
         base' > m \/ fork'.head = new'[Len(chain') - m + 1]
  PROVE  ChainInv'
<1>1. ForkAt' = m
  BY DEF ForkAt
<1>2. Branches(new, old, chain, ForkAt)' /\ Along(old, chain, ForkAt)'
  BY <1>1 DEF Branches, Rises, Along
<1>3. SwitchFork(fork, new, old, chain, ForkAt, Len(log))'
  BY <1>1 DEF SwitchFork, Kept, Whole, InIndex, Below
<1> QED BY <1>1, <1>2, <1>3 DEF ChainInv, Switching

(* The invariant in a state that applies a new branch.                     *)
LEMMA ApplyNext ==
  ASSUME NEW m, m = Num[old'[1]] - 1, pc' = "apply", DiskSound', base' = Len(log'),
         Branches(new', old', chain', m), Along(new', chain', m),
         SwitchFork(fork', new', old', chain', m, Len(log')),
         Len(chain') = m + at' - 1, fork'.head = new'[1]
  PROVE  ChainInv'
<1>1. ForkAt' = m
  BY DEF ForkAt
<1>2. Branches(new, old, chain, ForkAt)' /\ Along(new, chain, ForkAt)'
  BY <1>1 DEF Branches, Rises, Along
<1>3. SwitchFork(fork, new, old, chain, ForkAt, Len(log))'
  BY <1>1 DEF SwitchFork, Kept, Whole, InIndex, Below
<1> QED BY <1>1, <1>2, <1>3 DEF ChainInv, Switching

(* The invariant in a state that pops a branch that failed.                *)
LEMMA PopBadNext ==
  ASSUME NEW m, m = Num[old'[1]] - 1, pc' = "pop_bad", DiskSound',
         Branches(new', old', chain', m), Along(new', chain', m),
         BackFork(fork', old', chain', m, Len(log'))
  PROVE  ChainInv'
<1>1. ForkAt' = m
  BY DEF ForkAt
<1>2. Branches(new, old, chain, ForkAt)' /\ Along(new, chain, ForkAt)'
  BY <1>1 DEF Branches, Rises, Along
<1>3. BackFork(fork, old, chain, ForkAt, Len(log))'
  BY <1>1 DEF BackFork, Alone
<1> QED BY <1>2, <1>3 DEF ChainInv, Switching

(* The invariant in a state that puts the old branch back.                 *)
LEMMA ReapplyNext ==
  ASSUME NEW m, m = Num[old'[1]] - 1, pc' = "reapply", DiskSound',
         Branches(new', old', chain', m), Along(old', chain', m),
         BackFork(fork', old', chain', m, Len(log')), Len(chain') = m + at' - 1
  PROVE  ChainInv'
<1>1. ForkAt' = m
  BY DEF ForkAt
<1>2. Branches(new, old, chain, ForkAt)' /\ Along(old, chain, ForkAt)'
  BY <1>1 DEF Branches, Rises, Along
<1>3. BackFork(fork, old, chain, ForkAt, Len(log))'
  BY <1>1 DEF BackFork, Alone
<1> QED BY <1>1, <1>2, <1>3 DEF ChainInv, Switching

(* A branch whose last block is in the index is in it down to the log.     *)
LEMMA BranchKept ==
  ASSUME NEW f, ForkTyped(f), NEW c \in Seq(Blocks), BranchOf(c), NEW s \in Seq(Blocks),
         NEW m \in Nat, Rises(s, c, m), NEW l \in Nat, Whole(f, f.index, l), s[Len(s)] \in f.index
  PROVE  InIndex(f, s, m, l)
<1> DEFINE p == Path(s, c, m)
<1>0. p = Path(s, c, m)
  OBVIOUS
<1> HIDE DEF p
<1>1. Len(s) \in Nat /\ Len(s) >= 1 /\ \A i \in 1 .. Len(s) : s[i] \in Blocks /\ Num[s[i]] = m + i
  BY <1>0, PathIs
<1>2. \A i \in 2 .. Len(s) : Prev[s[i]] = s[i - 1]
  BY DEF Rises
<1> DEFINE T == {i \in 1 .. Len(s) : m + i > l /\ s[i] \notin f.index}
<1> SUFFICES ASSUME T # {} PROVE FALSE
  BY DEF InIndex
<1>3. T \in SUBSET (0 .. Len(s))
  OBVIOUS
<1> HIDE DEF T
<1>4. Max(T) \in T /\ \A y \in T : y <= Max(T)
  BY <1>1, <1>3, LargestWithin
<1> DEFINE i == Max(T)
<1>5. i \in 1 .. Len(s) /\ m + i > l /\ s[i] \notin f.index /\ \A y \in T : y <= i
  BY <1>4 DEF T
<1> HIDE DEF i
<1>6. i + 1 \in 2 .. Len(s) /\ i + 1 \in 1 .. Len(s) /\ m + (i + 1) > l /\ m + (i + 1) >= l + 2
      /\ (i + 1) - 1 = i /\ ~ (i + 1 <= i)
  <2>1. i # Len(s)
    BY <1>5
  <2> QED BY <1>1, <1>5, <2>1
<1>7. i + 1 \notin T
  BY <1>5, <1>6
<1>8. s[i + 1] \in f.index
  BY <1>6, <1>7 DEF T
<1>9. Num[s[i + 1]] >= l + 2
  BY <1>1, <1>6
<1>10. Prev[s[i + 1]] \in f.index
  BY <1>8, <1>9 DEF Whole
<1> QED BY <1>2, <1>5, <1>6, <1>10

(* A switch begins.                                                        *)
LEMMA PushSwitchesInv ==
  ASSUME Typed, ChainInv, NEW b \in Blocks, PushSwitches(b), pc' # "idle"
  PROVE  ChainInv'
<1> DEFINE f == PushItem(fork, b)
           o == HeadBlock
           l == Len(log)
<1>1. /\ Deliver(b) /\ UNCHANGED <<chain, base, log>> /\ pc = "idle" /\ CanPush(fork, b)
      /\ Prev[f.head] # HeadBlock /\ Num[f.head] > Len(chain)
      /\ HeadBlock # NONE /\ CanFetchBranches(f, f.head, HeadBlock)
      /\ fork' = f /\ pc' = "pop"
      /\ new' = BranchFrom(f, f.head, HeadBlock) /\ old' = BranchFrom(f, HeadBlock, f.head)
  BY DEF PushSwitches, Deliver, Return
<1>2. DiskSound' /\ Len(chain) \in Nat /\ Len(log) \in Nat /\ HeadBlock = Top(chain) /\ ForkTyped(fork)
      /\ BranchOf(chain) /\ chain \in Seq(Blocks)
      /\ \A i \in 1 .. Len(chain) : chain[i] \in Blocks /\ Num[chain[i]] = i
  BY <1>1, InvParts, DiskStays
<1>3. base = Len(log) /\ IdleFork(fork, chain, Len(log))
  BY <1>1 DEF ChainInv
<1>4. f = PushItem(fork, b)
  OBVIOUS
<1> HIDE DEF f
<1>5. /\ ForkTyped(f) /\ f.head \in Blocks /\ f.index = fork.index \cup {b}
      /\ base = Len(log)
      /\ Kept(fork.index, chain, Len(log)) /\ HasTop(fork.index, chain)
      /\ Whole(f, fork.index, Len(log)) /\ Below(fork.index, Len(chain))
      /\ fork.head = NONE => chain = << >> /\ fork.index = {} /\ f.head = b
      /\ fork.head # NONE =>
           /\ Num[b] <= Len(chain) + 1
           /\ Num[b] >= Len(log) + 2 => b \in f.linked /\ Prev[b] \in fork.index
           /\ \/ f.head = b /\ (Prev[b] # NONE => f.anchored)
              \/ f.head = fork.head /\ f.anchored = fork.anchored
  BY <1>1, <1>4, PushFacts
<1>6. chain # << >> /\ Top(chain) \in Blocks /\ fork.head # NONE
  <2>1. chain # << >>
    BY <1>1, <1>2, TopIs
  <2> QED BY <1>2, <1>5, <2>1, TopIs
<1>7. f.head = b
  <2> SUFFICES ASSUME f.head = fork.head PROVE FALSE
    BY <1>5, <1>6
  <2>1. Num[fork.head] <= Len(chain) \/ Prev[fork.head] = Top(chain)
    BY <1>3, <1>6 DEF IdleFork
  <2>2. Num[f.head] \in Nat
    BY <1>5, Constants
  <2> QED BY <1>1, <1>2, <2>1, <2>2
<1>8. Num[b] = Len(chain) + 1
  <2>1. Num[b] \in Nat
    BY Constants
  <2> QED BY <1>1, <1>2, <1>5, <1>6, <1>7, <2>1
<1>9. FetchedBranches(f, chain, b, o, new', old')
  <2>1. MeetingHeights(f, b, o) # {}
    BY <1>1, <1>7 DEF CanFetchBranches
  <2> QED BY <1>1, <1>2, <1>6, <1>7, <1>8, <2>1 DEF FetchedBranches
<1> HIDE DEF o
<1>10. PICK m \in Nat :
          /\ m = Num[old'[1]] - 1 /\ new' \in Seq(Blocks) /\ old' \in Seq(Blocks)
          /\ Rises(new', chain, m) /\ Rises(old', chain, m) /\ Along(old', chain, m)
          /\ Len(new') = Len(old') + 1 /\ \A i \in 1 .. Len(old') : new'[i] # old'[i]
          /\ new'[Len(new')] = b /\ m + Len(new') = Len(chain) + 1
  BY <1>2, <1>5, <1>9, BranchedAt
<1>11. Branches(new', old', chain', m) /\ Along(old', chain', m)
  BY <1>1, <1>10 DEF Branches
<1>12. Kept(f.index, chain, l)
  BY <1>5 DEF Kept
<1>13. Whole(f, f.index, l)
  BY <1>5, <1>6 DEF Whole
<1>14. InIndex(f, new', m, l)
  <2>1. new'[Len(new')] \in f.index /\ l \in Nat
    BY <1>2, <1>5, <1>10
  <2> HIDE DEF l
  <2> QED BY <1>2, <1>5, <1>10, <1>13, <2>1, BranchKept
<1>15. InIndex(f, old', m, l)
  <2> SUFFICES ASSUME NEW i \in 1 .. Len(old'), m + i > l PROVE old'[i] \in f.index
    BY DEF InIndex
  <2>1. Len(old') \in Nat /\ m + Len(old') = Len(chain)
    BY <1>2, <1>10
  <2>2. m + i <= Len(chain) /\ m + i \in l + 1 .. Len(chain)
    BY <1>2, <2>1
  <2>3. chain[m + i] = old'[i]
    BY <1>10, <2>2 DEF Along
  <2>4. chain[m + i] \in f.index
    BY <1>12, <2>2 DEF Kept
  <2> QED BY <2>3, <2>4
<1>16. Below(f.index, m + Len(new'))
  <2> SUFFICES ASSUME NEW x \in f.index PROVE Num[x] <= Len(chain) + 1
    BY <1>10 DEF Below
  <2>1. x = b \/ x \in fork.index
    BY <1>5
  <2>2. x = b => Num[x] = Len(chain) + 1
    BY <1>8
  <2>3. x \in fork.index => Num[x] <= Len(chain)
    BY <1>5 DEF Below
  <2>4. Num[x] \in Nat
    <3>1. x \in Blocks
      BY <1>5 DEF ForkTyped, ForkDatabases
    <3> QED BY <3>1, Constants
  <2> QED BY <1>2, <2>1, <2>2, <2>3, <2>4
<1>17. SwitchFork(fork', new', old', chain', m, Len(log'))
  <2>1. SwitchFork(f, new', old', chain, m, l)
    BY <1>12, <1>13, <1>14, <1>15, <1>16 DEF SwitchFork
  <2> QED BY <1>1, <2>1
<1>18. fork'.head = new'[Len(chain') - m + 1]
  <2>1. Len(new') \in Nat
    BY <1>10
  <2>2. Len(chain) - m + 1 = Len(new')
    BY <1>2, <1>10, <2>1
  <2> QED BY <1>1, <1>7, <1>10, <2>2
<1>19. base' = Len(log')
  BY <1>1, <1>3
<1>20. m = Num[old'[1]] - 1
  BY <1>10
<1>21. pc' = "pop" /\ DiskSound'
  BY <1>1, <1>2
<1> QED BY <1>11, <1>17, <1>18, <1>19, <1>20, <1>21, PopNext

------------------------------------------------------------------------------
(* Applying a block. *)

(* What apply_block() does to the disk, whether it ends well or not.       *)
LEMMA ApplySound ==
  ASSUME Cardinality(Witnesses) >= 2, Typed, DiskSound, FetchSafe, NEW b \in Blocks,
         NEW lib, lib = LibWith(b), ApplyBlock(b, lib) \/ (FailToApply(b, lib) /\ ~ Vetoed(b))
  PROVE  /\ DiskSound' /\ chain' \in Seq(Blocks) /\ log' \in Seq(Blocks) /\ ForkTyped(ForkAfter(b, lib))
         /\ lib \in Nat /\ lib <= Len(chain) /\ Len(log') \in Nat /\ Len(log) <= Len(log')
         /\ ApplyBlock(b, lib) => Accepts(b) /\ LogComplete(lib) /\ Prev[b] = Top(chain) /\ chain' = Append(chain, b)
         /\ FailToApply(b, lib) => chain' = chain
         /\ Accepts(b) /\ LogComplete(lib) => Len(log') >= lib
         /\ base = Len(log) /\ (Accepts(b) => LogComplete(lib)) => base' = Len(log')
<1>1. DataTyped /\ ForkTyped(fork) /\ Len(log) \in Nat /\ Len(chain) \in Nat
  BY DEF Typed, DataTyped
<1>2. DataTyped' /\ ForkTyped(ForkAfter(b, lib))
  BY <1>1, ApplyKeeps
<1>3. chain' \in Seq(Blocks) /\ log' \in Seq(Blocks) /\ Len(log') \in Nat
  BY <1>2 DEF DataTyped
<1>4. lib \in Nat /\ lib <= Len(chain)
  BY <1>1, LibWithIs
<1>5. HeadBlock = Top(chain)
  BY DEF HeadBlock, Top
<1>6. ApplyBlock(b, lib) =>
        /\ Accepts(b) /\ LogComplete(lib) /\ Prev[b] = Top(chain) /\ chain' = Append(chain, b)
        /\ Fate[b] \in {"ok", "flaky"} /\ CommitLib(lib)
  BY <1>5 DEF ApplyBlock, Accepts
<1>7. /\ FailToApply(b, lib) => chain' = chain
      /\ FailToApply(b, lib) /\ ~ Vetoed(b) /\ Accepts(b) => CommitLib(lib)
  <2>1. ~ (lib > Len(chain))
    BY <1>1, <1>4
  <2> QED BY <2>1 DEF FailToApply
<1>8. CASE Accepts(b)
  <2> DEFINE k == Len(Appended(lib))
  <2>1. CommitLib(lib)
    BY <1>6, <1>7, <1>8
  <2>2. k \in 0 .. Len(Appended(lib)) /\ SubSeq(Appended(lib), 1, k) = Appended(lib)
    BY <1>1, <1>4, WholeOf
  <2>3. base' = Max({base, lib}) /\ log' = log \o SubSeq(Appended(lib), 1, k)
    BY <2>1, <2>2 DEF CommitLib
  <2>4. chain' = chain \/ (chain' = Append(chain, b) /\ Prev[b] = HeadBlock /\ Fate[b] \in {"ok", "flaky"})
    BY <1>5, <1>6, <1>7
  <2>5. k \in Nat /\ k = Len(Appended(lib))
    BY <1>1, <1>4, AppendedIs DEF DataTyped
  <2> HIDE DEF k
  <2>6. /\ DiskSound' /\ Len(log') = Len(log) + k
        /\ base = Len(log) /\ LogComplete(lib) /\ k = Len(Appended(lib)) => base' = Len(log')
        /\ LogComplete(lib) /\ k = Len(Appended(lib)) => Len(log') >= lib
    BY <1>4, <2>2, <2>3, <2>4, CommitSound
  <2>7. Len(log) <= Len(log')
    BY <1>1, <2>5, <2>6
  <2> QED BY <1>2, <1>3, <1>4, <1>6, <1>7, <1>8, <2>5, <2>6, <2>7
<1>9. CASE ~ Accepts(b)
  <2>1. UNCHANGED <<chain, base, log>>
    BY <1>6, <1>9 DEF FailToApply
  <2>2. DiskSound'
    BY <2>1, DiskStays
  <2>3. Len(log) <= Len(log') /\ (base = Len(log) => base' = Len(log'))
    BY <1>1, <2>1
  <2> QED BY <1>2, <1>3, <1>4, <1>6, <1>7, <1>9, <2>2, <2>3
<1> QED BY <1>8, <1>9

(* The pushed block is applied, or it fails.                               *)
LEMMA ExtendInv ==
  ASSUME Cardinality(Witnesses) >= 2, Typed, ChainInv,
         ExtendChain \/ (ExtendFails /\ ~ Vetoed(new[1]))
  PROVE  ChainInv'
<1> DEFINE b == new[1]
           lib == LibWith(b)
           g == ForkAfter(b, lib)
<1>1. pc = "extend"
  BY DEF ExtendChain, ExtendFails
<1>2. \/ ApplyBlock(b, lib) /\ Return("done", g)
      \/ FailToApply(b, lib) /\ ~ Vetoed(b) /\ Return("failed", RemoveItems(g, {b}))
  BY DEF ExtendChain, ExtendFails
<1>3. base = Len(log) /\ ExtendFork(fork, b, chain, Len(log))
  BY <1>1 DEF ChainInv
<1>4. /\ DiskSound /\ chain \in Seq(Blocks) /\ BranchOf(chain) /\ ForkTyped(fork)
      /\ Len(chain) \in Nat /\ Len(log) \in Nat
  BY InvParts
<1>5. b \in Blocks
  <2>1. Applying(b)
    BY <1>1 DEF Applying
  <2> HIDE DEF b
  <2> QED BY <2>1, ApplyingTyped
<1>6. lib = LibWith(b)
  OBVIOUS
<1> HIDE DEF b, lib
<1>7. fork.head # NONE /\ Prev[fork.head] = Top(chain) /\ fork.head \in Blocks
  BY <1>3, <1>4 DEF ExtendFork, ForkTyped, ForkDatabases
<1>8. Num[fork.head] = Len(chain) + 1
  BY <1>4, <1>7, TopIs
<1>9. lib \in Nat /\ lib <= Len(chain)
  <2>1. DataTyped
    BY DEF Typed, DataTyped
  <2> QED BY <1>4, <1>5, <1>6, <2>1, LibWithIs
<1>10. LogComplete(lib) /\ FetchSafe
  BY <1>3, <1>4, <1>5, <1>9, ExtendComplete
<1>11. /\ DiskSound' /\ chain' \in Seq(Blocks) /\ log' \in Seq(Blocks) /\ ForkTyped(g)
       /\ Len(log') \in Nat /\ Len(log) <= Len(log')
       /\ ApplyBlock(b, lib) => Prev[b] = Top(chain) /\ chain' = Append(chain, b)
       /\ FailToApply(b, lib) => chain' = chain
       /\ Accepts(b) /\ LogComplete(lib) => Len(log') >= lib
       /\ base = Len(log) /\ (Accepts(b) => LogComplete(lib)) => base' = Len(log')
  BY <1>2, <1>4, <1>5, <1>6, <1>10, ApplySound
<1>12. base' = Len(log')
  BY <1>3, <1>10, <1>11
<1>13. PICK h \in Int :
         /\ Pruned(fork, g, h)
         /\ Num[fork.head] <= Len(chain) + 1 => h <= 0 \/ (h < lib /\ Accepts(b) /\ LogComplete(lib))
  BY <1>5, <1>7, <1>9, ForkAfterIs
<1> HIDE DEF g
<1>14. h <= Len(log') /\ h <= Len(chain)
  <2>1. h <= 0 \/ (h < lib /\ Len(log') >= lib)
    BY <1>4, <1>8, <1>11, <1>13
  <2>2. \A x, y, z \in Nat : \A w \in Int : z <= y /\ (w <= 0 \/ (w < z /\ x >= z)) => w <= x /\ w <= y
    OBVIOUS
  <2> QED BY <1>4, <1>9, <1>11, <2>1, <2>2, Zenon
<1>15. CASE ApplyBlock(b, lib) /\ Return("done", g)
  <2>1. IdleFork(g, Append(chain, b), Len(log'))
    <3>1. Prev[b] = Top(chain) /\ Pruned(fork, g, h) /\ Len(log') \in Nat /\ Len(log) <= Len(log')
      BY <1>11, <1>13, <1>15
    <3> QED BY <1>3, <1>4, <1>5, <1>14, <3>1, ExtendedIdle
  <2>2. IdleFork(g, chain', Len(log'))
    BY <1>11, <1>15, <2>1
  <2> QED BY <1>11, <1>12, <1>15, <2>2, ReturnNext
<1>16. CASE FailToApply(b, lib) /\ Return("failed", RemoveItems(g, {b}))
  <2> DEFINE e == RemoveItems(g, {b})
  <2>1. IdleFork(e, chain, Len(log'))
    <3>1. Pruned(fork, g, h) /\ Len(log') \in Nat /\ Len(log) <= Len(log') /\ ForkTyped(g)
      BY <1>11, <1>13, <1>16
    <3> QED BY <1>3, <1>4, <1>5, <1>14, <3>1, FailedIdle
  <2>2. ForkTyped(e)
    BY <1>11, RemoveTyped
  <2>3. Return("failed", e)
    BY <1>16
  <2> HIDE DEF e
  <2>4. IdleFork(e, chain', Len(log'))
    BY <1>11, <1>16, <2>1
  <2> QED BY <1>11, <1>12, <2>2, <2>3, <2>4, ReturnNext
<1> QED BY <1>2, <1>15, <1>16

------------------------------------------------------------------------------
(* Going to the other branch, and back. *)

(* The two branches of a switch, as long as it lasts.                      *)
LEMMA SwitchParts ==
  ASSUME Typed, ChainInv, pc \in Switching, NEW m, m = ForkAt
  PROVE  /\ m \in Nat /\ m <= Len(chain) /\ Branches(new, old, chain, m) /\ m = Num[old[1]] - 1
         /\ Len(new) \in Nat /\ Len(old) \in Nat /\ Len(old) >= 1 /\ Len(new) = Len(old) + 1
         /\ Rises(new, chain, m) /\ Rises(old, chain, m)
         /\ \A i \in 1 .. Len(new) : new[i] \in Blocks /\ Num[new[i]] = m + i
         /\ \A i \in 1 .. Len(old) : old[i] \in Blocks /\ Num[old[i]] = m + i /\ new[i] # old[i]
         /\ \A i \in 2 .. Len(new) : Prev[new[i]] = new[i - 1]
         /\ \A i \in 2 .. Len(old) : Prev[old[i]] = old[i - 1]
         /\ ForkPoint = IF m = 0 THEN NONE ELSE chain[m]
<1>1. Branches(new, old, chain, m) /\ m = Num[old[1]] - 1
  BY DEF ChainInv, ForkAt
<1>2. /\ chain \in Seq(Blocks) /\ BranchOf(chain) /\ new \in Seq(Blocks) /\ old \in Seq(Blocks)
  BY InvParts
<1>3. /\ Rises(new, chain, m) /\ Rises(old, chain, m) /\ Len(new) = Len(old) + 1
      /\ \A i \in 1 .. Len(old) : new[i] # old[i]
  BY <1>1 DEF Branches
<1> DEFINE p == Path(new, chain, m)
           q == Path(old, chain, m)
<1>4. p = Path(new, chain, m) /\ q = Path(old, chain, m)
  OBVIOUS
<1> HIDE DEF p, q
<1>5. /\ m \in Nat /\ m <= Len(chain) /\ Len(new) \in Nat
      /\ \A i \in 1 .. Len(new) : new[i] \in Blocks /\ Num[new[i]] = m + i
  BY <1>2, <1>3, <1>4, PathIs
<1>6. /\ Len(old) \in Nat /\ Len(old) >= 1
      /\ \A i \in 1 .. Len(old) : old[i] \in Blocks /\ Num[old[i]] = m + i
  BY <1>2, <1>3, <1>4, PathIs
<1>7. /\ \A i \in 2 .. Len(new) : Prev[new[i]] = new[i - 1]
      /\ \A i \in 2 .. Len(old) : Prev[old[i]] = old[i - 1]
      /\ ForkPoint = IF m = 0 THEN NONE ELSE chain[m]
  BY <1>3 DEF Rises, ForkPoint
<1> QED BY <1>1, <1>3, <1>5, <1>6, <1>7

(* The pops stop where the branches meet.                                  *)
LEMMA AtForkPoint ==
  ASSUME Typed, ChainInv, pc \in Switching, NEW m, m = ForkAt
  PROVE  HeadBlock = ForkPoint <=> Len(chain) = m
<1>1. /\ chain \in Seq(Blocks) /\ BranchOf(chain) /\ Len(chain) \in Nat /\ HeadBlock = Top(chain)
      /\ \A i \in 1 .. Len(chain) : chain[i] \in Blocks /\ Num[chain[i]] = i
  BY InvParts
<1>2. m \in Nat /\ m <= Len(chain) /\ ForkPoint = IF m = 0 THEN NONE ELSE chain[m]
  BY SwitchParts
<1>3. /\ chain = << >> <=> Len(chain) = 0
      /\ chain # << >> => Top(chain) = chain[Len(chain)]
      /\ Top(chain) = NONE <=> chain = << >>
  BY <1>1, TopIs
<1>4. CASE m = 0
  BY <1>1, <1>2, <1>3, <1>4
<1>5. CASE m # 0
  <2>1. m \in 1 .. Len(chain) /\ Len(chain) \in 1 .. Len(chain) /\ chain # << >>
    BY <1>1, <1>2, <1>3, <1>5
  <2>2. Num[chain[m]] = m /\ Num[chain[Len(chain)]] = Len(chain)
    BY <1>1, <2>1
  <2> QED BY <1>1, <1>2, <1>3, <1>5, <2>1, <2>2
<1> QED BY <1>4, <1>5

(* A branch that rises from the chain rises from what is left of it.       *)
LEMMA BranchesStay ==
  ASSUME NEW n, NEW o, NEW c, NEW d, NEW m \in Nat, Branches(n, o, c, m), Len(d) \in Nat,
         m <= Len(d), m # 0 => d[m] = c[m]
  PROVE  Branches(n, o, d, m)
<1>1. m \in 0 .. Len(d)
  OBVIOUS
<1> QED BY <1>1 DEF Branches, Rises

(* pop_block() on the chain.                                               *)
LEMMA PopChain ==
  ASSUME Typed, ChainInv, pc \in Switching, NEW m, m = ForkAt, PopBlock
  PROVE  /\ Len(chain) > m /\ m <= Len(chain') /\ Len(chain') <= Len(chain) /\ Len(chain') \in Nat
         /\ \A i \in 1 .. Len(chain') : chain'[i] = chain[i]
         /\ base <= m => Len(chain') = Len(chain) - 1
         /\ DiskSound' /\ Branches(new, old, chain', m)
         /\ m = Num[old'[1]] - 1 /\ UNCHANGED <<base, log, pc, new, old, at>>
<1>1. /\ chain \in Seq(Blocks) /\ log \in Seq(Blocks) /\ Sound(chain) /\ Len(chain) \in Nat /\ base \in Nat
      /\ base <= Len(chain) /\ Len(log) <= base /\ Len(log) \in Nat
      /\ \A i \in 1 .. Len(log) : log[i] = chain[i]
  BY InvParts
<1>2. m \in Nat /\ m <= Len(chain) /\ Branches(new, old, chain, m) /\ m = Num[old[1]] - 1
  BY SwitchParts
<1>3. /\ HeadBlock # ForkPoint /\ UNCHANGED <<base, log, pc, new, old, at>>
      /\ chain' = IF Len(chain) > base THEN Front(chain) ELSE chain
  BY DEF PopBlock
<1>4. Len(chain) > m
  <2>1. Len(chain) # m
    BY <1>3, AtForkPoint
  <2> QED BY <1>1, <1>2, <2>1
<1>5. /\ chain' \in Seq(Blocks) /\ Len(chain') \in Nat /\ Len(chain') <= Len(chain)
      /\ \A i \in 1 .. Len(chain') : chain'[i] = chain[i]
      /\ base <= Len(chain') /\ m <= Len(chain')
      /\ base <= m => Len(chain') = Len(chain) - 1
  <2>1. CASE Len(chain) > base
    <3> DEFINE n == Len(chain) - 1
    <3>1. n \in 0 .. Len(chain) /\ n \in Nat /\ n <= Len(chain) /\ base <= n /\ m <= n /\ n = Len(chain) - 1
      BY <1>1, <1>2, <1>4, <2>1
    <3>2. chain' = SubSeq(chain, 1, n)
      BY <1>3, <2>1 DEF Front
    <3> HIDE DEF n
    <3>3. /\ SubSeq(chain, 1, n) \in Seq(Blocks) /\ Len(SubSeq(chain, 1, n)) = n
          /\ \A i \in 1 .. n : SubSeq(chain, 1, n)[i] = chain[i]
      BY <1>1, <3>1, StartOf
    <3> QED BY <3>1, <3>2, <3>3
  <2>2. CASE ~ (Len(chain) > base)
    <3>1. chain' = chain /\ ~ (base <= m)
      BY <1>1, <1>2, <1>3, <1>4, <2>2
    <3> QED BY <1>1, <1>2, <3>1
  <2> QED BY <2>1, <2>2
<1>6. DiskSound'
  <2>1. Sound(chain')
    BY <1>1, <1>5, SoundStart
  <2>2. Sound(chain)'
    BY <2>1 DEF Sound, BranchOf
  <2>3. ASSUME NEW i \in 1 .. Len(log) PROVE log[i] = chain'[i]
    <3>1. i \in 1 .. Len(chain')
      BY <1>1, <1>5
    <3> QED BY <1>1, <1>5, <3>1
  <2>4. Len(log') <= base' /\ \A i \in 1 .. Len(log') : log'[i] = chain'[i]
    BY <1>1, <1>3, <2>3
  <2> QED BY <2>2, <2>4 DEF DiskSound
<1>7. Branches(new, old, chain', m)
  <2>1. m # 0 => m \in 1 .. Len(chain')
    <3>1. \A x, y \in Nat : x <= y /\ x # 0 => x \in 1 .. y
      OBVIOUS
    <3>2. m \in Nat /\ Len(chain') \in Nat /\ m <= Len(chain')
      BY <1>2, <1>5
    <3> QED BY <3>1, <3>2, Zenon
  <2> QED BY <1>2, <1>5, <2>1, BranchesStay
<1> QED BY <1>2, <1>3, <1>4, <1>5, <1>6, <1>7

(* A pop on the way to the new branch.                                     *)
LEMMA PopInv ==
  ASSUME Typed, ChainInv, PopBlock, pc = "pop"
  PROVE  ChainInv'
<1> DEFINE m == ForkAt
           l == Len(log)
<1>0. pc \in Switching /\ m = ForkAt
  BY DEF Switching
<1> HIDE DEF m
<1>1. /\ Len(chain) > m /\ m <= Len(chain') /\ Len(chain') <= Len(chain) /\ Len(chain') \in Nat
      /\ \A i \in 1 .. Len(chain') : chain'[i] = chain[i]
      /\ base <= m => Len(chain') = Len(chain) - 1
      /\ DiskSound' /\ Branches(new, old, chain', m)
      /\ m = Num[old'[1]] - 1 /\ UNCHANGED <<base, log, pc, new, old, at>>
  BY <1>0, PopChain
<1>2. /\ m \in Nat /\ m <= Len(chain) /\ Len(new) \in Nat /\ Len(old) \in Nat /\ Len(new) = Len(old) + 1
      /\ \A i \in 2 .. Len(new) : Prev[new[i]] = new[i - 1]
  BY <1>0, SwitchParts
<1>3. ForkTyped(fork) /\ Len(chain) \in Nat /\ l \in Nat /\ base \in Nat
  BY InvParts
<1>4. /\ base = l /\ Along(old, chain, m) /\ SwitchFork(fork, new, old, chain, m, l)
      /\ base > m \/ fork.head = new[Len(chain) - m + 1]
  BY DEF ChainInv, m
<1>5. fork'.head = Prev[fork.head] /\ fork'.index = fork.index /\ fork'.linked = fork.linked
  <2>1. CanPopItem(fork) /\ fork' = PopItem(fork)
    BY DEF PopBlock, CanPop
  <2> QED BY <1>3, <2>1, PopTyped
<1>6. Along(old, chain', m)
  <2>1. Len(chain') <= m + Len(old)
    BY <1>1, <1>2, <1>3, <1>4 DEF Along
  <2>2. ASSUME NEW i \in 1 .. Len(old), m + i <= Len(chain') PROVE chain'[m + i] = old[i]
    <3>1. m + i \in 1 .. Len(chain') /\ m + i <= Len(chain)
      BY <1>1, <1>2, <1>3, <2>2
    <3>2. chain[m + i] = old[i]
      BY <1>4, <3>1 DEF Along
    <3> QED BY <1>1, <3>1, <3>2
  <2> QED BY <2>1, <2>2 DEF Along
<1>7. SwitchFork(fork', new, old, chain', m, l)
  <2>1. Kept(fork.index, chain', l)
    <3> SUFFICES ASSUME NEW n \in l + 1 .. Len(chain') PROVE chain'[n] \in fork.index
      BY DEF Kept
    <3>1. n \in l + 1 .. Len(chain) /\ n \in 1 .. Len(chain')
      BY <1>1, <1>3
    <3> QED BY <1>1, <1>4, <3>1 DEF SwitchFork, Kept
  <2> QED BY <1>4, <1>5, <2>1 DEF SwitchFork, Whole, InIndex
<1>8. ASSUME ~ (base > m) PROVE fork'.head = new[Len(chain') - m + 1]
  <2>1. Len(chain') = Len(chain) - 1 /\ fork.head = new[Len(chain) - m + 1]
    BY <1>1, <1>2, <1>3, <1>4, <1>8
  <2> DEFINE i == Len(chain) - m + 1
  <2>2. i \in 2 .. Len(new) /\ i - 1 = Len(chain') - m + 1
    <3>1. Len(chain) <= m + Len(old)
      BY <1>4 DEF Along
    <3>2. m \in Nat /\ Len(chain) \in Nat /\ Len(old) \in Nat /\ Len(chain) > m
      BY <1>1, <1>2, <1>3
    <3>3. i >= 2 /\ i \in Int /\ i <= Len(old) + 1
      BY <3>1, <3>2
    <3>4. i \in 2 .. Len(new)
      <4> HIDE DEF i
      <4> QED BY <1>2, <3>2, <3>3
    <3>5. i - 1 = (Len(chain) - 1) - m + 1
      BY <3>2
    <3> QED BY <2>1, <3>4, <3>5
  <2> HIDE DEF i
  <2>3. fork.head = new[i]
    BY <2>1 DEF i
  <2> QED BY <1>2, <1>5, <2>2, <2>3
<1>9. /\ Branches(new', old', chain', m) /\ Along(old', chain', m)
      /\ SwitchFork(fork', new', old', chain', m, Len(log'))
  BY <1>1, <1>6, <1>7
<1>10. base' > m \/ fork'.head = new'[Len(chain') - m + 1]
  BY <1>1, <1>8
<1>11. pc' = "pop" /\ DiskSound' /\ base' = Len(log')
  BY <1>1, <1>4
<1>12. m = Num[old'[1]] - 1
  BY <1>1
<1> QED BY <1>9, <1>10, <1>11, <1>12, PopNext

(* The fork point is reached.                                              *)
LEMMA PopsDoneInv ==
  ASSUME Typed, ChainInv, PopsDone
  PROVE  ChainInv'
<1> DEFINE m == ForkAt
<1>1. /\ pc \in {"pop", "pop_bad"} /\ HeadBlock = ForkPoint
      /\ pc' = (IF pc = "pop" THEN "apply" ELSE "reapply")
      /\ UNCHANGED <<chain, base, log, fork, new, old, at, clean>>
  BY DEF PopsDone
<1>0. pc \in Switching /\ m = ForkAt
  BY <1>1 DEF Switching
<1> HIDE DEF m
<1>2. Len(chain) = m
  BY <1>0, <1>1, AtForkPoint
<1>3. /\ m \in Nat /\ Branches(new, old, chain, m) /\ m = Num[old[1]] - 1
      /\ Len(new) \in Nat /\ Len(old) \in Nat
  BY <1>0, SwitchParts
<1>4. DiskSound' /\ at = 1 /\ base \in Nat /\ base <= Len(chain)
  BY <1>1, InvParts, DiskStays DEF Typed
<1>5. ASSUME NEW s, Len(s) \in Nat PROVE Along(s, chain, m)
  <2>1. Len(chain) <= m + Len(s) /\ \A i \in 1 .. Len(s) : ~ (m + i <= Len(chain))
    BY <1>2, <1>3, <1>5
  <2> QED BY <2>1 DEF Along
<1>6. Along(new, chain, m) /\ Along(old, chain, m)
  BY <1>3, <1>5
<1>7. Len(chain') = m + at' - 1 /\ m = Num[old'[1]] - 1
  BY <1>1, <1>2, <1>3, <1>4
<1>8. CASE pc = "pop"
  <2>1. /\ base = Len(log) /\ SwitchFork(fork, new, old, chain, m, Len(log))
        /\ base > m \/ fork.head = new[Len(chain) - m + 1]
    BY <1>8 DEF ChainInv, m
  <2>2. fork.head = new[1]
    <3>1. ~ (base > m) /\ Len(chain) - m + 1 = 1
      BY <1>2, <1>3, <1>4
    <3> QED BY <2>1, <3>1
  <2>3. /\ Branches(new', old', chain', m) /\ Along(new', chain', m)
        /\ SwitchFork(fork', new', old', chain', m, Len(log'))
    BY <1>1, <1>3, <1>6, <2>1
  <2>4. pc' = "apply" /\ base' = Len(log') /\ fork'.head = new'[1]
    BY <1>1, <1>8, <2>1, <2>2
  <2> QED BY <1>4, <1>7, <2>3, <2>4, ApplyNext
<1>9. CASE pc = "pop_bad"
  <2>1. BackFork(fork, old, chain, m, Len(log))
    BY <1>9 DEF ChainInv, m
  <2>2. /\ Branches(new', old', chain', m) /\ Along(old', chain', m)
        /\ BackFork(fork', old', chain', m, Len(log'))
    BY <1>1, <1>3, <1>6, <2>1
  <2>3. pc' = "reapply"
    BY <1>1, <1>9
  <2> QED BY <1>4, <1>7, <2>2, <2>3, ReapplyNext
<1> QED BY <1>1, <1>8, <1>9

(* A pop on the way back.                                                  *)
LEMMA PopBadInv ==
  ASSUME Typed, ChainInv, PopBlock, pc = "pop_bad"
  PROVE  ChainInv'
<1> DEFINE m == ForkAt
           l == Len(log)
<1>0. pc \in Switching /\ m = ForkAt
  BY DEF Switching
<1> HIDE DEF m
<1>1. /\ Len(chain) > m /\ m <= Len(chain') /\ Len(chain') <= Len(chain) /\ Len(chain') \in Nat
      /\ \A i \in 1 .. Len(chain') : chain'[i] = chain[i]
      /\ DiskSound' /\ Branches(new, old, chain', m)
      /\ m = Num[old'[1]] - 1 /\ UNCHANGED <<base, log, pc, new, old, at>>
  BY <1>0, PopChain
<1>2. /\ m \in Nat /\ m <= Len(chain) /\ Len(new) \in Nat /\ Len(old) \in Nat
      /\ \A i \in 2 .. Len(old) : Prev[old[i]] = old[i - 1]
      /\ ForkPoint = IF m = 0 THEN NONE ELSE chain[m]
  BY <1>0, SwitchParts
<1>3. ForkTyped(fork) /\ Len(chain) \in Nat /\ l \in Nat /\ BranchOf(chain)
  BY InvParts
<1>4. Along(new, chain, m) /\ BackFork(fork, old, chain, m, l)
  BY DEF ChainInv, m
<1>5. fork'.head = Prev[fork.head] /\ fork'.index = fork.index /\ Prev[fork.head] # NONE
  <2>1. CanPopItem(fork) /\ fork' = PopItem(fork)
    BY DEF PopBlock, CanPop
  <2>2. Prev[fork.head] # NONE
    BY <1>3, <2>1 DEF CanPopItem, ForkTyped
  <2> QED BY <1>3, <2>1, <2>2, PopTyped
<1>6. Along(new, chain', m)
  <2>0. /\ m \in Nat /\ Len(new) \in Nat /\ Len(chain) \in Nat
        /\ Len(chain') \in Nat /\ Len(chain') <= Len(chain)
    BY <1>1, <1>2, <1>3
  <2>1. Len(chain') <= m + Len(new)
    <3>1. Len(chain) <= m + Len(new)
      BY <1>4 DEF Along
    <3> QED BY <2>0, <3>1
  <2>2. ASSUME NEW i \in 1 .. Len(new), m + i <= Len(chain') PROVE chain'[m + i] = new[i]
    <3>1. m + i \in 1 .. Len(chain') /\ m + i <= Len(chain)
      BY <2>0, <2>2
    <3>2. chain[m + i] = new[i]
      BY <1>4, <3>1 DEF Along
    <3> QED BY <1>1, <3>1, <3>2
  <2> QED BY <2>1, <2>2 DEF Along
<1>7. \A n \in 1 .. m : chain'[n] = chain[n]
  <2> SUFFICES ASSUME NEW n \in 1 .. m PROVE n \in 1 .. Len(chain')
    BY <1>1
  <2> QED BY <1>1, <1>2
<1>8. (\E i \in 1 .. Len(old) : fork'.head = old[i]) \/ (\E i \in 1 .. m : fork'.head = chain'[i])
  <2>1. CASE \E i \in 1 .. Len(old) : fork.head = old[i]
    <3>1. PICK i \in 1 .. Len(old) : fork.head = old[i]
      BY <2>1
    <3>2. CASE i = 1
      <4>1. Prev[fork.head] = ForkPoint
        BY <3>1, <3>2 DEF ForkPoint
      <4>2. m # 0 /\ fork'.head = chain[m]
        BY <1>2, <1>5, <4>1
      <4>3. m \in 1 .. m
        BY <1>2, <4>2
      <4> QED BY <1>7, <4>2, <4>3
    <3>3. CASE i # 1
      <4>1. i \in 2 .. Len(old) /\ i - 1 \in 1 .. Len(old)
        BY <1>2, <3>3
      <4>2. fork'.head = old[i - 1]
        BY <1>2, <1>5, <3>1, <4>1
      <4> QED BY <4>1, <4>2
    <3> QED BY <3>2, <3>3
  <2>2. CASE \E i \in 1 .. m : fork.head = chain[i]
    <3>1. PICK i \in 1 .. m : fork.head = chain[i]
      BY <2>2
    <3>2. i \in 1 .. Len(chain)
      BY <1>2, <1>3
    <3>3. Prev[chain[i]] = IF i = 1 THEN NONE ELSE chain[i - 1]
      BY <1>3, <3>2 DEF BranchOf
    <3>4. i # 1 /\ fork'.head = chain[i - 1]
      BY <1>5, <3>1, <3>3
    <3>5. i - 1 \in 1 .. m
      BY <1>2, <3>4
    <3> QED BY <1>7, <3>4, <3>5
  <2> QED BY <1>4, <2>1, <2>2 DEF BackFork
<1>9. BackFork(fork', old, chain', m, l)
  <2>1. ASSUME NEW n \in l + 1 .. m PROVE Alone(fork', n, chain'[n])
    <3>1. n \in 1 .. m
      BY <1>3
    <3>2. Alone(fork, n, chain[n])
      BY <1>4 DEF BackFork
    <3> QED BY <1>5, <1>7, <3>1, <3>2 DEF Alone
  <2>2. \A i \in 1 .. Len(old) : m + i > l => Alone(fork', m + i, old[i])
    BY <1>4, <1>5 DEF BackFork, Alone
  <2> QED BY <1>8, <2>1, <2>2 DEF BackFork
<1>10. /\ Branches(new', old', chain', m) /\ Along(new', chain', m)
       /\ BackFork(fork', old', chain', m, Len(log'))
  BY <1>1, <1>6, <1>9
<1>11. pc' = "pop_bad" /\ DiskSound' /\ m = Num[old'[1]] - 1
  BY <1>1
<1> QED BY <1>10, <1>11, PopBadNext

(* Pruning below the log leaves the fork database of a switch whole.       *)
LEMMA SwitchPruned ==
  ASSUME NEW f, ForkTyped(f), NEW g, NEW h \in Int, Pruned(f, g, h),
         NEW n, NEW o, NEW c, NEW d, NEW m \in Nat, NEW l \in Nat, NEW k \in Nat,
         SwitchFork(f, n, o, c, m, l), l <= k, h <= k,
         \A i \in 1 .. Len(n) : Num[n[i]] = m + i, \A i \in 1 .. Len(o) : Num[o[i]] = m + i,
         \A i \in k + 1 .. Len(d) : d[i] \in f.index /\ Num[d[i]] = i
  PROVE  SwitchFork(g, n, o, d, m, k)
<1>1. \A x \in f.index : Num[x] \in Nat /\ x \in Blocks /\ (h <= Num[x] => x \in g.index)
  BY PrunedKeeps
<1>2. g.linked = f.linked /\ g.index \subseteq f.index
  BY DEF Pruned
<1>3. Kept(g.index, d, k)
  <2> SUFFICES ASSUME NEW i \in k + 1 .. Len(d) PROVE d[i] \in g.index
    BY DEF Kept
  <2>1. h <= i
    OBVIOUS
  <2> QED BY <1>1, <2>1
<1>4. InIndex(g, n, m, k)
  <2> SUFFICES ASSUME NEW i \in 1 .. Len(n), m + i > k PROVE n[i] \in g.index
    BY DEF InIndex
  <2>1. m + i > l /\ h <= m + i
    OBVIOUS
  <2>2. n[i] \in f.index
    BY <2>1 DEF SwitchFork, InIndex
  <2> QED BY <1>1, <2>1, <2>2
<1>5. InIndex(g, o, m, k)
  <2> SUFFICES ASSUME NEW i \in 1 .. Len(o), m + i > k PROVE o[i] \in g.index
    BY DEF InIndex
  <2>1. m + i > l /\ h <= m + i
    OBVIOUS
  <2>2. o[i] \in f.index
    BY <2>1 DEF SwitchFork, InIndex
  <2> QED BY <1>1, <2>1, <2>2
<1>6. Below(g.index, m + Len(n))
  BY <1>2 DEF SwitchFork, Below
<1>7. Whole(g, g.index, k)
  <2> SUFFICES ASSUME NEW x \in g.index, Num[x] >= k + 2 PROVE x \in g.linked /\ Prev[x] \in g.index
    BY DEF Whole
  <2>1. x \in f.index /\ x \in Blocks /\ Num[x] \in Nat
    BY <1>1, <1>2
  <2>2. Num[x] >= l + 2
    BY <2>1
  <2>3. x \in f.linked /\ Prev[x] \in f.index
    BY <2>1, <2>2 DEF SwitchFork, Whole
  <2>4. Num[Prev[x]] = Num[x] - 1
    <3>1. Prev[x] # NONE
      BY <2>3 DEF ForkTyped
    <3> QED BY <2>1, <3>1, Constants
  <2>5. h <= Num[Prev[x]]
    BY <2>1, <2>4
  <2> QED BY <1>1, <1>2, <2>3, <2>5
<1> QED BY <1>3, <1>4, <1>5, <1>6, <1>7 DEF SwitchFork

(* Pointers to blocks of the index stay alive.                             *)
LEMMA SwitchExpired ==
  ASSUME NEW g, ForkTyped(g), NEW n, NEW o, NEW d, NEW m, NEW k, NEW held, SwitchFork(g, n, o, d, m, k)
  PROVE  SwitchFork(Expire(g, held), n, o, d, m, k) /\ Expire(g, held).head = g.head
<1> DEFINE e == Expire(g, held)
<1>1. /\ e.index = g.index /\ e.head = g.head
      /\ e.linked = {b \in g.linked : Prev[b] \in g.index \cup {g.head} \cup held}
  BY ExpireTyped
<1> HIDE DEF e
<1>2. Whole(e, e.index, k)
  BY <1>1 DEF SwitchFork, Whole
<1>3. SwitchFork(e, n, o, d, m, k)
  BY <1>1, <1>2 DEF SwitchFork, InIndex
<1> QED BY <1>1, <1>3 DEF e

(* A block of the new or of the old branch is applied, or fails.           *)
LEMMA SwitchApplies ==
  ASSUME Cardinality(Witnesses) >= 2, Typed, ChainInv, NEW b, Applying(b), pc \in {"apply", "reapply"},
         NEW lib, lib = LibWith(b), ApplyBlock(b, lib) \/ (FailToApply(b, lib) /\ ~ Vetoed(b)),
         NEW g, g = ForkAfter(b, lib)
  PROVE  /\ b \in Blocks /\ DiskSound' /\ chain' \in Seq(Blocks) /\ log' \in Seq(Blocks) /\ ForkTyped(g)
         /\ Len(log') \in Nat /\ Len(log) <= Len(log')
         /\ ApplyBlock(b, lib) => chain' = Append(chain, b)
         /\ FailToApply(b, lib) => chain' = chain
         /\ ApplyBlock(b, lib) /\ base = Len(log) => base' = Len(log')
         /\ \E h \in Int : Pruned(fork, g, h) /\ (pc = "apply" => h <= Len(log') /\ h <= Len(chain))
<1>1. b \in Blocks
  BY ApplyingTyped
<1>2. FetchSafe
  BY ApplyFetch, ReapplyFetch
<1>3. DiskSound /\ Len(chain) \in Nat
  BY InvParts
<1>4. /\ DiskSound' /\ chain' \in Seq(Blocks) /\ log' \in Seq(Blocks) /\ ForkTyped(ForkAfter(b, lib))
      /\ lib \in Nat /\ lib <= Len(chain) /\ Len(log') \in Nat /\ Len(log) <= Len(log')
      /\ ApplyBlock(b, lib) => Accepts(b) /\ LogComplete(lib) /\ chain' = Append(chain, b)
      /\ FailToApply(b, lib) => chain' = chain
      /\ Accepts(b) /\ LogComplete(lib) => Len(log') >= lib
      /\ base = Len(log) /\ (Accepts(b) => LogComplete(lib)) => base' = Len(log')
  BY <1>1, <1>2, <1>3, ApplySound
<1> DEFINE m == ForkAt
<1>5. pc \in Switching /\ m = ForkAt
  BY DEF Switching
<1> HIDE DEF m
<1>6. /\ m \in Nat /\ m <= Len(chain) /\ Len(new) \in Nat /\ Len(old) >= 1 /\ Len(old) \in Nat /\ Len(new) = Len(old) + 1
      /\ \A i \in 1 .. Len(new) : new[i] \in Blocks /\ Num[new[i]] = m + i
  BY <1>5, SwitchParts
<1>7. \A i \in 1 .. Len(old) : old[i] \in Blocks
  BY <1>5, SwitchParts
<1>8. 1 \in 1 .. Len(new)
  BY <1>6
<1>9. fork.head # NONE /\ (pc = "apply" => Num[fork.head] = m + 1)
  <2>1. CASE pc = "apply"
    <3>1. fork.head = new[1]
      BY <2>1 DEF ChainInv
    <3> QED BY <1>6, <1>8, <3>1, Constants
  <2>2. CASE pc = "reapply"
    <3>1. BackFork(fork, old, chain, m, Len(log))
      BY <2>2 DEF ChainInv, m
    <3>2. fork.head \in Blocks
      <4>1. \A i \in 1 .. m : i \in 1 .. Len(chain)
        BY <1>3, <1>6
      <4>2. \A i \in 1 .. Len(chain) : chain[i] \in Blocks
        BY InvParts
      <4> QED BY <1>7, <3>1, <4>1, <4>2 DEF BackFork
    <3> QED BY <2>2, <3>2, Constants
  <2> QED BY <2>1, <2>2
<1>10. PICK h \in Int :
         /\ Pruned(fork, ForkAfter(b, lib), h)
         /\ Num[fork.head] <= Len(chain) + 1 => h <= 0 \/ (h < lib /\ Accepts(b) /\ LogComplete(lib))
  BY <1>1, <1>4, <1>9, ForkAfterIs
<1>11. ASSUME pc = "apply" PROVE h <= Len(log') /\ h <= Len(chain)
  <2>1. Num[fork.head] <= Len(chain) + 1
    <3>1. Num[fork.head] = m + 1
      BY <1>9, <1>11
    <3> QED BY <1>3, <1>6, <3>1
  <2>2. h <= 0 \/ (h < lib /\ Len(log') >= lib)
    BY <1>4, <1>10, <2>1
  <2>3. \A x, y, z \in Nat : \A w \in Int : z <= y /\ (w <= 0 \/ (w < z /\ x >= z)) => w <= x /\ w <= y
    OBVIOUS
  <2> QED BY <1>3, <1>4, <2>2, <2>3, Zenon
<1> QED BY <1>1, <1>4, <1>10, <1>11

(* d is the chain c with the next block of the branch s it runs along.     *)
OneFurther(s, c, m, i, d) ==
  /\ c \in Seq(Blocks) /\ s \in Seq(Blocks) /\ m \in Nat /\ i \in 1 .. Len(s)
  /\ Along(s, c, m) /\ m + i = Len(c) + 1 /\ d = Append(c, s[i])

(* It still runs along s.                                                  *)
LEMMA AlongMore ==
  ASSUME NEW s, NEW c, NEW m, NEW i, NEW d, OneFurther(s, c, m, i, d)
  PROVE  /\ Along(s, d, m) /\ Len(d) = m + i /\ d[m + i] = s[i]
         /\ \A n \in 1 .. Len(c) : d[n] = c[n]
<1>0. /\ c \in Seq(Blocks) /\ s \in Seq(Blocks) /\ m \in Nat /\ i \in 1 .. Len(s)
      /\ Along(s, c, m) /\ m + i = Len(c) + 1 /\ d = Append(c, s[i])
  BY DEF OneFurther
<1>1. s[i] \in Blocks /\ Len(c) + 1 = m + i /\ Len(s) \in Nat /\ i \in Nat /\ Len(c) \in Nat
  BY <1>0, ElementOfSeq
<1>2. d \in Seq(Blocks) /\ Len(d) = Len(c) + 1 /\ d[Len(c) + 1] = s[i] /\ \A n \in 1 .. Len(c) : d[n] = c[n]
  BY <1>0, <1>1, OneMore
<1>3. ASSUME NEW j \in 1 .. Len(s), m + j <= m + i PROVE d[m + j] = s[j]
  <2>1. CASE j = i
    BY <1>0, <1>1, <1>2, <2>1
  <2>2. CASE j # i
    <3>1. m + j <= Len(c) /\ m + j \in 1 .. Len(c)
      BY <1>0, <1>1, <1>3, <2>2
    <3>2. c[m + j] = s[j]
      BY <1>0, <3>1 DEF Along
    <3> QED BY <1>2, <3>1, <3>2
  <2> QED BY <2>1, <2>2
<1>4. m + i <= m + Len(s) /\ Len(d) = m + i
  BY <1>0, <1>1, <1>2
<1>5. Along(s, d, m)
  BY <1>3, <1>4 DEF Along
<1> QED BY <1>1, <1>2, <1>5

(* The next block of the new branch is applied.                            *)
LEMMA ApplyNewInv ==
  ASSUME Cardinality(Witnesses) >= 2, Typed, ChainInv, ApplyNew
  PROVE  ChainInv'
<1> DEFINE b == new[at]
           lib == LibWith(b)
           g == ForkAfter(b, lib)
           m == ForkAt
           l == Len(log)
           k == Len(log')
<1>1. /\ pc = "apply" /\ ApplyBlock(b, lib)
      /\ \/ at = Len(new) /\ Return("done", g)
         \/ /\ at # Len(new) /\ fork' = Expire(g, Held) /\ at' = at + 1
            /\ UNCHANGED <<pc, new, old, clean>>
  BY DEF ApplyNew
<1>2. Applying(b) /\ lib = LibWith(b) /\ g = ForkAfter(b, lib) /\ m = ForkAt /\ pc \in Switching
  BY <1>1 DEF Applying, Switching
<1>3. at \in 1 .. Len(new) /\ b = new[at]
  BY <1>1 DEF Typed
<1> HIDE DEF b, lib, g, m
<1>4. /\ base = l /\ Along(new, chain, m) /\ SwitchFork(fork, new, old, chain, m, l)
      /\ Len(chain) = m + at - 1 /\ fork.head = new[1]
  BY <1>1 DEF ChainInv, m
<1>5. /\ b \in Blocks /\ DiskSound' /\ chain' \in Seq(Blocks) /\ log' \in Seq(Blocks) /\ ForkTyped(g)
      /\ k \in Nat /\ l <= k
      /\ ApplyBlock(b, lib) => chain' = Append(chain, b)
      /\ ApplyBlock(b, lib) /\ base = Len(log) => base' = Len(log')
      /\ \E h \in Int : Pruned(fork, g, h) /\ (pc = "apply" => h <= Len(log') /\ h <= Len(chain))
  BY <1>1, <1>2, SwitchApplies
<1>6. PICK h \in Int : Pruned(fork, g, h) /\ h <= k /\ h <= Len(chain)
  BY <1>1, <1>5
<1>7. /\ chain \in Seq(Blocks) /\ new \in Seq(Blocks) /\ ForkTyped(fork) /\ Len(chain) \in Nat /\ l \in Nat
      /\ Len(log) <= base /\ base <= Len(chain)
  BY InvParts
<1>8. /\ m \in Nat /\ m <= Len(chain) /\ Branches(new, old, chain, m) /\ m = Num[old[1]] - 1
      /\ Len(new) \in Nat /\ Len(old) \in Nat /\ Len(old) >= 1 /\ Len(new) = Len(old) + 1
      /\ \A i \in 1 .. Len(new) : new[i] \in Blocks /\ Num[new[i]] = m + i
      /\ \A i \in 1 .. Len(old) : old[i] \in Blocks /\ Num[old[i]] = m + i
  BY <1>2, SwitchParts
<1>9. chain' = Append(chain, new[at]) /\ base' = k
  BY <1>1, <1>3, <1>4, <1>5
<1>10. m + at = Len(chain) + 1 /\ at \in Nat /\ at >= 1
  <2>1. m \in Nat /\ Len(chain) \in Nat /\ at \in Nat /\ at >= 1
    BY <1>3, <1>7, <1>8
  <2>2. Len(chain) = m + at - 1
    BY <1>4
  <2>3. \A x, y, z \in Nat : z = x + y - 1 => x + y = z + 1
    OBVIOUS
  <2>4. m + at = Len(chain) + 1
    BY <2>1, <2>2, <2>3
  <2> QED BY <2>1, <2>4
<1>11. /\ Along(new, chain', m) /\ Len(chain') = m + at /\ chain'[m + at] = new[at]
       /\ \A n \in 1 .. Len(chain) : chain'[n] = chain[n]
  <2>1. chain \in Seq(Blocks) /\ new \in Seq(Blocks) /\ m \in Nat /\ at \in 1 .. Len(new)
    BY <1>3, <1>7, <1>8
  <2>2. Along(new, chain, m) /\ m + at = Len(chain) + 1 /\ chain' = Append(chain, new[at])
    BY <1>4, <1>9, <1>10
  <2>3. OneFurther(new, chain, m, at, chain')
    BY <2>1, <2>2 DEF OneFurther
  <2> QED BY <2>3, AlongMore
<1>12. new[at] \in fork.index /\ Num[new[at]] = m + at
  <2>1. m + at > l
    BY <1>4, <1>7, <1>10
  <2> QED BY <1>3, <1>4, <1>8, <2>1 DEF SwitchFork, InIndex
<1>13. ASSUME NEW i \in k + 1 .. Len(chain') PROVE chain'[i] \in fork.index /\ Num[chain'[i]] = i
  <2>1. CASE i = m + at
    BY <1>11, <1>12, <2>1
  <2>2. CASE i # m + at
    <3>1. i \in l + 1 .. Len(chain) /\ i \in 1 .. Len(chain)
      <4>1. i \in k + 1 .. Len(chain) + 1 /\ i # Len(chain) + 1 /\ k \in Nat /\ l <= k
        BY <1>5, <1>11, <1>10, <2>2
      <4>2. \A x, y, z \in Nat : \A w \in x + 1 .. z + 1 : y <= x /\ w # z + 1 => w \in y + 1 .. z /\ w \in 1 .. z
        OBVIOUS
      <4> HIDE DEF k, l
      <4>3. k \in Nat /\ l \in Nat /\ Len(chain) \in Nat
        BY <1>5, <1>7
      <4>4. i \in l + 1 .. Len(chain) /\ i \in 1 .. Len(chain)
        BY <4>1, <4>2, <4>3
      <4> QED BY <4>4
    <3>2. chain[i] \in fork.index
      BY <1>4, <3>1 DEF SwitchFork, Kept
    <3>3. Num[chain[i]] = i
      BY <3>1, InvParts
    <3> QED BY <1>11, <3>1, <3>2, <3>3
  <2> QED BY <2>1, <2>2
<1>14. SwitchFork(g, new, old, chain', m, k)
  <2>1. /\ \A i \in 1 .. Len(new) : Num[new[i]] = m + i
        /\ \A i \in 1 .. Len(old) : Num[old[i]] = m + i
    BY <1>8
  <2>2. Pruned(fork, g, h) /\ h <= k /\ l <= k /\ k \in Nat /\ l \in Nat /\ m \in Nat
    BY <1>5, <1>6, <1>7, <1>8
  <2>3. SwitchFork(fork, new, old, chain, m, l) /\ ForkTyped(fork)
    BY <1>4, <1>7
  <2> HIDE DEF k, l
  <2> QED BY <1>13, <2>1, <2>2, <2>3, SwitchPruned
<1>15. g.head = fork.head
  BY <1>6 DEF Pruned
<1>16. CASE at = Len(new) /\ Return("done", g)
  <2>1. Kept(g.index, chain', k) /\ Whole(g, g.index, k) /\ Below(g.index, Len(chain'))
    BY <1>11, <1>14, <1>16 DEF SwitchFork
  <2>2. HasTop(g.index, chain')
    <3>1. h <= Num[new[at]]
      BY <1>6, <1>7, <1>10, <1>12
    <3>2. new[at] \in g.index
      BY <1>6, <1>7, <1>12, <3>1, PrunedKeeps
    <3> QED BY <1>11, <3>2 DEF HasTop
  <2>3. g.head # NONE /\ Num[g.head] <= Len(chain')
    <3>1. 1 \in 1 .. Len(new)
      BY <1>8
    <3>2. new[1] \in Blocks /\ Num[new[1]] = m + 1
      BY <1>8, <3>1
    <3>3. m + 1 <= Len(chain')
      BY <1>8, <1>11, <1>10
    <3> QED BY <1>4, <1>15, <3>2, <3>3, Constants
  <2>4. IdleFork(g, chain', k)
    BY <2>1, <2>2, <2>3 DEF IdleFork
  <2>5. IdleFork(g, chain', Len(log')) /\ base' = Len(log')
    BY <1>9, <2>4
  <2> QED BY <1>5, <1>16, <2>5, ReturnNext
<1>17. CASE /\ at # Len(new) /\ fork' = Expire(g, Held) /\ at' = at + 1
            /\ UNCHANGED <<pc, new, old, clean>>
  <2>1. SwitchFork(Expire(g, Held), new, old, chain', m, k) /\ Expire(g, Held).head = g.head
    BY <1>5, <1>14, SwitchExpired
  <2>2. Branches(new, old, chain', m)
    <3>1. m # 0 => m \in 1 .. Len(chain)
      BY <1>7, <1>8
    <3>2. m <= Len(chain') /\ Len(chain') \in Nat /\ m \in Nat
      BY <1>7, <1>8, <1>11, <1>10
    <3>3. m # 0 => chain'[m] = chain[m]
      BY <1>11, <3>1
    <3>4. Branches(new, old, chain, m)
      BY <1>8
    <3> QED BY <3>2, <3>3, <3>4, BranchesStay
  <2>3. /\ Branches(new', old', chain', m) /\ Along(new', chain', m)
        /\ SwitchFork(fork', new', old', chain', m, Len(log'))
    BY <1>11, <1>17, <2>1, <2>2
  <2>4. Len(chain') = m + at' - 1
    <3>1. m + (at + 1) - 1 = m + at
      BY <1>8, <1>10
    <3> QED BY <1>11, <1>17, <3>1
  <2>5. pc' = "apply" /\ base' = Len(log') /\ fork'.head = new'[1]
    BY <1>1, <1>4, <1>9, <1>15, <1>17, <2>1
  <2>6. m = Num[old'[1]] - 1
    BY <1>8, <1>17
  <2> QED BY <1>5, <2>3, <2>4, <2>5, <2>6, ApplyNext
<1> QED BY <1>1, <1>16, <1>17

(* The index of e is that of f without the blocks below number h and those *)
(* of R, none of which is on the chain up to block m or on the old branch; *)
(* the log has grown from length l to k.                                   *)
TurnedBack(f, h, R, e, o, c, m, l, k) ==
  /\ e.index = {x \in f.index : Num[x] >= h} \ R
  /\ m \in Nat /\ l \in Nat /\ k \in Nat /\ l <= k
  /\ \A n \in l + 1 .. m : Alone(f, n, c[n])
  /\ \A i \in 1 .. Len(o) : m + i > l => Alone(f, m + i, o[i])
  /\ \A n \in 1 .. m : c[n] \notin R /\ Num[c[n]] = n
  /\ \A i \in 1 .. Len(o) : o[i] \notin R /\ Num[o[i]] = m + i
  /\ (\E i \in 1 .. Len(o) : e.head = o[i]) \/ (\E i \in 1 .. m : e.head = c[i])

(* The blocks of the old branch survive the pruning and the removal of the *)
(* new one.                                                                *)
LEMMA BackForkIs ==
  ASSUME NEW f, NEW h, NEW R, NEW e, NEW o, NEW c, NEW m, NEW l, NEW k,
         TurnedBack(f, h, R, e, o, c, m, l, k)
  PROVE  BackFork(e, o, c, m, k)
<1>0. /\ e.index = {x \in f.index : Num[x] >= h} \ R
      /\ m \in Nat /\ l \in Nat /\ k \in Nat /\ l <= k
      /\ \A n \in l + 1 .. m : Alone(f, n, c[n])
      /\ \A i \in 1 .. Len(o) : m + i > l => Alone(f, m + i, o[i])
      /\ \A n \in 1 .. m : c[n] \notin R /\ Num[c[n]] = n
      /\ \A i \in 1 .. Len(o) : o[i] \notin R /\ Num[o[i]] = m + i
      /\ (\E i \in 1 .. Len(o) : e.head = o[i]) \/ (\E i \in 1 .. m : e.head = c[i])
  BY DEF TurnedBack
<1>4. m \in Nat /\ l \in Nat /\ k \in Nat /\ l <= k
  BY <1>0
<1>1. ASSUME NEW n, NEW b, Alone(f, n, b), b \notin R, Num[b] = n PROVE Alone(e, n, b)
  BY <1>0, <1>1 DEF Alone
<1>2. ASSUME NEW n \in k + 1 .. m PROVE Alone(e, n, c[n])
  <2>1. n \in l + 1 .. m /\ n \in 1 .. m
    BY <1>4
  <2>2. Alone(f, n, c[n]) /\ c[n] \notin R /\ Num[c[n]] = n
    BY <1>0, <2>1
  <2> QED BY <1>1, <2>2
<1>3. ASSUME NEW i \in 1 .. Len(o), m + i > k PROVE Alone(e, m + i, o[i])
  <2>1. m + i > l
    BY <1>3, <1>4
  <2>2. Alone(f, m + i, o[i]) /\ o[i] \notin R /\ Num[o[i]] = m + i
    BY <1>0, <2>1
  <2> QED BY <1>1, <2>2
<1> QED BY <1>0, <1>2, <1>3 DEF BackFork

(* A block of the new branch fails: the rest of the branch is dropped and  *)
(* the node turns back.                                                    *)
LEMMA ApplyNewFailsInv ==
  ASSUME Cardinality(Witnesses) >= 2, Typed, ChainInv, ApplyNewFails, ~ Vetoed(new[at])
  PROVE  ChainInv'
<1> DEFINE b == new[at]
           lib == LibWith(b)
           g == ForkAfter(b, lib)
           m == ForkAt
           l == Len(log)
           k == Len(log')
           R == Range(SubSeq(new, at, Len(new)))
           f == RemoveItems(g, R)
<1>1. /\ pc = "apply" /\ FailToApply(b, lib) /\ ~ Vetoed(b) /\ fork' = SetHead(f, Last(old))
      /\ pc' = "pop_bad" /\ UNCHANGED <<new, old>>
  BY DEF ApplyNewFails
<1>2. Applying(b) /\ lib = LibWith(b) /\ g = ForkAfter(b, lib) /\ m = ForkAt /\ pc \in Switching
  BY <1>1 DEF Applying, Switching
<1>3. at \in 1 .. Len(new) /\ new \in Seq(Blocks) /\ old \in Seq(Blocks)
  BY <1>1 DEF Typed
<1>4. \A x \in R : \E j \in 1 .. Len(new) : x = new[j]
  <2> DEFINE s == SubSeq(new, at, Len(new))
  <2>1. Len(s) \in Nat /\ DOMAIN s = 1 .. Len(s) /\ \A j \in 1 .. Len(s) : s[j] = new[at + j - 1] /\ at + j - 1 \in 1 .. Len(new)
    BY <1>3
  <2> HIDE DEF s
  <2>2. R = {s[j] : j \in DOMAIN s}
    BY DEF Range, s
  <2> QED BY <2>1, <2>2
<1> HIDE DEF b, lib, g, m, R
<1>5. /\ base = l /\ Along(new, chain, m) /\ SwitchFork(fork, new, old, chain, m, l)
  BY <1>1 DEF ChainInv, m
<1>6. /\ b \in Blocks /\ DiskSound' /\ ForkTyped(g)
      /\ k \in Nat /\ l <= k
      /\ FailToApply(b, lib) => chain' = chain
      /\ \E h \in Int : Pruned(fork, g, h) /\ (pc = "apply" => h <= Len(log') /\ h <= Len(chain))
  BY <1>1, <1>2, SwitchApplies
<1>7. PICK h \in Int : Pruned(fork, g, h)
  BY <1>6
<1>8. ForkTyped(fork) /\ Len(chain) \in Nat /\ l \in Nat
  BY InvParts
<1>9. /\ m \in Nat /\ m <= Len(chain) /\ Branches(new, old, chain, m) /\ m = Num[old[1]] - 1
      /\ Len(new) \in Nat /\ Len(old) \in Nat /\ Len(old) >= 1
      /\ \A i \in 1 .. Len(new) : new[i] \in Blocks /\ Num[new[i]] = m + i
      /\ \A i \in 1 .. Len(old) : old[i] \in Blocks /\ Num[old[i]] = m + i /\ new[i] # old[i]
  BY <1>2, SwitchParts
<1>10. Last(old) = old[Len(old)] /\ Len(old) \in 1 .. Len(old) /\ Last(old) \in Blocks
  <2>1. Len(old) \in 1 .. Len(old) /\ Last(old) = old[Len(old)]
    BY <1>9 DEF Last
  <2> QED BY <1>9, <2>1
<1>11. fork'.head = old[Len(old)] /\ fork'.index = {x \in fork.index : Num[x] >= h} \ R
  <2>1. ForkTyped(f) /\ f.index = g.index \ R
    BY <1>6, RemoveTyped
  <2> HIDE DEF f
  <2>2. fork'.head = Last(old) /\ fork'.index = f.index
    BY <1>1, <1>10, <2>1, SetHeadTyped
  <2> QED BY <1>7, <1>10, <2>1, <2>2 DEF Pruned
<1>12. ASSUME NEW n \in 1 .. m PROVE chain[n] \notin R /\ Num[chain[n]] = n
  <2>1. n \in 1 .. Len(chain)
    BY <1>8, <1>9
  <2>2. Num[chain[n]] = n
    BY <2>1, InvParts
  <2>3. \A j \in 1 .. Len(new) : m + j # n
    BY <1>9
  <2>4. ASSUME chain[n] \in R PROVE FALSE
    <3>1. PICK j \in 1 .. Len(new) : chain[n] = new[j]
      BY <1>4, <2>4
    <3>2. Num[new[j]] = m + j
      BY <1>9
    <3> QED BY <2>2, <2>3, <3>1, <3>2
  <2> QED BY <2>2, <2>4
<1>13. ASSUME NEW i \in 1 .. Len(old) PROVE old[i] \notin R /\ Num[old[i]] = m + i
  <2>1. \A j \in 1 .. Len(new) : m + j = m + i => j = i
    BY <1>9
  <2>2. Num[old[i]] = m + i /\ new[i] # old[i]
    BY <1>9
  <2>3. ASSUME old[i] \in R PROVE FALSE
    <3>1. PICK j \in 1 .. Len(new) : old[i] = new[j]
      BY <1>4, <2>3
    <3>2. Num[new[j]] = m + j
      BY <1>9
    <3> QED BY <2>1, <2>2, <3>1, <3>2
  <2> QED BY <2>2, <2>3
<1>14. ASSUME NEW n \in l + 1 .. m PROVE Alone(fork, n, chain[n])
  <2>1. n \in l + 1 .. Len(chain)
    BY <1>8, <1>9
  <2> QED BY <1>5, <2>1 DEF SwitchFork, Kept, Alone
<1>15. \A i \in 1 .. Len(old) : m + i > l => Alone(fork, m + i, old[i])
  BY <1>5 DEF SwitchFork, InIndex, Alone
<1>16. BackFork(fork', old, chain, m, k)
  <2> HIDE DEF k, l
  <2>1. \E i \in 1 .. Len(old) : fork'.head = old[i]
    BY <1>10, <1>11
  <2>2. /\ fork'.index = {x \in fork.index : Num[x] >= h} \ R
        /\ m \in Nat /\ l \in Nat /\ k \in Nat /\ l <= k
    BY <1>6, <1>8, <1>9, <1>11
  <2>3. TurnedBack(fork, h, R, fork', old, chain, m, l, k)
    BY <1>12, <1>13, <1>14, <1>15, <2>1, <2>2 DEF TurnedBack
  <2> QED BY <2>3, BackForkIs
<1>17. /\ Branches(new', old', chain', m) /\ Along(new', chain', m)
       /\ BackFork(fork', old', chain', m, Len(log'))
  BY <1>1, <1>5, <1>6, <1>9, <1>16
<1>18. pc' = "pop_bad" /\ DiskSound' /\ m = Num[old'[1]] - 1
  BY <1>1, <1>6, <1>9
<1> QED BY <1>17, <1>18, PopBadNext

(* A block of the old branch, not the last one, is applied again.          *)
LEMMA ReapplyInv ==
  ASSUME Cardinality(Witnesses) >= 2, Typed, ChainInv, Reapply, pc' # "idle"
  PROVE  ChainInv'
<1> DEFINE b == old[at]
           lib == LibWith(b)
           g == ForkAfter(b, lib)
           m == ForkAt
           l == Len(log)
           k == Len(log')
<1>1. /\ pc = "reapply" /\ ApplyBlock(b, lib) /\ fork' = Expire(g, Held) /\ at' = at + 1
      /\ UNCHANGED <<pc, new, old, clean>>
  BY DEF Reapply, Return
<1>2. Applying(b) /\ lib = LibWith(b) /\ g = ForkAfter(b, lib) /\ m = ForkAt /\ pc \in Switching
  BY <1>1 DEF Applying, Switching
<1>3. at \in 1 .. Len(old) /\ b = old[at] /\ old \in Seq(Blocks)
  BY <1>1 DEF Typed
<1> HIDE DEF b, lib, g, m
<1>4. BackFork(fork, old, chain, m, l) /\ Along(old, chain, m) /\ Len(chain) = m + at - 1
  BY <1>1 DEF ChainInv, m
<1>5. /\ DiskSound' /\ ForkTyped(g) /\ k \in Nat /\ l <= k
      /\ ApplyBlock(b, lib) => chain' = Append(chain, b)
      /\ \E h \in Int : Pruned(fork, g, h) /\ (pc = "apply" => h <= Len(log') /\ h <= Len(chain))
  BY <1>1, <1>2, SwitchApplies
<1>6. PICK h \in Int : Pruned(fork, g, h)
  BY <1>5
<1>7. chain \in Seq(Blocks) /\ ForkTyped(fork) /\ Len(chain) \in Nat /\ l \in Nat
  BY InvParts
<1>8. /\ m \in Nat /\ m <= Len(chain) /\ Branches(new, old, chain, m) /\ m = Num[old[1]] - 1
      /\ Len(old) \in Nat
      /\ \A i \in 1 .. Len(old) : old[i] \in Blocks /\ Num[old[i]] = m + i
  BY <1>2, SwitchParts
<1>9. m + at = Len(chain) + 1 /\ at \in Nat /\ at >= 1
  <2>1. m \in Nat /\ Len(chain) \in Nat /\ at \in Nat /\ at >= 1
    BY <1>3, <1>7, <1>8
  <2>2. Len(chain) = m + at - 1
    BY <1>4
  <2>3. \A x, y, z \in Nat : z = x + y - 1 => x + y = z + 1
    OBVIOUS
  <2>4. m + at = Len(chain) + 1
    BY <2>1, <2>2, <2>3
  <2> QED BY <2>1, <2>4
<1>10. /\ Along(old, chain', m) /\ Len(chain') = m + at
       /\ \A n \in 1 .. Len(chain) : chain'[n] = chain[n]
  <2>1. OneFurther(old, chain, m, at, chain')
    BY <1>1, <1>3, <1>4, <1>5, <1>7, <1>8, <1>9 DEF OneFurther
  <2> QED BY <2>1, AlongMore
<1>11. ASSUME NEW n \in 1 .. m PROVE chain'[n] = chain[n] /\ Num[chain[n]] = n
  <2>1. n \in 1 .. Len(chain)
    BY <1>7, <1>8
  <2> QED BY <1>10, <2>1, InvParts
<1>12. fork'.head = fork.head /\ fork'.index = {x \in fork.index : Num[x] >= h}
  <2>1. fork'.head = g.head /\ fork'.index = g.index
    BY <1>1, <1>5, ExpireTyped
  <2> QED BY <1>6, <2>1 DEF Pruned
<1>13. BackFork(fork', old, chain', m, k)
  <2>1. ASSUME NEW n \in l + 1 .. m PROVE Alone(fork, n, chain'[n])
    <3>1. n \in 1 .. m
      BY <1>7
    <3> QED BY <1>4, <1>11, <3>1 DEF BackFork
  <2>2. \A i \in 1 .. Len(old) : m + i > l => Alone(fork, m + i, old[i])
    BY <1>4 DEF BackFork
  <2>3. (\E i \in 1 .. Len(old) : fork'.head = old[i]) \/ (\E i \in 1 .. m : fork'.head = chain'[i])
    BY <1>4, <1>11, <1>12 DEF BackFork
  <2>4. \A n \in 1 .. m : chain'[n] \notin {} /\ Num[chain'[n]] = n
    BY <1>11
  <2>5. \A i \in 1 .. Len(old) : old[i] \notin {} /\ Num[old[i]] = m + i
    BY <1>8
  <2>6. /\ fork'.index = {x \in fork.index : Num[x] >= h} \ {}
        /\ m \in Nat /\ l \in Nat /\ k \in Nat /\ l <= k
    BY <1>5, <1>7, <1>8, <1>12
  <2> HIDE DEF k, l
  <2>7. TurnedBack(fork, h, {}, fork', old, chain', m, l, k)
    BY <2>1, <2>2, <2>3, <2>4, <2>5, <2>6 DEF TurnedBack
  <2> QED BY <2>7, BackForkIs
<1>14. Branches(new, old, chain', m)
  <2>1. m # 0 => m \in 1 .. m
    <3>1. m \in Nat
      BY <1>8
    <3> QED BY <3>1
  <2>2. m <= Len(chain') /\ Len(chain') \in Nat /\ m \in Nat
    BY <1>8, <1>9, <1>10
  <2>3. m # 0 => chain'[m] = chain[m]
    BY <1>11, <2>1
  <2>4. Branches(new, old, chain, m)
    BY <1>8
  <2> QED BY <2>2, <2>3, <2>4, BranchesStay
<1>15. /\ Branches(new', old', chain', m) /\ Along(old', chain', m)
       /\ BackFork(fork', old', chain', m, Len(log'))
  BY <1>1, <1>10, <1>13, <1>14
<1>16. Len(chain') = m + at' - 1
  <2>1. m + (at + 1) - 1 = m + at
    BY <1>8, <1>9
  <2> QED BY <1>1, <1>10, <2>1
<1>17. pc' = "reapply" /\ DiskSound' /\ m = Num[old'[1]] - 1
  BY <1>1, <1>5, <1>8
<1> QED BY <1>15, <1>16, <1>17, ReapplyNext

------------------------------------------------------------------------------
(* Stops, crashes and starts. *)

(* What reaches the disk before a crash is sound, however little it is.    *)
LEMMA CrashInv ==
  ASSUME Cardinality(Witnesses) >= 2, Typed, ChainInv, NEW b, CrashInCommit(b)
  PROVE  ChainInv'
<1> DEFINE lib == LibWith(b)
<1>1. /\ Applying(b) /\ Accepts(b) /\ pc' = "down" /\ base' = Max({base, lib})
      /\ chain' = IF lib > Len(chain) THEN Append(chain, b) ELSE chain
      /\ \E k \in 0 .. Len(Appended(lib)) : log' = log \o SubSeq(Appended(lib), 1, k)
  BY DEF CrashInCommit, Down
<1>2. PICK k \in 0 .. Len(Appended(lib)) : log' = log \o SubSeq(Appended(lib), 1, k)
  BY <1>1
<1>3. lib = LibWith(b)
  OBVIOUS
<1> HIDE DEF lib
<1>4. b \in Blocks
  BY <1>1, ApplyingTyped
<1>5. DiskSound /\ Len(chain) \in Nat /\ DataTyped
  BY InvParts DEF Typed, DataTyped
<1>6. lib \in Nat /\ lib <= Len(chain)
  BY <1>3, <1>4, <1>5, LibWithIs
<1>7. FetchSafe
  <2>1. CASE pc = "extend" /\ b = new[1]
    <3>1. ExtendFork(fork, b, chain, Len(log))
      BY <2>1 DEF ChainInv
    <3> QED BY <1>4, <1>5, <1>6, <3>1, ExtendComplete
  <2>2. CASE pc = "apply"
    BY <2>2, ApplyFetch
  <2>3. CASE pc = "reapply"
    BY <2>3, ReapplyFetch
  <2> QED BY <1>1, <2>1, <2>2, <2>3 DEF Applying
<1>8. chain' = chain
  <2>1. ~ (lib > Len(chain))
    BY <1>5, <1>6
  <2> QED BY <1>1, <2>1
<1>9. DiskSound'
  BY <1>1, <1>2, <1>3, <1>4, <1>5, <1>7, <1>8, CommitSound
<1> QED BY <1>1, <1>9, DownNext

(* The fork database of a node that has just come up holds its head block. *)
LEMMA StartIdle ==
  ASSUME NEW f, NEW c \in Seq(Blocks), BranchOf(c), NEW n \in Nat,
         \/ c = << >> /\ f = EmptyForkDb(n)
         \/ c # << >> /\ f = StartBlock(EmptyForkDb(n), c[Len(c)])
  PROVE  IdleFork(f, c, Len(c))
<1>1. Len(c) \in Nat /\ Len(c) + 1 .. Len(c) = {}
  OBVIOUS
<1>2. \A J : Kept(J, c, Len(c))
  BY <1>1 DEF Kept
<1>3. CASE c = << >> /\ f = EmptyForkDb(n)
  <2>1. f.index = {} /\ f.head = NONE
    BY <1>3 DEF EmptyForkDb
  <2> QED BY <1>2, <1>3, <2>1 DEF IdleFork, HasTop, Whole, Below
<1>4. CASE c # << >> /\ f = StartBlock(EmptyForkDb(n), c[Len(c)])
  <2> DEFINE b == c[Len(c)]
  <2>1. b \in Blocks /\ Num[b] = Len(c)
    BY <1>4, TopIs
  <2>2. f.index = {b} /\ f.head = b
    BY <1>4 DEF StartBlock, EmptyForkDb
  <2>3. HasTop(f.index, c)
    BY <2>2 DEF HasTop
  <2> HIDE DEF b
  <2>4. ~ (Num[b] >= Len(c) + 2) /\ Num[b] <= Len(c)
    BY <1>1, <2>1
  <2>5. Whole(f, f.index, Len(c)) /\ Below(f.index, Len(c)) /\ f.head # NONE /\ Num[f.head] <= Len(c)
    BY <2>1, <2>2, <2>4, Constants DEF Whole, Below
  <2> QED BY <1>2, <2>3, <2>5 DEF IdleFork
<1> QED BY <1>3, <1>4

(* A start finds the chain that was irreversible, or rebuilds it.          *)
LEMMA StartInv ==
  ASSUME Typed, ChainInv, Open \/ Reindex \/ Resync
  PROVE  ChainInv'
<1>1. /\ pc = "down" /\ pc' = "idle"
  BY DEF Open, Reindex, Resync, Started
<1>2. fork = EmptyForkDb(DefaultMaxSize) /\ DefaultMaxSize \in Nat
  BY <1>1, Constants, TreeAssumption DEF Typed
<1>3. /\ chain \in Seq(Blocks) /\ log \in Seq(Blocks) /\ Sound(chain) /\ Len(chain) \in Nat /\ base \in Nat
      /\ base <= Len(chain) /\ Len(log) <= base /\ Len(log) \in Nat
      /\ \A i \in 1 .. Len(log) : log[i] = chain[i]
  BY InvParts
<1>4. ASSUME chain' \in Seq(Blocks), Sound(chain'), base' = Len(chain'), log' \in Seq(Blocks), Len(log') = Len(chain'),
             \A i \in 1 .. Len(log') : log'[i] = chain'[i], NEW n \in Nat,
             \/ chain' = << >> /\ fork' = EmptyForkDb(n)
             \/ chain' # << >> /\ fork' = StartBlock(EmptyForkDb(n), chain'[Len(chain')])
      PROVE  ChainInv'
  <2>1. BranchOf(chain')
    BY <1>4 DEF Sound
  <2>2. IdleFork(fork', chain', Len(chain'))
    BY <1>4, <2>1, StartIdle
  <2>3. Sound(chain)'
    BY <1>4 DEF Sound, BranchOf
  <2>4. DiskSound'
    <3>1. Len(log') <= base'
      BY <1>4
    <3> QED BY <1>4, <2>3, <3>1 DEF DiskSound
  <2>5. base' = Len(log') /\ IdleFork(fork', chain', Len(log'))
    BY <1>4, <2>2
  <2> QED BY <1>1, <2>4, <2>5, IdleNext
<1>5. CASE Open
  <2>1. /\ HeadInLog /\ chain' = SubSeq(chain, 1, base) /\ UNCHANGED <<base, log>>
        /\ fork' = IF base = 0 THEN fork ELSE StartBlock(fork, chain[base])
    BY <1>5 DEF Open
  <2>2. base = Len(log)
    <3>1. base > 0 => base <= Len(log)
      BY <2>1 DEF HeadInLog
    <3> QED BY <1>3, <3>1
  <2>3. base \in 0 .. Len(chain)
    BY <1>3
  <2>4. chain' \in Seq(Blocks) /\ Len(chain') = base /\ \A i \in 1 .. base : chain'[i] = chain[i]
    BY <1>3, <2>1, <2>3, StartOf
  <2>5. Sound(chain')
    BY <1>3, <2>4, SoundStart
  <2>6. \A i \in 1 .. Len(log') : log'[i] = chain'[i]
    BY <1>3, <2>1, <2>2, <2>4
  <2>7. \/ chain' = << >> /\ fork' = EmptyForkDb(DefaultMaxSize)
        \/ chain' # << >> /\ fork' = StartBlock(EmptyForkDb(DefaultMaxSize), chain'[Len(chain')])
    <3>1. CASE base = 0
      <4>1. chain' = << >>
        BY <2>4, <3>1
      <4> QED BY <1>2, <2>1, <3>1, <4>1
    <3>2. CASE base # 0
      <4>1. base \in 1 .. base /\ chain' # << >>
        BY <1>3, <2>4, <3>2
      <4>2. chain'[Len(chain')] = chain[base]
        BY <2>4, <4>1
      <4> QED BY <1>2, <2>1, <3>2, <4>1, <4>2
    <3> QED BY <3>1, <3>2
  <2>8. base' = Len(chain') /\ Len(log') = Len(chain') /\ log' \in Seq(Blocks)
    BY <1>3, <2>1, <2>2, <2>4
  <2> QED BY <1>2, <1>4, <2>4, <2>5, <2>6, <2>7, <2>8
<1>6. CASE Reindex
  <2> DEFINE n == Len(log) - Lib(log) + 1
  <2>1. /\ log # << >> /\ chain' = log /\ base' = Len(log) /\ UNCHANGED log
        /\ fork' = StartBlock(EmptyForkDb(n), Last(log))
    BY <1>6 DEF Reindex
  <2>2. n \in Nat
    <3>1. Lib(log) \in Nat /\ Lib(log) <= Len(log)
      BY <1>3, <2>1, LibWithin
    <3> QED BY <1>3, <3>1
  <2> HIDE DEF n
  <2>3. Sound(chain')
    <3>1. Len(log) <= Len(chain)
      BY <1>3
    <3> QED BY <1>3, <2>1, <3>1, SoundStart
  <2>4. fork' = StartBlock(EmptyForkDb(n), chain'[Len(chain')]) /\ chain' # << >>
    BY <2>1 DEF Last
  <2>5. /\ chain' \in Seq(Blocks) /\ base' = Len(chain') /\ Len(log') = Len(chain') /\ log' \in Seq(Blocks)
        /\ \A i \in 1 .. Len(log') : log'[i] = chain'[i]
    BY <1>3, <2>1
  <2> QED BY <1>4, <2>2, <2>3, <2>4, <2>5
<1>7. CASE Resync
  <2>1. log = << >> /\ chain' = << >> /\ base' = 0 /\ UNCHANGED <<log, fork>>
    BY <1>7 DEF Resync
  <2>2. /\ chain' \in Seq(Blocks) /\ Len(chain') = 0 /\ log' \in Seq(Blocks) /\ Len(log') = 0
        /\ 1 .. Len(log') = {} /\ 1 .. Len(chain') = {}
    BY <1>3, <2>1
  <2>3. Sound(chain')
    BY <2>2 DEF Sound, BranchOf
  <2> QED BY <1>2, <1>4, <2>1, <2>2, <2>3
<1> QED BY <1>5, <1>6, <1>7

(* A sound log is replayed to its end.                                     *)
LEMMA ReplayEnds ==
  ASSUME Typed, ChainInv
  PROVE  ~ ReindexThrows
<1>1. /\ log \in Seq(Blocks) /\ Sound(chain) /\ chain \in Seq(Blocks) /\ Len(log) \in Nat
      /\ Len(log) <= base /\ base <= Len(chain) /\ base \in Nat /\ Len(chain) \in Nat
      /\ \A i \in 1 .. Len(log) : log[i] = chain[i]
  BY InvParts
<1>2. Len(log) <= Len(chain)
  BY <1>1
<1>3. Sound(log)
  BY <1>1, <1>2, SoundStart
<1>4. ASSUME NEW n \in 0 .. Len(log) PROVE Replays(n)
  <2> SUFFICES ASSUME NEW i \in 1 .. n
               PROVE  /\ Prev[log[i]] = IF i = 1 THEN NONE ELSE log[i - 1]
                      /\ Fate[log[i]] \notin {"veto", "late"}
    BY DEF Replays
  <2>1. i \in 1 .. Len(log)
    BY <1>1
  <2> QED BY <1>3, <2>1 DEF Sound, BranchOf
<1>5. ASSUME NEW n \in 0 .. Len(log) - 1, Replays(n + 1) => Fate[log[n + 1]] = "early" PROVE FALSE
  <2>1. n + 1 \in 0 .. Len(log) /\ n + 1 \in 1 .. Len(log)
    BY <1>1
  <2>2. Fate[log[n + 1]] = "early"
    BY <1>4, <1>5, <2>1
  <2> QED BY <1>3, <2>1, <2>2 DEF Sound
<1> QED BY <1>5 DEF ReindexThrows

------------------------------------------------------------------------------
(* The theorems. *)

(* ChainInv is inductive for the steps that do not end Tidy.               *)
LEMMA NextInv ==
  ASSUME Cardinality(Witnesses) >= 2, Typed, ChainInv, [Next /\ ~ Spoils]_vars
  PROVE  ChainInv'
<1>1. CASE UNCHANGED vars
  <2>1. UNCHANGED <<chain, base, log, fork, pc, new, old, at>>
    BY <1>1 DEF vars
  <2>2. DiskSound'
    BY <2>1, InvParts, DiskStays
  <2>3. CASE pc = "idle"
    <3>1. base = Len(log) /\ IdleFork(fork, chain, Len(log))
      BY <2>3 DEF ChainInv
    <3>2. pc' = "idle" /\ base' = Len(log') /\ IdleFork(fork', chain', Len(log'))
      BY <2>1, <2>3, <3>1
    <3> QED BY <2>2, <3>2, IdleNext
  <2>4. CASE pc = "extend"
    <3>1. base = Len(log) /\ ExtendFork(fork, new[1], chain, Len(log))
      BY <2>4 DEF ChainInv
    <3>2. pc' = "extend" /\ base' = Len(log') /\ ExtendFork(fork', new'[1], chain', Len(log'))
      BY <2>1, <2>4, <3>1
    <3> QED BY <2>2, <3>2, ExtendNext
  <2>5. CASE pc = "down" \/ pc = "broken"
    BY <2>1, <2>2, <2>5 DEF ChainInv, Switching
  <2>6. CASE pc \in Switching
    <3> DEFINE m == ForkAt
    <3>1. m = Num[old'[1]] - 1 /\ m = ForkAt
      BY <2>1 DEF ForkAt
    <3>2. Branches(new, old, chain, m)
      BY <2>6 DEF ChainInv
    <3> HIDE DEF m
    <3>3. Branches(new', old', chain', m)
      BY <2>1, <3>2
    <3>4. CASE pc = "pop"
      <4>1. /\ base = Len(log) /\ SwitchFork(fork, new, old, chain, m, Len(log)) /\ Along(old, chain, m)
            /\ base > m \/ fork.head = new[Len(chain) - m + 1]
        BY <3>1, <3>4 DEF ChainInv
      <4>2. /\ base' = Len(log') /\ SwitchFork(fork', new', old', chain', m, Len(log')) /\ Along(old', chain', m)
            /\ pc' = "pop"
        BY <2>1, <3>4, <4>1
      <4>3. base' > m \/ fork'.head = new'[Len(chain') - m + 1]
        BY <2>1, <4>1
      <4> QED BY <2>2, <3>1, <3>3, <4>2, <4>3, PopNext
    <3>5. CASE pc = "apply"
      <4>1. /\ base = Len(log) /\ SwitchFork(fork, new, old, chain, m, Len(log)) /\ Along(new, chain, m)
            /\ Len(chain) = m + at - 1 /\ fork.head = new[1]
        BY <3>1, <3>5 DEF ChainInv
      <4>2. /\ base' = Len(log') /\ SwitchFork(fork', new', old', chain', m, Len(log')) /\ Along(new', chain', m)
            /\ pc' = "apply" /\ Len(chain') = m + at' - 1 /\ fork'.head = new'[1]
        BY <2>1, <3>5, <4>1
      <4> QED BY <2>2, <3>1, <3>3, <4>2, ApplyNext
    <3>6. CASE pc = "pop_bad"
      <4>1. BackFork(fork, old, chain, m, Len(log)) /\ Along(new, chain, m)
        BY <3>1, <3>6 DEF ChainInv
      <4>2. BackFork(fork', old', chain', m, Len(log')) /\ Along(new', chain', m) /\ pc' = "pop_bad"
        BY <2>1, <3>6, <4>1
      <4> QED BY <2>2, <3>1, <3>3, <4>2, PopBadNext
    <3>7. CASE pc = "reapply"
      <4>1. BackFork(fork, old, chain, m, Len(log)) /\ Along(old, chain, m) /\ Len(chain) = m + at - 1
        BY <3>1, <3>7 DEF ChainInv
      <4>2. /\ BackFork(fork', old', chain', m, Len(log')) /\ Along(old', chain', m) /\ pc' = "reapply"
            /\ Len(chain') = m + at' - 1
        BY <2>1, <3>7, <4>1
      <4> QED BY <2>2, <3>1, <3>3, <4>2, ReapplyNext
    <3> QED BY <2>6, <3>4, <3>5, <3>6, <3>7 DEF Switching
  <2>7. pc \in {"idle", "extend", "pop", "apply", "pop_bad", "reapply", "down", "broken"}
    BY DEF Typed
  <2> QED BY <2>3, <2>4, <2>5, <2>6, <2>7 DEF Switching
<1>2. CASE Next /\ ~ Spoils
  <2>1. ASSUME NEW b \in Blocks,
               PushRejected(b) \/ PushStored(b) \/ PushExtends(b) \/ PushSwitches(b)
        PROVE  ChainInv'
    <3>1. (PushSwitches(b) => pc' # "idle") /\ (PushExtends(b) => b \notin fork.index)
      BY <1>2 DEF Spoils, SwitchThrows
    <3> QED BY <2>1, <3>1, StoredInv, PushExtendsInv, PushSwitchesInv
  <2>2. ASSUME Step PROVE ChainInv'
    <3>1. /\ ~ PopThrows /\ ~ ReapplyFails /\ (Reapply => pc' # "idle")
          /\ (ExtendFails => ~ Vetoed(new[1])) /\ (ApplyNewFails => ~ Vetoed(new[at]))
      BY <1>2 DEF Spoils, SwitchThrows
    <3>2. PopBlock => pc = "pop" \/ pc = "pop_bad"
      BY DEF PopBlock
    <3>3. \/ ExtendChain \/ ExtendFails \/ PopBlock \/ PopsDone
          \/ ApplyNew \/ ApplyNewFails \/ Reapply
      BY <2>2, <3>1 DEF Step
    <3> QED BY <3>1, <3>2, <3>3, ExtendInv, PopInv, PopBadInv, PopsDoneInv,
               ApplyNewInv, ApplyNewFailsInv, ReapplyInv
  <2>3. ASSUME Stop PROVE ChainInv'
    <3>1. pc' = "down" /\ UNCHANGED <<chain, base, log>>
      BY <2>3 DEF Stop, Down
    <3>2. DiskSound'
      BY <3>1, InvParts, DiskStays
    <3> QED BY <3>1, <3>2, DownNext
  <2>4. ASSUME Startup PROVE ChainInv'
    <3>1. Open \/ Reindex \/ Resync \/ UNCHANGED vars
      BY <2>4, ReplayEnds, Zenon DEF Startup, StartAgain
    <3> QED BY <1>1, <3>1, StartInv
  <2> QED BY <1>2, <2>1, <2>2, <2>3, <2>4, CrashInv DEF Next
<1> QED BY <1>1, <1>2

(* A node that has never been started.                                     *)
LEMMA InitInv == Init => ChainInv
<1> SUFFICES ASSUME Init PROVE ChainInv
  OBVIOUS
<1>1. /\ chain = << >> /\ base = 0 /\ log = << >> /\ pc = "idle"
      /\ fork = EmptyForkDb(DefaultMaxSize)
  BY DEF Init
<1>2. Len(chain) = 0 /\ Len(log) = 0 /\ 1 .. Len(chain) = {} /\ 1 .. Len(log) = {} /\ chain \in Seq(Blocks)
  BY <1>1
<1>3. BranchOf(chain) /\ Sound(chain)
  BY <1>2 DEF Sound, BranchOf
<1>4. DiskSound
  BY <1>1, <1>2, <1>3 DEF DiskSound
<1>5. IdleFork(fork, chain, Len(log))
  <2>1. DefaultMaxSize \in Nat
    BY Constants
  <2>2. IdleFork(fork, chain, Len(chain))
    BY <1>1, <1>2, <1>3, <2>1, StartIdle
  <2> QED BY <1>2, <2>2
<1> QED BY <1>1, <1>2, <1>4, <1>5 DEF ChainInv, Switching

(* ChainInv holds as long as Tidy does.                                    *)
LEMMA AlwaysInv ==
  ASSUME Cardinality(Witnesses) >= 2
  PROVE  Spec => [](Typed /\ Counted /\ (Tidy => ChainInv))
<1> DEFINE J == Typed /\ Counted /\ (Tidy => ChainInv)
<1>1. Init => J
  BY InitTyped, InitInv, ChainAssumption DEF Init, Counted, Tidy
<1>2. J /\ [Next]_vars => J'
  BY NextKeeps, NextCounts, NextInv
<1> QED BY <1>1, <1>2, PTL DEF Spec

(* A branch of blocks none of which was refused at its end.                *)
Joined(c) == BranchOf(c) /\ \A i \in 1 .. Len(c) : Fate[c[i]] \in {"ok", "flaky", "early"}

(* apply_block() leaves such a chain, whether it ends well or not.         *)
LEMMA ApplyJoins ==
  ASSUME Cardinality(Witnesses) >= 2, Typed, Joined(chain), NEW b \in Blocks,
         NEW lib, lib = LibWith(b), ApplyBlock(b, lib) \/ FailToApply(b, lib)
  PROVE  Joined(chain')
<1>1. DataTyped /\ chain \in Seq(Blocks) /\ Len(chain) \in Nat
  BY DEF Typed, DataTyped
<1>2. lib \in Nat /\ lib <= Len(chain)
  BY <1>1, LibWithIs
<1>3. CASE ApplyBlock(b, lib)
  <2>1. chain' = Append(chain, b) /\ Prev[b] = Top(chain) /\ Fate[b] \in {"ok", "flaky", "early"}
    BY <1>3 DEF ApplyBlock, Accepts, HeadBlock, Top
  <2>2. Joined(Append(chain, b))
    BY <1>1, <2>1, BranchMore DEF Joined
  <2> QED BY <2>1, <2>2
<1>4. CASE FailToApply(b, lib)
  <2>1. ~ (lib > Len(chain))
    BY <1>1, <1>2
  <2>2. chain' = chain
    BY <1>4, <2>1 DEF FailToApply
  <2> QED BY <2>2
<1> QED BY <1>3, <1>4

(* Every step leaves such a chain: a block is applied only on top of the   *)
(* last one, and a replay checks what it applies.                          *)
LEMMA NextJoins ==
  ASSUME Cardinality(Witnesses) >= 2, Typed, Joined(chain), [Next]_vars
  PROVE  Joined(chain')
<1>1. /\ chain \in Seq(Blocks) /\ Len(chain) \in Nat /\ base \in Nat /\ base <= Len(chain)
      /\ base \in 0 .. Len(chain) /\ log \in Seq(Blocks) /\ Len(log) \in Nat /\ DataTyped
  BY DEF Typed, DataTyped
<1>2. ASSUME NEW n \in 0 .. Len(chain), chain' = SubSeq(chain, 1, n) PROVE Joined(chain')
  <2>1. chain' \in Seq(Blocks) /\ Len(chain') = n /\ \A i \in 1 .. n : chain'[i] = chain[i]
    BY <1>1, <1>2, StartOf
  <2>2. Len(chain') <= Len(chain)
    BY <1>1, <2>1
  <2> QED BY <1>1, <2>1, <2>2, BranchStart DEF Joined
<1>3. ASSUME NEW n \in 0 .. Len(log), Replays(n), chain' = SubSeq(log, 1, n) PROVE Joined(chain')
  <2>1. chain' \in Seq(Blocks) /\ Len(chain') = n /\ \A i \in 1 .. n : chain'[i] = log[i]
    BY <1>1, <1>3, StartOf
  <2>2. ASSUME NEW i \in 1 .. n
        PROVE  Prev[chain'[i]] = (IF i = 1 THEN NONE ELSE chain'[i - 1])
               /\ Fate[chain'[i]] \in {"ok", "flaky", "early"}
    <3>1. i \in 1 .. Len(log) /\ (i # 1 => i - 1 \in 1 .. n)
      BY <1>1
    <3>2. log[i] \in Blocks
      BY <1>1, <3>1, ElementOfSeq
    <3>3. Fate[log[i]] \in {"ok", "early", "veto", "late", "flaky"}
      BY <3>2, ChainAssumption
    <3>4. Prev[log[i]] = (IF i = 1 THEN NONE ELSE log[i - 1]) /\ Fate[log[i]] \notin {"veto", "late"}
      BY <1>3 DEF Replays
    <3> QED BY <2>1, <3>1, <3>3, <3>4
  <2> QED BY <2>1, <2>2 DEF Joined, BranchOf
<1>4. ASSUME UNCHANGED chain PROVE Joined(chain')
  BY <1>4
<1>5. ASSUME ExtendChain \/ ExtendFails PROVE Joined(chain')
  <2>1. new[1] \in Blocks
    BY <1>5, ApplyingTyped DEF ExtendChain, ExtendFails, Applying
  <2>2. ApplyBlock(new[1], LibWith(new[1])) \/ FailToApply(new[1], LibWith(new[1]))
    BY <1>5 DEF ExtendChain, ExtendFails
  <2> QED BY <2>1, <2>2, ApplyJoins
<1>6. ASSUME ApplyNew \/ ApplyNewFails PROVE Joined(chain')
  <2>1. new[at] \in Blocks
    BY <1>6, ApplyingTyped DEF ApplyNew, ApplyNewFails, Applying
  <2>2. ApplyBlock(new[at], LibWith(new[at])) \/ FailToApply(new[at], LibWith(new[at]))
    BY <1>6 DEF ApplyNew, ApplyNewFails
  <2> QED BY <2>1, <2>2, ApplyJoins
<1>7. ASSUME Reapply \/ ReapplyFails PROVE Joined(chain')
  <2>1. old[at] \in Blocks
    BY <1>7, ApplyingTyped DEF Reapply, ReapplyFails, Applying
  <2>2. ApplyBlock(old[at], LibWith(old[at])) \/ FailToApply(old[at], LibWith(old[at]))
    BY <1>7 DEF Reapply, ReapplyFails
  <2> QED BY <2>1, <2>2, ApplyJoins
<1>8. ASSUME PopBlock PROVE Joined(chain')
  <2>1. CASE Len(chain) > base
    <3>1. chain' = SubSeq(chain, 1, Len(chain) - 1) /\ Len(chain) - 1 \in 0 .. Len(chain)
      BY <1>1, <1>8, <2>1 DEF PopBlock, Front
    <3> QED BY <1>2, <3>1
  <2>2. CASE ~ (Len(chain) > base)
    BY <1>4, <1>8, <2>2 DEF PopBlock
  <2> QED BY <2>1, <2>2
<1>9. ASSUME NEW b \in Blocks, CrashInCommit(b) PROVE Joined(chain')
  <2>1. ~ (LibWith(b) > Len(chain))
    BY <1>1, LibWithIs
  <2> QED BY <1>4, <1>9, <2>1 DEF CrashInCommit
<1>10. ASSUME Open \/ Reindex \/ Resync PROVE Joined(chain')
  <2>1. CASE Open
    BY <1>1, <1>2, <2>1 DEF Open
  <2>2. CASE Reindex
    <3>1. chain' = SubSeq(log, 1, Len(log)) /\ Replays(Len(log)) /\ Len(log) \in 0 .. Len(log)
      BY <1>1, <2>2 DEF Reindex
    <3> QED BY <1>3, <3>1
  <2>3. CASE Resync
    <3>1. chain' = SubSeq(chain, 1, 0) /\ 0 \in 0 .. Len(chain)
      BY <1>1, <2>3 DEF Resync
    <3> QED BY <1>2, <3>1
  <2> QED BY <1>10, <2>1, <2>2, <2>3
<1>11. ASSUME ReindexThrows PROVE Joined(chain')
  <2>1. PICK n \in 0 .. Len(log) - 1 : Replays(n) /\ chain' = SubSeq(log, 1, n)
    BY <1>11 DEF ReindexThrows
  <2>2. n \in 0 .. Len(log)
    BY <1>1
  <2> QED BY <1>3, <2>1, <2>2
<1>12. ASSUME \E b \in Blocks : PushRejected(b) \/ PushStored(b) \/ PushExtends(b) \/ PushSwitches(b)
       PROVE  Joined(chain')
  BY <1>4, <1>12 DEF PushRejected, PushStored, PushExtends, PushSwitches, Deliver
<1>13. ASSUME PopThrows \/ PopsDone \/ Stop \/ StartAgain \/ UNCHANGED vars PROVE Joined(chain')
  BY <1>4, <1>13 DEF PopThrows, PopsDone, Stop, StartAgain, vars
<1> QED BY <1>5, <1>6, <1>7, <1>8, <1>9, <1>10, <1>11, <1>12, <1>13 DEF Next, Step, Startup

(* ChainIsBranch, for any tree of blocks, any fates of theirs and two      *)
(* witnesses or more: push_block() leaves one branch of applied blocks,    *)
(* through extensions and switches that end well or throw, blocks pushed   *)
(* again, vetoes, crashes, restarts and replays.                           *)
THEOREM ChainStaysBranch ==
  ASSUME Cardinality(Witnesses) >= 2
  PROVE  Spec => []ChainIsBranch
<1>1. Typed /\ Counted /\ (Tidy => ChainInv) /\ Joined(chain) => ChainIsBranch
  <2> SUFFICES ASSUME Typed, Counted, Tidy => ChainInv, Joined(chain) PROVE ChainIsBranch
    OBVIOUS
  <2>1. TypeOK
    BY DEF Typed, ForkTyped, TypeOK, Counted
  <2>2. Tidy => Sound(chain)
    BY InvParts
  <2> QED BY <2>1, <2>2 DEF ChainIsBranch, Sound, Joined, BranchOf
<1>2. Init => Joined(chain)
  BY DEF Init, Joined, BranchOf
<1>3. Typed /\ Joined(chain) /\ [Next]_vars => Joined(chain)'
  BY NextJoins DEF Joined, BranchOf
<1> QED BY <1>1, <1>2, <1>3, AlwaysInv, AlwaysTyped, PTL DEF Spec

(* LogSound, for the same: until a switch throws, a handler vetoes a block *)
(* or a known block is pushed on top of one that failed, the block log is  *)
(* the start of the chain, and open() finds its head block in it.          *)
THEOREM LogStaysSound ==
  ASSUME Cardinality(Witnesses) >= 2
  PROVE  Spec => []LogSound
<1>1. Typed /\ ChainInv => LogSound
  <2> SUFFICES ASSUME Typed, ChainInv PROVE LogSound
    OBVIOUS
  <2>1. /\ chain \in Seq(Blocks) /\ log \in Seq(Blocks) /\ Len(chain) \in Nat /\ Len(log) \in Nat
        /\ base \in Nat /\ base <= Len(chain) /\ Len(log) <= base
        /\ \A i \in 1 .. Len(log) : log[i] = chain[i]
    BY InvParts
  <2>2. LogFollowsChain
    <3> DEFINE s == SubSeq(chain, 1, base)
    <3>1. base \in 0 .. Len(chain)
      BY <2>1
    <3>2. s \in Seq(Blocks) /\ Len(s) = base /\ \A i \in 1 .. base : s[i] = chain[i]
      BY <2>1, <3>1, StartOf
    <3> HIDE DEF s
    <3>3. \A i \in 1 .. Len(log) : i \in 1 .. base
      BY <2>1
    <3>4. \A i \in 1 .. Len(log) : log[i] = s[i]
      BY <2>1, <3>2, <3>3
    <3>5. Len(log) <= Len(s)
      BY <2>1, <3>2
    <3>6. IsPrefix(log, s)
      BY <2>1, <3>2, <3>4, <3>5, PrefixOf
    <3> QED BY <3>6 DEF LogFollowsChain, s
  <2>3. ASSUME pc = "idle" PROVE HeadInLog
    <3>1. base = Len(log)
      BY <2>3 DEF ChainInv
    <3>2. base > 0 => base \in 1 .. Len(log) /\ base <= Len(log)
      BY <2>1, <3>1
    <3> QED BY <2>1, <3>2 DEF HeadInLog
  <2> QED BY <2>2, <2>3 DEF LogSound, RestartFindsHead
<1>2. ~ Tidy => LogSound
  BY DEF LogSound
<1> QED BY <1>1, <1>2, AlwaysInv, PTL

(* OnHighestBranch, for the same: between two calls no block the node      *)
(* knows is higher than its chain, until a call throws.                    *)
THEOREM HighestBranchTaken ==
  ASSUME Cardinality(Witnesses) >= 2
  PROVE  Spec => []OnHighestBranch
<1>1. Typed /\ ChainInv => OnHighestBranch
  BY DEF ChainInv, IdleFork, Below, OnHighestBranch
<1>2. Counted /\ ~ Tidy => OnHighestBranch
  BY DEF Counted, OnHighestBranch
<1> QED BY <1>1, <1>2, AlwaysInv, PTL

------------------------------------------------------------------------------
(* What peers are told. *)

(* The path of PathTo() exists.                                            *)
LEMMA PathExists ==
  \E g : g = [c \in Blocks |-> IF Prev[c] = NONE THEN <<c>> ELSE Append(g[Prev[c]], c)]
<1> DEFINE f == [index |-> {}, linked |-> {b \in Blocks : Prev[b] # NONE}, head |-> NONE,
                 anchored |-> FALSE, max_size |-> 0]
           N == Blocks \cup {NONE}
           s(c) == [n \in 1 .. Num[c] |-> Ancestor(f, c, n)]
           g == [c \in Blocks |-> s(c)]
<1>1. ForkTyped(f) /\ f.linked = {b \in Blocks : Prev[b] # NONE}
  BY FS_EmptySet DEF ForkTyped, ForkDatabases
<1> HIDE DEF f
<1>2. ASSUME NEW c \in Blocks
      PROVE  s(c) \in Seq(N) /\ Len(s(c)) = Num[c] /\ \A n \in 1 .. Num[c] : s(c)[n] = Ancestor(f, c, n)
  <2>1. \A n \in 1 .. Num[c] : Ancestor(f, c, n) \in N
    BY <1>1, AncestorIs
  <2>2. Num[c] \in Nat
    BY Constants
  <2> QED BY <2>1, <2>2
<1>3. \A c \in Blocks : g[c] = s(c)
  OBVIOUS
<1>4. ASSUME NEW c \in Blocks, Prev[c] = NONE PROVE g[c] = <<c>>
  <2>1. Num[c] = 1 /\ Ancestor(f, c, 1) = c
    BY <1>1, <1>4, AncestorIs, Constants
  <2>2. s(c) \in Seq(N) /\ Len(s(c)) = 1 /\ s(c)[1] = c
    BY <1>2, <2>1
  <2>3. <<c>> \in Seq(N) /\ Len(<<c>>) = 1 /\ <<c>>[1] = c
    OBVIOUS
  <2> HIDE DEF s
  <2> QED BY <1>3, <2>2, <2>3, SeqEqual
<1>5. ASSUME NEW c \in Blocks, Prev[c] # NONE PROVE g[c] = Append(g[Prev[c]], c)
  <2> DEFINE p == s(Prev[c])
             q == s(c)
  <2>1. Prev[c] \in Blocks /\ Num[c] = Num[Prev[c]] + 1 /\ Num[Prev[c]] \in Nat /\ c \in f.linked
    BY <1>1, <1>5, Constants
  <2>2. p \in Seq(N) /\ Len(p) = Num[Prev[c]] /\ \A n \in 1 .. Num[Prev[c]] : p[n] = Ancestor(f, Prev[c], n)
    BY <1>2, <2>1
  <2>3. q \in Seq(N) /\ Len(q) = Num[c] /\ \A n \in 1 .. Num[c] : q[n] = Ancestor(f, c, n)
    BY <1>2
  <2>4. g[c] = q /\ g[Prev[c]] = p
    BY <1>3, <2>1
  <2> HIDE DEF p, q, g, s
  <2>5. ASSUME NEW n \in 1 .. Num[Prev[c]] PROVE Ancestor(f, c, n) = Ancestor(f, Prev[c], n)
    <3>1. Num[c] # n /\ Num[c] > n
      BY <2>1
    <3> QED BY <1>1, <2>1, <3>1, AncestorIs
  <2>6. Ancestor(f, c, Num[c]) = c
    BY <1>1, AncestorIs
  <2>7. Append(p, c) \in Seq(N) /\ Len(Append(p, c)) = Num[c]
    BY <2>1, <2>2
  <2>8. ASSUME NEW n \in 1 .. Num[c] PROVE Append(p, c)[n] = q[n]
    <3>1. CASE n \in 1 .. Num[Prev[c]]
      <4>1. Append(p, c)[n] = p[n]
        BY <2>2, <3>1
      <4> QED BY <2>2, <2>3, <2>5, <3>1, <4>1
    <3>2. CASE n = Num[c]
      <4>1. Append(p, c)[n] = c
        BY <2>1, <2>2, <3>2
      <4> QED BY <2>3, <2>6, <3>2, <4>1
    <3>3. n \in 1 .. Num[Prev[c]] \/ n = Num[c]
      BY <2>1
    <3> QED BY <3>1, <3>2, <3>3
  <2>9. Append(p, c) = q
    BY <2>3, <2>7, <2>8, SeqEqual
  <2> QED BY <2>4, <2>9
<1>6. \A c \in Blocks : g[c] = IF Prev[c] = NONE THEN <<c>> ELSE Append(g[Prev[c]], c)
  BY <1>4, <1>5
<1>7. g = [c \in Blocks |-> g[c]]
  OBVIOUS
<1> HIDE DEF g
<1>8. g = [c \in Blocks |-> IF Prev[c] = NONE THEN <<c>> ELSE Append(g[Prev[c]], c)]
  BY <1>6, <1>7
<1> QED BY <1>8

(* The blocks up to b are a branch that ends with b.                       *)
LEMMA PathToIs ==
  ASSUME NEW b \in Blocks
  PROVE  /\ PathTo(b) \in Seq(Blocks) /\ Len(PathTo(b)) = Num[b] /\ BranchOf(PathTo(b))
         /\ PathTo(b)[Num[b]] = b
<1> DEFINE Paths(g) == g = [c \in Blocks |-> IF Prev[c] = NONE THEN <<c>> ELSE Append(g[Prev[c]], c)]
           path == CHOOSE g : Paths(g)
           Good(p, c) == p \in Seq(Blocks) /\ Len(p) = Num[c] /\ BranchOf(p) /\ p[Num[c]] = c
           T == {Num[c] : c \in {d \in Blocks : ~ Good(path[d], d)}}
<1>1. \A c : PathTo(c) = path[c]
  BY DEF PathTo
<1>2. \E g : Paths(g)
  BY PathExists
<1> HIDE DEF Paths
<1>3. Paths(path)
  BY <1>2
<1> HIDE DEF path
<1>4. \A c \in Blocks : path[c] = IF Prev[c] = NONE THEN <<c>> ELSE Append(path[Prev[c]], c)
  BY <1>3 DEF Paths
<1>5. ASSUME NEW c \in Blocks, Prev[c] = NONE PROVE Good(path[c], c)
  <2>1. path[c] = <<c>> /\ Num[c] = 1
    BY <1>4, <1>5, Constants
  <2>2. <<c>> \in Seq(Blocks) /\ Len(<<c>>) = 1 /\ <<c>>[1] = c
    OBVIOUS
  <2>3. BranchOf(<<c>>)
    BY <1>5, <2>2 DEF BranchOf
  <2> QED BY <2>1, <2>2, <2>3
<1>6. ASSUME NEW c \in Blocks, Prev[c] # NONE, Good(path[Prev[c]], Prev[c]) PROVE Good(path[c], c)
  <2> DEFINE p == path[Prev[c]]
             q == Append(p, c)
  <2>1. Prev[c] \in Blocks /\ Num[c] = Num[Prev[c]] + 1 /\ Num[Prev[c]] \in Nat /\ Num[Prev[c]] >= 1
    BY <1>6, Constants
  <2>2. p \in Seq(Blocks) /\ Len(p) = Num[Prev[c]] /\ BranchOf(p) /\ p[Num[Prev[c]]] = Prev[c]
    BY <1>6
  <2>3. path[c] = q
    BY <1>4, <1>6
  <2> HIDE DEF p
  <2>4. /\ q \in Seq(Blocks) /\ Len(q) = Num[c] /\ q[Num[c]] = c
        /\ \A i \in 1 .. Num[Prev[c]] : q[i] = p[i]
    BY <2>1, <2>2
  <2> HIDE DEF q
  <2>5. ASSUME NEW i \in 1 .. Len(q) PROVE Prev[q[i]] = IF i = 1 THEN NONE ELSE q[i - 1]
    <3>1. CASE i \in 1 .. Num[Prev[c]]
      <4>1. i # 1 => i - 1 \in 1 .. Num[Prev[c]]
        BY <2>1, <3>1
      <4> QED BY <2>2, <2>4, <3>1, <4>1 DEF BranchOf
    <3>2. CASE i = Num[c]
      <4>1. i # 1 /\ i - 1 = Num[Prev[c]] /\ i - 1 \in 1 .. Num[Prev[c]]
        BY <2>1, <3>2
      <4> QED BY <2>2, <2>4, <3>2, <4>1
    <3> QED BY <2>1, <2>4, <3>1, <3>2
  <2> QED BY <2>3, <2>4, <2>5 DEF BranchOf
<1> HIDE DEF Good
<1>7. T \in SUBSET Nat
  BY Constants
<1>8. T = {}
  <2> SUFFICES ASSUME T # {} PROVE FALSE
    OBVIOUS
  <2>1. PICK x \in T : \A y \in T : x <= y
    BY <1>7, LeastNumber
  <2>2. PICK c \in Blocks : ~ Good(path[c], c) /\ x = Num[c]
    OBVIOUS
  <2>3. Prev[c] # NONE /\ ~ Good(path[Prev[c]], Prev[c])
    BY <1>5, <1>6, <2>2
  <2>4. Prev[c] \in Blocks /\ Num[c] = Num[Prev[c]] + 1 /\ Num[Prev[c]] \in Nat
    BY <2>2, <2>3, Constants
  <2>5. x <= Num[Prev[c]]
    BY <2>1, <2>3, <2>4
  <2> QED BY <2>2, <2>4, <2>5
<1>9. Good(path[b], b)
  BY <1>8
<1> QED BY <1>1, <1>9 DEF Good

(* Two branches that share a block are the same up to it.                  *)
LEMMA BranchesShare ==
  ASSUME NEW c \in Seq(Blocks), BranchOf(c), NEW d \in Seq(Blocks), BranchOf(d),
         NEW k \in 1 .. Len(c), k <= Len(d), c[k] = d[k]
  PROVE  \A i \in 1 .. k : c[i] = d[i]
<1> DEFINE T == {k - i : i \in {j \in 1 .. k : c[j] # d[j]}}
<1>0. k \in Nat /\ Len(c) \in Nat /\ Len(d) \in Nat /\ k <= Len(c)
  OBVIOUS
<1>1. T \in SUBSET Nat
  OBVIOUS
<1>2. T = {}
  <2> SUFFICES ASSUME T # {} PROVE FALSE
    OBVIOUS
  <2>1. PICK x \in T : \A y \in T : x <= y
    BY <1>1, LeastNumber
  <2>2. PICK i \in 1 .. k : c[i] # d[i] /\ x = k - i
    OBVIOUS
  <2>3. i + 1 \in 1 .. k /\ i + 1 \in 1 .. Len(c) /\ i + 1 \in 1 .. Len(d) /\ i + 1 # 1 /\ (i + 1) - 1 = i
    BY <1>0, <2>2
  <2>4. c[i + 1] = d[i + 1]
    <3>1. SUFFICES ASSUME c[i + 1] # d[i + 1] PROVE FALSE
      OBVIOUS
    <3>2. k - (i + 1) \in T
      BY <2>3, <3>1
    <3>3. x <= k - (i + 1)
      BY <2>1, <3>2
    <3> QED BY <1>0, <2>2, <3>3
  <2>5. Prev[c[i + 1]] = c[i] /\ Prev[d[i + 1]] = d[i]
    BY <2>3 DEF BranchOf
  <2> QED BY <2>2, <2>4, <2>5
<1> QED BY <1>2

(* The next number of a synopsis is higher; without more blocks to come it *)
(* does not go past the end before it has been there.                      *)
LEMMA HalfWay ==
  ASSUME NEW high \in Nat, NEW after \in Nat, NEW n \in Nat, n <= high,
         NEW m, m = n + (high + after - n + 2) \div 2
  PROVE  m \in Nat /\ m >= n + 1 /\ (after = 0 => n = high \/ m <= high)
<1> DEFINE k == high - n
           h == (k + after + 2) \div 2
<1>1. k \in Nat /\ high = n + k /\ high + after - n + 2 = k + after + 2
  OBVIOUS
<1>2. h \in Nat /\ h >= 1 /\ 2 * h <= k + after + 2
  OBVIOUS
<1>3. m = n + h
  BY <1>1
<1> HIDE DEF h, k
<1> QED BY <1>1, <1>2, <1>3

(* The numbers of SynopsisNums() exist.                                    *)
LEMMA NumsExist ==
  ASSUME NEW high \in Nat, NEW after \in Nat
  PROVE  \E g : g = [n \in Nat |-> IF n > high THEN << >>
                                   ELSE <<n>> \o g[n + (high + after - n + 2) \div 2]]
<1> DEFINE next(n) == n + (high + after - n + 2) \div 2
           step(g, n) == IF n > high THEN << >> ELSE <<n>> \o g[next(n)]
           E(k) == \E g : \A n \in Nat : n + k > high => g[n] = step(g, n)
           T == {k \in Nat : ~ E(k)}
<1>1. \A n \in Nat : n <= high => next(n) \in Nat /\ next(n) >= n + 1
  BY HalfWay
<1> HIDE DEF next
<1>2. E(0)
  <2> DEFINE g == [n \in Nat |-> << >>]
  <2>1. \A n \in Nat : n + 0 > high => g[n] = step(g, n)
    OBVIOUS
  <2> HIDE DEF g, step
  <2> QED BY <2>1
<1>3. ASSUME NEW k \in Nat, E(k) PROVE E(k + 1)
  <2>1. PICK g : \A n \in Nat : n + k > high => g[n] = step(g, n)
    BY <1>3
  <2> DEFINE h == [n \in Nat |-> IF n + k > high THEN g[n] ELSE step(g, n)]
  <2>2. \A n \in Nat : h[n] = step(g, n)
    BY <2>1
  <2>3. \A n \in Nat : n + k > high => h[n] = g[n]
    OBVIOUS
  <2> HIDE DEF h
  <2>4. ASSUME NEW n \in Nat, n + (k + 1) > high PROVE h[n] = step(h, n)
    <3>1. CASE n > high
      BY <2>2, <3>1
    <3>2. CASE ~ (n > high)
      <4>1. next(n) \in Nat /\ next(n) >= n + 1
        BY <1>1, <3>2
      <4>2. next(n) + k > high
        BY <2>4, <4>1
      <4>3. h[next(n)] = g[next(n)]
        BY <2>3, <4>1, <4>2
      <4> QED BY <2>2, <3>2, <4>3
    <3> QED BY <3>1, <3>2
  <2> HIDE DEF step
  <2> QED BY <2>4
<1> HIDE DEF E
<1>4. T = {}
  <2> SUFFICES ASSUME T # {} PROVE FALSE
    OBVIOUS
  <2>1. PICK k \in T : \A y \in T : k <= y
    BY LeastNumber
  <2>2. k \in Nat /\ ~ E(k)
    OBVIOUS
  <2>3. k # 0
    BY <1>2, <2>2
  <2>4. k - 1 \in Nat /\ ~ (k <= k - 1) /\ (k - 1) + 1 = k
    BY <2>2, <2>3
  <2>5. E(k - 1)
    BY <2>1, <2>4
  <2>6. E((k - 1) + 1)
    BY <1>3, <2>4, <2>5
  <2> QED BY <2>2, <2>4, <2>6
<1>5. E(high + 1)
  BY <1>4
<1>6. PICK g : \A n \in Nat : n + (high + 1) > high => g[n] = step(g, n)
  BY <1>5 DEF E
<1>7. \A n \in Nat : n + (high + 1) > high
  OBVIOUS
<1>8. \A n \in Nat : g[n] = step(g, n)
  BY <1>6, <1>7
<1> DEFINE h == [n \in Nat |-> g[n]]
<1>9. \A n \in Nat : h[n] = g[n]
  OBVIOUS
<1>10. h = [n \in Nat |-> h[n]]
  OBVIOUS
<1> HIDE DEF h
<1>11. ASSUME NEW n \in Nat PROVE h[n] = step(h, n)
  <2>1. CASE n > high
    BY <1>8, <1>9, <2>1
  <2>2. CASE ~ (n > high)
    <3>1. h[next(n)] = g[next(n)]
      BY <1>1, <1>9, <2>2
    <3> QED BY <1>8, <1>9, <2>2, <3>1
  <2> QED BY <2>1, <2>2
<1>12. h = [n \in Nat |-> step(h, n)]
  <2> HIDE DEF step
  <2> QED BY <1>10, <1>11
<1> QED BY <1>12 DEF step, next

(* Numbers that rise from low, none above high.                            *)
RiseTo(s, low, high) ==
  /\ s \in Seq(Nat) /\ Len(s) \in Nat /\ Len(s) >= 1 /\ s[1] = low
  /\ \A i \in 1 .. Len(s) : s[i] \in Nat /\ low <= s[i] /\ s[i] <= high
  /\ \A i, j \in 1 .. Len(s) : i < j => s[i] < s[j]

(* The numbers of a synopsis are such, and the last one is high unless     *)
(* more blocks are known to follow.                                        *)
LEMMA NumsRise ==
  ASSUME NEW high \in Nat, NEW after \in Nat, NEW low \in 1 .. high
  PROVE  /\ RiseTo(SynopsisNums(low, high, after), low, high)
         /\ after = 0 => Last(SynopsisNums(low, high, after)) = high
<1> DEFINE next(n) == n + (high + after - n + 2) \div 2
           Steps(g) == g = [n \in Nat |-> IF n > high THEN << >> ELSE <<n>> \o g[next(n)]]
           from == CHOOSE g : Steps(g)
           Good(n, t) ==
             /\ t \in Seq(Nat) /\ Len(t) \in Nat /\ Len(t) >= 1 /\ t[1] = n
             /\ \A i \in 1 .. Len(t) : t[i] \in Nat /\ n <= t[i] /\ t[i] <= high
             /\ \A i, j \in 1 .. Len(t) : i < j => t[i] < t[j]
             /\ after = 0 => t[Len(t)] = high
           T == {high - n : n \in {m \in 0 .. high : ~ Good(m, from[m])}}
<1>1. SynopsisNums(low, high, after) = from[low]
  BY DEF SynopsisNums
<1>2. \E g : Steps(g)
  BY NumsExist
<1>3. \A n \in Nat : n <= high => next(n) \in Nat /\ next(n) >= n + 1 /\ (after = 0 => n = high \/ next(n) <= high)
  BY HalfWay
<1> HIDE DEF next, Steps
<1>4. Steps(from)
  BY <1>2
<1> HIDE DEF from
<1>5. \A n \in Nat : from[n] = IF n > high THEN << >> ELSE <<n>> \o from[next(n)]
  BY <1>4 DEF Steps
<1>6. ASSUME NEW n \in 0 .. high, next(n) > high PROVE Good(n, from[n])
  <2>1. n \in Nat /\ n <= high /\ next(n) \in Nat
    BY <1>3
  <2>2. from[next(n)] = << >>
    BY <1>5, <1>6, <2>1
  <2>3. from[n] = <<n>> \o << >>
    <3>1. ~ (n > high)
      BY <2>1
    <3> QED BY <1>5, <2>1, <2>2, <3>1, Zenon
  <2>4. <<n>> \o << >> = <<n>>
    OBVIOUS
  <2>5. after = 0 => n = high
    BY <1>3, <1>6, <2>1
  <2>6. from[n] = <<n>>
    BY <2>3, <2>4
  <2>7. <<n>> \in Seq(Nat) /\ Len(<<n>>) = 1 /\ <<n>>[1] = n
    BY <2>1
  <2>8. \A i \in 1 .. Len(<<n>>) : i = 1
    BY <2>7
  <2> QED BY <2>1, <2>5, <2>6, <2>7, <2>8
<1>7. ASSUME NEW n \in 0 .. high, next(n) <= high, Good(next(n), from[next(n)]) PROVE Good(n, from[n])
  <2> DEFINE t == from[next(n)]
             u == <<n>> \o t
  <2>1. n \in Nat /\ n <= high /\ next(n) \in Nat /\ n < next(n)
    BY <1>3
  <2>2. Good(next(n), t)
    BY <1>7
  <2>3. from[n] = u
    <3>1. ~ (n > high)
      BY <2>1
    <3> QED BY <1>5, <2>1, <3>1, Zenon
  <2> HIDE DEF t
  <2>4. t \in Seq(Nat) /\ Len(t) \in Nat /\ Len(t) >= 1
    BY <2>2
  <2>5. /\ u \in Seq(Nat) /\ Len(u) = Len(t) + 1 /\ u[1] = n
        /\ \A i \in 2 .. Len(t) + 1 : u[i] = t[i - 1]
    BY <2>1, <2>4
  <2> HIDE DEF u
  <2>6. \A i \in 2 .. Len(t) + 1 : i - 1 \in 1 .. Len(t)
    BY <2>4
  <2>7. \A i \in 2 .. Len(t) + 1 : u[i] \in Nat /\ n < u[i] /\ u[i] <= high
    <3> TAKE i \in 2 .. Len(t) + 1
    <3>1. t[i - 1] \in Nat /\ next(n) <= t[i - 1] /\ t[i - 1] <= high
      BY <2>2, <2>6
    <3> QED BY <2>1, <2>5, <3>1
  <2>8. \A i \in 1 .. Len(u) : i = 1 \/ i \in 2 .. Len(t) + 1
    BY <2>4, <2>5
  <2>9. \A i \in 1 .. Len(u) : u[i] \in Nat /\ n <= u[i] /\ u[i] <= high
    <3> TAKE i \in 1 .. Len(u)
    <3>1. CASE i = 1
      BY <2>1, <2>5, <3>1
    <3>2. CASE i \in 2 .. Len(t) + 1
      BY <2>1, <2>7, <3>2
    <3> QED BY <2>8, <3>1, <3>2
  <2>10. ASSUME NEW i \in 1 .. Len(u), NEW j \in 1 .. Len(u), i < j PROVE u[i] < u[j]
    <3>1. j \in 2 .. Len(t) + 1
      BY <2>4, <2>5, <2>10
    <3>2. CASE i = 1
      BY <2>5, <2>7, <3>1, <3>2
    <3>3. CASE i \in 2 .. Len(t) + 1
      <4>1. i - 1 \in 1 .. Len(t) /\ j - 1 \in 1 .. Len(t) /\ i - 1 < j - 1
        BY <2>6, <2>10, <3>1, <3>3
      <4>2. t[i - 1] < t[j - 1]
        BY <2>2, <4>1
      <4> QED BY <2>5, <3>1, <3>3, <4>2
    <3> QED BY <2>8, <3>2, <3>3
  <2>11. after = 0 => u[Len(u)] = high
    <3>1. Len(u) \in 2 .. Len(t) + 1 /\ Len(u) - 1 = Len(t)
      BY <2>4, <2>5
    <3>2. u[Len(u)] = t[Len(u) - 1]
      BY <2>5, <3>1
    <3> QED BY <2>2, <3>1, <3>2
  <2>12. Len(u) \in Nat /\ Len(u) >= 1
    BY <2>4, <2>5
  <2> QED BY <2>3, <2>5, <2>9, <2>10, <2>11, <2>12
<1> HIDE DEF Good
<1>8. T \in SUBSET Nat
  OBVIOUS
<1>9. T = {}
  <2> SUFFICES ASSUME T # {} PROVE FALSE
    OBVIOUS
  <2>1. PICK x \in T : \A y \in T : x <= y
    BY <1>8, LeastNumber
  <2>2. PICK n \in 0 .. high : ~ Good(n, from[n]) /\ x = high - n
    OBVIOUS
  <2>3. n \in Nat /\ n <= high /\ next(n) \in Nat /\ next(n) >= n + 1
    BY <1>3
  <2>4. next(n) <= high /\ ~ Good(next(n), from[next(n)])
    BY <1>6, <1>7, <2>2, <2>3
  <2>5. next(n) \in 0 .. high
    BY <2>3, <2>4
  <2>6. high - next(n) \in T
    BY <2>4, <2>5
  <2>7. x <= high - next(n)
    BY <2>1, <2>6
  <2> QED BY <2>2, <2>3, <2>7
<1>10. Good(low, from[low])
  BY <1>9
<1>11. RiseTo(from[low], low, high)
  BY <1>10 DEF Good, RiseTo
<1>12. after = 0 => Last(from[low]) = high
  BY <1>10 DEF Good, Last
<1> QED BY <1>1, <1>11, <1>12

(* What the answers to peers rest on between two calls: a known block is   *)
(* no higher than the chain, the chain's blocks are known, and ids up to   *)
(* its head are those of the chain.                                        *)
LEMMA IdleKnows ==
  ASSUME Typed, ChainInv, pc = "idle"
  PROVE  /\ \A x \in fork.index : x \in Blocks /\ Num[x] <= Len(chain)
         /\ \A x : Known(x) => x \in Blocks /\ Num[x] \in 1 .. Len(chain)
         /\ \A i \in 1 .. Len(chain) : Known(chain[i]) /\ IdForNum(i) = chain[i]
         /\ \A x \in Blocks : x \in Range(chain) <=>
              Num[x] \in 1 .. Len(chain) /\ chain[Num[x]] = x
<1>1. /\ chain \in Seq(Blocks) /\ log \in Seq(Blocks) /\ Len(chain) \in Nat /\ Len(log) \in Nat
      /\ base <= Len(chain) /\ base \in Nat /\ Len(log) <= base
      /\ \A i \in 1 .. Len(log) : log[i] = chain[i]
      /\ \A i \in 1 .. Len(chain) : chain[i] \in Blocks /\ Num[chain[i]] = i
      /\ ForkTyped(fork)
  BY InvParts
<1>2. Kept(fork.index, chain, Len(log)) /\ Below(fork.index, Len(chain))
  BY DEF ChainInv, IdleFork
<1>3. ASSUME NEW x \in fork.index
      PROVE  x \in Blocks /\ Num[x] \in Nat /\ Num[x] >= 1 /\ Num[x] <= Len(chain)
  <2>1. x \in Blocks
    BY <1>1 DEF ForkTyped, ForkDatabases
  <2> QED BY <1>2, <2>1, Constants DEF Below
<1>4. \A i \in 1 .. Len(log) : i \in 1 .. Len(chain)
  BY <1>1
<1>5. ASSUME NEW x, Known(x) PROVE x \in Blocks /\ Num[x] \in 1 .. Len(chain)
  <2>1. CASE x \in fork.index
    BY <1>1, <1>3, <2>1
  <2>2. CASE x \in Range(log)
    <3>1. PICK i \in 1 .. Len(log) : x = log[i]
      BY <1>1, <2>2 DEF Range
    <3> QED BY <1>1, <1>4, <3>1
  <2> QED BY <1>5, <2>1, <2>2 DEF Known
<1>6. ASSUME NEW i \in 1 .. Len(chain) PROVE Known(chain[i]) /\ IdForNum(i) = chain[i]
  <2>1. IdForNum(i) = chain[i]
    BY <1>1 DEF IdForNum
  <2>2. CASE i <= Len(log)
    <3>1. i \in 1 .. Len(log)
      BY <1>1, <2>2
    <3>2. chain[i] \in Range(log)
      BY <1>1, <3>1 DEF Range
    <3> QED BY <2>1, <3>2 DEF Known
  <2>3. CASE ~ (i <= Len(log))
    <3>1. i \in Len(log) + 1 .. Len(chain)
      BY <1>1, <2>3
    <3> QED BY <1>2, <2>1, <3>1 DEF Known, Kept
  <2> QED BY <2>2, <2>3
<1>7. ASSUME NEW x \in Blocks
      PROVE  x \in Range(chain) <=> Num[x] \in 1 .. Len(chain) /\ chain[Num[x]] = x
  BY <1>1 DEF Range
<1> QED BY <1>3, <1>5, <1>6, <1>7

(* The rest of a sequence from a on, in two parts.                         *)
LEMMA RestInParts ==
  ASSUME NEW S, NEW c \in Seq(S), NEW a \in 1 .. Len(c), NEW k \in 0 .. Len(c) + 1 - a,
         NEW t \in Seq(S), Len(t) = k, \A i \in 1 .. k : t[i] = c[a + i - 1]
  PROVE  t \o SubSeq(c, a + k, Len(c)) = SubSeq(c, a, Len(c))
<1> DEFINE n == Len(c)
           u == SubSeq(c, a + k, n)
           v == SubSeq(c, a, n)
<1>1. n \in Nat /\ a \in Nat /\ k \in Nat /\ a >= 1 /\ a <= n /\ a + k <= n + 1
  OBVIOUS
<1>2. u \in Seq(S) /\ Len(u) = n + 1 - a - k /\ \A i \in 1 .. n + 1 - a - k : u[i] = c[a + k + i - 1]
  <2> DEFINE m == a + k
  <2>1. m \in 1 .. n + 1 /\ n \in m - 1 .. n /\ n - m + 1 = n + 1 - a - k
    BY <1>1
  <2> HIDE DEF m
  <2>2. /\ SubSeq(c, m, n) \in Seq(S) /\ Len(SubSeq(c, m, n)) = n - m + 1
        /\ \A i \in 1 .. n - m + 1 : SubSeq(c, m, n)[i] = c[m + i - 1]
    BY <2>1, SubSeqProperties
  <2> QED BY <2>1, <2>2 DEF m
<1>3. v \in Seq(S) /\ Len(v) = n + 1 - a /\ \A i \in 1 .. n + 1 - a : v[i] = c[a + i - 1]
  BY <1>1
<1> HIDE DEF u, v, n
<1>4. t \o u \in Seq(S) /\ Len(t \o u) = n + 1 - a
  <2>1. t \o u \in Seq(S) /\ Len(t \o u) = Len(t) + Len(u)
    BY <1>2, ConcatProperties
  <2> QED BY <1>1, <1>2, <2>1
<1>5. ASSUME NEW i \in 1 .. n + 1 - a PROVE (t \o u)[i] = v[i]
  <2>1. CASE i <= k
    <3>1. i \in 1 .. k /\ (t \o u)[i] = t[i]
      BY <1>1, <1>2, <2>1
    <3> QED BY <1>3, <3>1
  <2>2. CASE ~ (i <= k)
    <3>1. i - k \in 1 .. n + 1 - a - k /\ a + k + (i - k) - 1 = a + i - 1
      BY <1>1, <2>2
    <3>2. (t \o u)[i] = u[i - k]
      BY <1>1, <1>2, <2>2
    <3> QED BY <1>2, <1>3, <3>1, <3>2
  <2> QED BY <2>1, <2>2
<1>6. t \o u = v
  BY <1>3, <1>4, <1>5, SeqEqual
<1> QED BY <1>6 DEF u, v, n

(* The ids of get_block_ids() and the blocks it reports as remaining are   *)
(* the chain from the first id on.                                         *)
LEMMA AnswerGoesOn ==
  ASSUME Typed, ChainInv, pc = "idle", NEW s, NEW first,
         first = IF s = << >> THEN 1 ELSE Num[LastKnown(s)],
         first \in 1 .. Len(chain) \/ (first = 1 /\ chain = << >>),
         NEW ids, ids = GetBlockIds(s)
  PROVE  ids \o SubSeq(chain, Len(chain) - Remaining(ids) + 1, Len(chain))
           = SubSeq(chain, first, Len(chain))
<1> DEFINE n == Len(chain)
           k == Min({Limit, Max({0, n + 1 - first})})
<1>1. /\ chain \in Seq(Blocks) /\ n \in Nat
      /\ \A i \in 1 .. n : chain[i] \in Blocks /\ Num[chain[i]] = i
  BY InvParts
<1>2. \A i \in 1 .. n : IdForNum(i) = chain[i]
  BY IdleKnows
<1>3. Limit \in Nat /\ Limit >= 1
  BY LimitAssumption
<1>4. ids = [i \in 1 .. k |-> IdForNum(first + i - 1)]
  BY DEF GetBlockIds
<1>5. first \in Nat /\ n + 1 - first \in Nat
  <2>1. CASE first \in 1 .. n
    BY <1>1, <2>1
  <2>2. CASE first = 1 /\ chain = << >>
    BY <1>1, <2>2
  <2> QED BY <2>1, <2>2
<1> DEFINE r == n + 1 - first
<1>6. Max({0, r}) = r
  <2> HIDE DEF r
  <2>1. r \in Nat /\ 0 \in Int /\ r \in Int
    BY <1>5 DEF r
  <2>2. Max({0, r}) = IF 0 >= r THEN 0 ELSE r
    BY <2>1, MaxOfTwo
  <2> QED BY <2>1, <2>2
<1>7. k = IF Limit <= n + 1 - first THEN Limit ELSE n + 1 - first
  <2>1. k = Min({Limit, r})
    BY <1>6
  <2> HIDE DEF r, k
  <2>2. Limit \in Int /\ r \in Int
    BY <1>3, <1>5 DEF r
  <2>3. Min({Limit, r}) = IF Limit <= r THEN Limit ELSE r
    BY <2>2, MinOfTwo
  <2> QED BY <2>1, <2>3 DEF r
<1> HIDE DEF k
<1>8. CASE chain = << >>
  <2>1. n = 0 /\ first = 1
    BY <1>1, <1>8
  <2>2. k = 0
    BY <1>3, <1>7, <2>1
  <2>3. 1 .. 0 = {}
    OBVIOUS
  <2>4. ids = << >>
    BY <1>4, <2>2, <2>3
  <2>5. Remaining(ids) = 0
    BY <2>4 DEF Remaining
  <2>6. n - 0 + 1 = 1
    BY <2>1
  <2>7. SubSeq(chain, 1, n) = << >>
    BY <1>8, <2>1
  <2>8. << >> \o << >> = << >>
    OBVIOUS
  <2> QED BY <2>1, <2>4, <2>5, <2>6, <2>7, <2>8
<1>9. CASE chain # << >>
  <2>1. first \in 1 .. n
    BY <1>9
  <2>2. k \in Nat /\ k >= 1 /\ first + k - 1 <= n /\ k \in 0 .. n + 1 - first
    BY <1>1, <1>3, <1>5, <1>7, <2>1
  <2>3. \A i \in 1 .. k : first + i - 1 \in 1 .. n
    BY <1>1, <2>1, <2>2
  <2>4. \A i \in 1 .. k : IdForNum(first + i - 1) = chain[first + i - 1] /\ chain[first + i - 1] \in Blocks
    BY <1>1, <1>2, <2>3
  <2>5. ids \in Seq(Blocks) /\ Len(ids) = k /\ \A i \in 1 .. k : ids[i] = chain[first + i - 1]
    BY <1>4, <2>2, <2>4
  <2>6. k \in 1 .. k /\ ids # << >> /\ Last(ids) = ids[k]
    BY <2>2, <2>5 DEF Last
  <2>7. Num[Last(ids)] = first + k - 1
    <3>1. Last(ids) = chain[first + k - 1] /\ first + k - 1 \in 1 .. n
      BY <2>3, <2>5, <2>6
    <3> HIDE DEF n
    <3> QED BY <1>1, <3>1
  <2>8. Remaining(ids) = n - (first + k - 1)
    BY <2>6, <2>7 DEF Remaining
  <2>9. n - Remaining(ids) + 1 = first + k
    BY <1>1, <1>5, <2>2, <2>8
  <2>10. ids \o SubSeq(chain, first + k, n) = SubSeq(chain, first, n)
    BY <1>1, <2>1, <2>2, <2>5, RestInParts
  <2> QED BY <2>9, <2>10
<1> QED BY <1>8, <1>9

(* A peer's synopsis names blocks of one branch, ever higher ones.         *)
LEMMA SynopsisRises ==
  ASSUME NEW s \in PeerSynopses, s # << >>
  PROVE  /\ Len(s) \in Nat /\ Len(s) >= 1
         /\ \A i \in 1 .. Len(s) : s[i] \in Blocks /\ Num[s[i]] \in Nat /\ Num[s[i]] >= 1
         /\ \A i, j \in 1 .. Len(s) : i < j => Num[s[i]] < Num[s[j]]
<1> DEFINE Of(c, l) == LET nums == SynopsisNums(l, Num[c], 0) IN
                         [i \in 1 .. Len(nums) |-> PathTo(c)[nums[i]]]
<1>0. PICK b \in Blocks : s \in {Of(b, l) : l \in 1 .. Num[b]}
  BY DEF PeerSynopses
<1>1. PICK low \in 1 .. Num[b] : s = Of(b, low)
  BY <1>0
<1> DEFINE nums == SynopsisNums(low, Num[b], 0)
           p == PathTo(b)
<1>2. Num[b] \in Nat
  BY Constants
<1>3. /\ Len(nums) \in Nat /\ Len(nums) >= 1
      /\ \A i \in 1 .. Len(nums) : nums[i] \in Nat /\ low <= nums[i] /\ nums[i] <= Num[b]
      /\ \A i, j \in 1 .. Len(nums) : i < j => nums[i] < nums[j]
  BY <1>2, NumsRise DEF RiseTo
<1>4. p \in Seq(Blocks) /\ Len(p) = Num[b] /\ BranchOf(p)
  BY PathToIs
<1>5. s = [i \in 1 .. Len(nums) |-> p[nums[i]]]
  BY <1>1
<1> HIDE DEF nums, p
<1>6. \A n \in 1 .. Num[b] : p[n] \in Blocks /\ Num[p[n]] = n
  BY <1>4, BranchNums
<1>7. Len(s) = Len(nums) /\ \A i \in 1 .. Len(nums) : s[i] = p[nums[i]]
  BY <1>3, <1>5
<1>8. \A i \in 1 .. Len(nums) : nums[i] \in 1 .. Num[b]
  BY <1>2, <1>3
<1>9. \A i \in 1 .. Len(nums) : s[i] \in Blocks /\ Num[s[i]] = nums[i]
  BY <1>6, <1>7, <1>8
<1> QED BY <1>3, <1>7, <1>8, <1>9

(* SyncContinues follows from the invariant.                               *)
LEMMA InvAnswers ==
  ASSUME Typed, ChainInv
  PROVE  SyncContinues
<1> SUFFICES ASSUME pc = "idle", NEW s \in PeerSynopses, s = << >> \/ s[1] \in Range(chain)
             PROVE  /\ CanAnswer(s)
                    /\ LET ids == GetBlockIds(s)
                           shared == {1} \cup {Num[s[i]] : i \in {j \in 1 .. Len(s) : s[j] \in Range(chain)}}
                       IN ids \o SubSeq(chain, Len(chain) - Remaining(ids) + 1, Len(chain))
                            = SubSeq(chain, Max(shared), Len(chain))
  BY DEF SyncContinues
<1> DEFINE S == {j \in 1 .. Len(s) : s[j] \in Range(chain)}
           shared == {1} \cup {Num[s[i]] : i \in S}
<1>1. chain \in Seq(Blocks) /\ Len(chain) \in Nat
  BY InvParts
<1>2. CASE s = << >>
  <2>1. CanAnswer(s)
    BY <1>2 DEF CanAnswer
  <2>2. 1 .. Len(s) = {}
    BY <1>2
  <2>3. S = {}
    BY <2>2
  <2>4. shared = {1}
    BY <2>3
  <2>5. Max({1}) = 1
    BY DEF Max
  <2>6. 1 \in 1 .. Len(chain) \/ (1 = 1 /\ chain = << >>)
    BY <1>1
  <2>7. GetBlockIds(s) \o SubSeq(chain, Len(chain) - Remaining(GetBlockIds(s)) + 1, Len(chain))
          = SubSeq(chain, 1, Len(chain))
    BY <1>2, <2>6, AnswerGoesOn
  <2> HIDE DEF shared, S
  <2> QED BY <2>1, <2>4, <2>5, <2>7 DEF shared, S
<1>3. CASE s # << >>
  <2> DEFINE k == Max(S)
  <2>1. /\ Len(s) \in Nat /\ Len(s) >= 1
        /\ \A i \in 1 .. Len(s) : s[i] \in Blocks /\ Num[s[i]] \in Nat /\ Num[s[i]] >= 1
        /\ \A i, j \in 1 .. Len(s) : i < j => Num[s[i]] < Num[s[j]]
    BY <1>3, SynopsisRises
  <2>2. 1 \in S
    BY <1>3, <2>1
  <2>3. S \in SUBSET (0 .. Len(s))
    BY <2>1
  <2>4. k \in S /\ \A i \in S : i <= k
    BY <2>1, <2>2, <2>3, LargestWithin
  <2>5. ASSUME NEW i \in 1 .. Len(s)
        PROVE  s[i] \in Range(chain) <=> Known(s[i]) /\ IdForNum(Num[s[i]]) \in {s[i], NONE}
    <3>1. s[i] \in Blocks
      BY <2>1
    <3>2. ASSUME s[i] \in Range(chain) PROVE Known(s[i]) /\ IdForNum(Num[s[i]]) \in {s[i], NONE}
      <4>1. Num[s[i]] \in 1 .. Len(chain) /\ chain[Num[s[i]]] = s[i]
        BY <3>1, <3>2, IdleKnows
      <4>2. Known(chain[Num[s[i]]]) /\ IdForNum(Num[s[i]]) = chain[Num[s[i]]]
        BY <4>1, IdleKnows
      <4> QED BY <4>1, <4>2
    <3>3. ASSUME Known(s[i]), IdForNum(Num[s[i]]) \in {s[i], NONE} PROVE s[i] \in Range(chain)
      <4>1. Num[s[i]] \in 1 .. Len(chain)
        BY <3>3, IdleKnows
      <4>2. IdForNum(Num[s[i]]) = chain[Num[s[i]]]
        BY <4>1, IdleKnows
      <4>3. chain[Num[s[i]]] # NONE
        BY <4>1, InvParts, Constants
      <4>4. chain[Num[s[i]]] = s[i]
        BY <3>3, <4>2, <4>3
      <4> QED BY <3>1, <4>1, <4>4, IdleKnows
    <3> QED BY <3>2, <3>3
  <2>6. Stops(s) = S
    BY <2>5 DEF Stops
  <2>7. k \in 1 .. Len(s) /\ s[k] \in Range(chain) /\ s[k] \in Blocks /\ Num[s[k]] \in Nat /\ Num[s[k]] >= 1
    BY <2>1, <2>4
  <2>8. LastKnown(s) = s[k]
    BY <2>6 DEF LastKnown
  <2>9. Num[s[k]] \in 1 .. Len(chain) /\ chain[Num[s[k]]] = s[k]
    BY <2>7, IdleKnows
  <2>10. CanAnswer(s)
    <3>1. IdForNum(Num[s[k]]) = s[k]
      BY <2>9, IdleKnows
    <3> HIDE DEF S, k
    <3> QED BY <2>2, <2>6, <2>8, <3>1 DEF CanAnswer, Included
  <2>11. Max(shared) = Num[s[k]]
    <3>1. Num[s[k]] \in shared
      BY <2>4
    <3>2. \A y \in shared : y \in Int /\ Num[s[k]] >= y
      <4> SUFFICES ASSUME NEW y \in shared PROVE y \in Int /\ Num[s[k]] >= y
        OBVIOUS
      <4>1. CASE y = 1
        BY <2>7, <4>1
      <4>2. ASSUME NEW i \in S, y = Num[s[i]] PROVE y \in Int /\ Num[s[k]] >= y
        <5>1. i \in 1 .. Len(s) /\ i <= k
          BY <2>4, <4>2
        <5>2. i = k \/ i < k
          BY <2>7, <5>1
        <5>3. Num[s[i]] \in Nat
          BY <2>1, <5>1
        <5>4. CASE i = k
          BY <2>7, <4>2, <5>4
        <5>5. CASE i < k
          <6> HIDE DEF k
          <6>1. Num[s[i]] < Num[s[k]]
            BY <2>1, <2>7, <5>1, <5>5
          <6> QED BY <2>7, <4>2, <5>3, <6>1
        <5> QED BY <5>2, <5>4, <5>5
      <4> QED BY <4>1, <4>2
    <3> HIDE DEF shared, k
    <3>3. Max(shared) \in shared /\ \A y \in shared : Max(shared) >= y
      BY <3>1, <3>2 DEF Max
    <3> QED BY <3>1, <3>2, <3>3
  <2>12. GetBlockIds(s) \o SubSeq(chain, Len(chain) - Remaining(GetBlockIds(s)) + 1, Len(chain))
           = SubSeq(chain, Num[s[k]], Len(chain))
    <3> HIDE DEF k
    <3> QED BY <1>3, <2>8, <2>9, AnswerGoesOn
  <2> HIDE DEF shared, S, k
  <2> QED BY <2>10, <2>11, <2>12 DEF shared, S
<1> QED BY <1>2, <1>3

(* Where the fork database keeps the parents of its blocks, the blocks of  *)
(* a branch that ends in it are linked.                                    *)
LEMMA LinkedDown ==
  ASSUME NEW f, NEW J, NEW l \in Nat, Whole(f, J, l),
         NEW p \in Seq(Blocks), BranchOf(p), NEW h \in 1 .. Len(p), p[h] \in J
  PROVE  \A n \in l + 2 .. h : p[n] \in f.linked
<1>1. Len(p) \in Nat /\ h \in Nat /\ h <= Len(p) /\ \A i \in 1 .. Len(p) : Num[p[i]] = i
  BY BranchNums
<1> DEFINE T == {h - n : n \in {i \in l + 1 .. h : p[i] \notin J}}
<1>2. T \in SUBSET Nat
  BY <1>1
<1>3. ASSUME NEW n \in l + 2 .. h, p[n] \in J PROVE p[n] \in f.linked /\ p[n - 1] \in J
  <2>1. n \in 1 .. Len(p) /\ n # 1 /\ n >= l + 2
    BY <1>1
  <2>2. Num[p[n]] >= l + 2 /\ Prev[p[n]] = p[n - 1]
    BY <1>1, <2>1 DEF BranchOf
  <2> QED BY <1>3, <2>2 DEF Whole
<1>4. T = {}
  <2> SUFFICES ASSUME T # {} PROVE FALSE
    OBVIOUS
  <2>1. PICK x \in T : \A y \in T : x <= y
    BY <1>2, LeastNumber
  <2>2. PICK n \in l + 1 .. h : p[n] \notin J /\ x = h - n
    OBVIOUS
  <2>3. n # h
    BY <2>2
  <2>4. n + 1 \in l + 2 .. h /\ n + 1 \in l + 1 .. h /\ (n + 1) - 1 = n
    BY <1>1, <2>3
  <2>5. p[n + 1] \notin J
    BY <1>3, <2>2, <2>4
  <2>6. h - (n + 1) \in T
    BY <2>4, <2>5
  <2>7. x <= h - (n + 1)
    BY <2>1, <2>6
  <2> QED BY <1>1, <2>2, <2>7
<1>5. \A n \in l + 2 .. h : n \in l + 1 .. h
  OBVIOUS
<1>6. \A n \in l + 2 .. h : p[n] \in J
  BY <1>4, <1>5
<1> QED BY <1>3, <1>6

(* get_block_ids_on_fork(): the fork of ref leaves the chain at the        *)
(* highest meeting height, and is its branch from there on.                *)
LEMMA ForkFollowed ==
  ASSUME Typed, ChainInv, pc = "idle", NEW ref \in fork.index, CanFollow(ref),
         NEW p, p = PathTo(ref), NEW m, m = Max(MeetingHeights(fork, ref, HeadBlock))
  PROVE  /\ m \in 1 .. Num[ref] /\ LastCommon(ref) = m - 1
         /\ \A n \in MeetingHeights(fork, ref, HeadBlock) : n <= m
         /\ \A n \in 1 .. m - 1 : p[n] = chain[n]
         /\ \A n \in m .. Num[ref] : ForkHistory(ref)[n - (m - 1)] = p[n]
<1> DEFINE M == MeetingHeights(fork, ref, HeadBlock)
           h == ForkHistory(ref)
<1>1. /\ chain \in Seq(Blocks) /\ BranchOf(chain) /\ ForkTyped(fork) /\ HeadBlock = Top(chain)
      /\ Len(chain) \in Nat
  BY InvParts
<1>2. HeadBlock \in Blocks /\ HeadBlock = chain[Len(chain)] /\ Len(chain) \in 1 .. Len(chain) /\ Num[HeadBlock] = Len(chain)
  <2>1. chain # << >>
    BY <1>1, TopIs DEF CanFollow
  <2> QED BY <1>1, <2>1, TopIs
<1>3. ref \in Blocks /\ Num[ref] \in Nat /\ Num[ref] >= 1
  BY <1>1, Constants DEF ForkTyped, ForkDatabases
<1>4. M # {}
  BY <1>2, <1>3, MeetingSymmetric DEF CanFollow, CanFetchBranches
<1>5. h = BranchFrom(fork, ref, HeadBlock)
  BY DEF ForkHistory
<1>6. /\ m \in Nat /\ m >= 1 /\ m <= Num[ref] /\ m <= Num[HeadBlock] /\ m \in M
      /\ \A n \in M : n <= m
      /\ h \in Seq(Blocks) /\ Len(h) = Num[ref] - m + 1
      /\ \A i \in 1 .. Len(h) : h[i] = Ancestor(fork, ref, m + i - 1)
  <2> HIDE DEF h
  <2> QED BY <1>1, <1>2, <1>3, <1>4, <1>5, BranchIs
<1>7. /\ Ancestor(fork, ref, m) # NONE /\ Ancestor(fork, HeadBlock, m) # NONE
      /\ Prev[Ancestor(fork, ref, m)] = Prev[Ancestor(fork, HeadBlock, m)]
  BY <1>6 DEF MeetingHeights
<1>8. p \in Seq(Blocks) /\ Len(p) = Num[ref] /\ BranchOf(p) /\ p[Num[ref]] = ref
  BY <1>3, PathToIs
<1>9. Num[ref] \in 1 .. Len(p)
  BY <1>3, <1>8
<1>10. ASSUME NEW n \in 1 .. Num[ref] PROVE Ancestor(fork, ref, n) \in {NONE, p[n]}
  BY <1>1, <1>8, <1>9, AncestorOnBranch
<1>11. ASSUME NEW n \in 1 .. Len(chain) PROVE Ancestor(fork, HeadBlock, n) \in {NONE, chain[n]}
  BY <1>1, <1>2, AncestorOnBranch
<1>12. m \in 1 .. Num[ref] /\ m \in 1 .. Len(chain)
  BY <1>2, <1>3, <1>6
<1>13. Prev[p[m]] = Prev[chain[m]]
  BY <1>7, <1>10, <1>11, <1>12
<1>14. \A n \in 1 .. m - 1 : p[n] = chain[n]
  <2>1. CASE m = 1
    BY <2>1
  <2>2. CASE m # 1
    <3>1. m \in 1 .. Len(p) /\ m - 1 \in 1 .. Len(p) /\ m - 1 <= Len(chain)
      BY <1>1, <1>6, <1>8, <1>12, <2>2
    <3>2. p[m - 1] = chain[m - 1]
      <4>1. Prev[p[m]] = p[m - 1]
        BY <1>8, <2>2, <3>1 DEF BranchOf
      <4>2. Prev[chain[m]] = chain[m - 1]
        BY <1>1, <1>12, <2>2 DEF BranchOf
      <4> QED BY <1>13, <4>1, <4>2
    <3> QED BY <1>1, <1>8, <3>1, <3>2, BranchesShare
  <2> QED BY <2>1, <2>2
<1>15. LastCommon(ref) = m - 1
  BY <1>3, <1>6 DEF LastCommon
<1>16. ASSUME NEW n \in m .. Num[ref] PROVE h[n - (m - 1)] = p[n]
  <2> DEFINE i == n - (m - 1)
  <2>1. i \in 1 .. Len(h) /\ m + i - 1 = n /\ n \in 1 .. Num[ref]
    BY <1>3, <1>6
  <2>2. h[i] = Ancestor(fork, ref, n)
    BY <1>6, <2>1
  <2>3. h[i] \in Blocks
    BY <1>6, <2>1, ElementOfSeq
  <2> QED BY <1>10, <2>1, <2>2, <2>3, Constants
<1> QED BY <1>6, <1>12, <1>14, <1>15, <1>16

(* A synopsis names blocks of the branch of the reference point only, at   *)
(* rising heights.                                                         *)
LEMMA SynopsisAlong ==
  ASSUME Typed, ChainInv, pc = "idle", NEW ref \in fork.index, NEW after \in Nat,
         ~ Included(ref) => CanFollow(ref),
         NEW s, s = Synopsis(ref, after)
  PROVE  /\ Len(s) \in Nat /\ Len(s) >= 1 /\ s \in Seq(Blocks)
         /\ \A i \in 1 .. Len(s) : s[i] = PathTo(ref)[Num[s[i]]]
         /\ \A i \in 1 .. Len(s) - 1 : Num[s[i]] < Num[s[i + 1]]
         /\ after = 0 => Last(s) = ref
<1> DEFINE nums == SummaryNums(ref, after)
           low == Max({1, Min({Lib(chain), Num[ref]})})
           p == PathTo(ref)
           common == IF Included(ref) THEN Num[ref] ELSE LastCommon(ref)
           at_i(i) == IF nums[i] <= common THEN IdForNum(nums[i])
                      ELSE ForkHistory(ref)[nums[i] - common]
<1>1. /\ chain \in Seq(Blocks) /\ BranchOf(chain) /\ ForkTyped(fork) /\ Len(chain) \in Nat
      /\ \A i \in 1 .. Len(chain) : chain[i] \in Blocks /\ Num[chain[i]] = i
  BY InvParts
<1>2. ref \in Blocks /\ Num[ref] \in Nat /\ Num[ref] >= 1 /\ Num[ref] <= Len(chain)
  BY IdleKnows, Constants
<1>3. low \in 1 .. Num[ref]
  <2> DEFINE k == Min({Lib(chain), Num[ref]})
  <2>1. Lib(chain) \in Nat
    BY <1>1, LibWithin
  <2>2. k = IF Lib(chain) <= Num[ref] THEN Lib(chain) ELSE Num[ref]
    BY <1>2, <2>1, MinOfTwo
  <2>3. k \in Nat /\ k <= Num[ref]
    BY <1>2, <2>1, <2>2
  <2> HIDE DEF k
  <2>4. Max({1, k}) = IF 1 >= k THEN 1 ELSE k
    BY <2>3, MaxOfTwo
  <2>5. Max({1, k}) \in 1 .. Num[ref]
    BY <1>2, <2>3, <2>4
  <2> QED BY <2>5 DEF k
<1>4. nums = SynopsisNums(low, Num[ref], after)
  BY DEF SummaryNums
<1> HIDE DEF nums, low
<1>5. /\ Len(nums) \in Nat /\ Len(nums) >= 1
      /\ \A i \in 1 .. Len(nums) : nums[i] \in Nat /\ low <= nums[i] /\ nums[i] <= Num[ref]
      /\ \A i, j \in 1 .. Len(nums) : i < j => nums[i] < nums[j]
  <2>1. RiseTo(nums, low, Num[ref])
    BY <1>2, <1>3, <1>4, NumsRise
  <2> QED BY <2>1 DEF RiseTo
<1>last. after = 0 => nums[Len(nums)] = Num[ref]
  <2>1. after = 0 => Last(nums) = Num[ref]
    BY <1>2, <1>3, <1>4, NumsRise
  <2> QED BY <2>1 DEF Last
<1>6. \A i \in 1 .. Len(nums) : nums[i] \in 1 .. Num[ref] /\ nums[i] \in 1 .. Len(chain)
  BY <1>1, <1>2, <1>3, <1>5
<1>7. p \in Seq(Blocks) /\ Len(p) = Num[ref] /\ BranchOf(p) /\ p[Num[ref]] = ref
  BY <1>2, PathToIs
<1> HIDE DEF p
<1>8. \A n \in 1 .. Num[ref] : p[n] \in Blocks /\ Num[p[n]] = n
  BY <1>7, BranchNums
<1>9. \A i \in 1 .. Len(nums) : IdForNum(nums[i]) = chain[nums[i]]
  BY <1>6, IdleKnows
<1>10. ASSUME NEW i \in 1 .. Len(nums) PROVE at_i(i) = p[nums[i]]
  <2>1. CASE Included(ref)
    <3>1. common = Num[ref] /\ nums[i] <= common
      BY <1>5, <2>1
    <3>2. Num[ref] \in 1 .. Len(chain) /\ Num[ref] \in 1 .. Len(p) /\ Num[ref] <= Len(chain)
      BY <1>1, <1>2, <1>7
    <3>3. chain[Num[ref]] = ref
      BY <2>1, <3>2, IdleKnows DEF Included
    <3>4. p[nums[i]] = chain[nums[i]]
      BY <1>1, <1>6, <1>7, <3>2, <3>3, BranchesShare
    <3> QED BY <1>9, <3>1, <3>4
  <2>2. CASE ~ Included(ref)
    <3> DEFINE m == Max(MeetingHeights(fork, ref, HeadBlock))
    <3>1. CanFollow(ref) /\ common = LastCommon(ref)
      BY <2>2
    <3>2. /\ m \in 1 .. Num[ref] /\ LastCommon(ref) = m - 1
          /\ \A n \in 1 .. m - 1 : p[n] = chain[n]
          /\ \A n \in m .. Num[ref] : ForkHistory(ref)[n - (m - 1)] = p[n]
      BY <3>1, ForkFollowed DEF p
    <3> HIDE DEF m
    <3>3. nums[i] \in 1 .. Num[ref]
      BY <1>6
    <3>4. CASE nums[i] <= common
      <4>1. nums[i] \in 1 .. m - 1
        BY <3>1, <3>2, <3>3, <3>4
      <4> QED BY <1>9, <3>2, <3>4, <4>1
    <3>5. CASE ~ (nums[i] <= common)
      <4>1. nums[i] \in m .. Num[ref] /\ nums[i] - common = nums[i] - (m - 1)
        BY <1>2, <3>1, <3>2, <3>3, <3>5
      <4> QED BY <3>2, <3>5, <4>1
    <3> QED BY <3>4, <3>5
  <2> QED BY <2>1, <2>2
<1>11. s = [i \in 1 .. Len(nums) |-> at_i(i)]
  BY DEF Synopsis, nums
<1> HIDE DEF at_i
<1>12. \A i \in 1 .. Len(nums) : at_i(i) \in Blocks
  BY <1>6, <1>8, <1>10
<1>13. s \in Seq(Blocks) /\ Len(s) = Len(nums) /\ \A i \in 1 .. Len(nums) : s[i] = at_i(i)
  BY <1>5, <1>11, <1>12
<1>14. \A i \in 1 .. Len(nums) : s[i] = p[nums[i]] /\ Num[s[i]] = nums[i]
  BY <1>6, <1>8, <1>10, <1>13
<1>15. ASSUME NEW i \in 1 .. Len(s) - 1 PROVE Num[s[i]] < Num[s[i + 1]]
  <2>1. i \in 1 .. Len(nums) /\ i + 1 \in 1 .. Len(nums) /\ i < i + 1
    BY <1>5, <1>13
  <2> QED BY <1>5, <1>14, <2>1
<1>16. ASSUME after = 0 PROVE Last(s) = ref
  <2>1. Len(nums) \in 1 .. Len(nums)
    BY <1>5
  <2>2. Last(s) = s[Len(nums)]
    BY <1>13 DEF Last
  <2> QED BY <1>7, <1>14, <1>16, <1>last, <2>1, <2>2
<1> QED BY <1>5, <1>13, <1>14, <1>15, <1>16 DEF p

(* A known block that descends from the last committed block has a fork    *)
(* that can be followed.                                                   *)
LEMMA ForkFollows ==
  ASSUME Typed, ChainInv, pc = "idle", NEW ref \in fork.index, ~ Included(ref),
         base > 0, Num[ref] >= base, PathTo(ref)[base] = chain[base]
  PROVE  CanFollow(ref) /\ LastCommon(ref) >= base
<1> DEFINE p == PathTo(ref)
           T == {n \in 1 .. Num[ref] : p[n] # chain[n]}
<1>1. /\ chain \in Seq(Blocks) /\ BranchOf(chain) /\ ForkTyped(fork) /\ Len(chain) \in Nat
      /\ Len(log) \in Nat /\ HeadBlock = Top(chain)
  BY InvParts
<1>2. ref \in Blocks /\ Num[ref] \in Nat /\ Num[ref] >= 1 /\ Num[ref] <= Len(chain)
  BY IdleKnows, Constants
<1>3. p \in Seq(Blocks) /\ Len(p) = Num[ref] /\ BranchOf(p) /\ p[Num[ref]] = ref
  BY <1>2, PathToIs
<1>4. base \in Nat /\ base = Len(log)
  BY InvParts DEF ChainInv
<1>5. p[base] = chain[base] /\ base > 0 /\ base <= Num[ref]
  BY <1>2, <1>4
<1> HIDE DEF p
<1>6. base \in 1 .. Len(p) /\ base <= Len(chain)
  BY <1>2, <1>3, <1>4, <1>5
<1>7. \A i \in 1 .. base : p[i] = chain[i]
  BY <1>1, <1>3, <1>5, <1>6, BranchesShare
<1>8. Num[ref] \in T
  <2>1. Num[ref] \in 1 .. Len(chain) /\ Num[ref] \in 1 .. Num[ref]
    BY <1>1, <1>2
  <2>2. IdForNum(Num[ref]) = chain[Num[ref]]
    BY <2>1, IdleKnows
  <2> QED BY <1>3, <2>1, <2>2 DEF Included
<1>9. PICK e \in T : \A y \in T : e <= y
  <2>1. T \in SUBSET Nat
    BY <1>2
  <2> QED BY <1>8, <2>1, LeastNumber
<1>10. e \in Nat /\ e >= 1 /\ e <= Num[ref] /\ p[e] # chain[e]
  BY <1>2, <1>9
<1>11. e > base
  BY <1>4, <1>7, <1>10
<1>12. e - 1 \in 1 .. Num[ref] /\ p[e - 1] = chain[e - 1]
  <2>1. e - 1 \in 1 .. Num[ref] /\ ~ (e <= e - 1)
    BY <1>2, <1>4, <1>5, <1>10, <1>11
  <2> QED BY <1>9, <2>1
<1> HIDE DEF T
<1>13. Whole(fork, fork.index, Len(log)) /\ HasTop(fork.index, chain)
  BY DEF ChainInv, IdleFork
<1>14. /\ e \in 1 .. Len(p) /\ e \in 1 .. Len(chain) /\ e # 1 /\ Len(chain) \in 1 .. Len(chain)
       /\ Num[ref] \in 1 .. Len(p) /\ e \in 1 .. Num[ref]
  BY <1>1, <1>2, <1>3, <1>4, <1>5, <1>10, <1>11
<1>15. /\ \A n \in e + 1 .. Num[ref] : n \in Len(log) + 2 .. Num[ref]
       /\ \A n \in e + 1 .. Len(chain) : n \in Len(log) + 2 .. Len(chain)
  BY <1>1, <1>2, <1>4, <1>5, <1>10, <1>11
<1>16. HeadBlock = chain[Len(chain)] /\ HeadBlock \in Blocks /\ Num[HeadBlock] = Len(chain)
       /\ HeadBlock # NONE /\ HeadBlock \in fork.index
  <2>1. chain # << >>
    BY <1>1, <1>14
  <2>2. HeadBlock = chain[Len(chain)] /\ HeadBlock \in Blocks /\ Num[HeadBlock] = Len(chain)
    BY <1>1, <2>1, TopIs
  <2> QED BY <1>13, <2>1, <2>2, Constants DEF HasTop
<1>last. Ancestor(fork, ref, e) = p[e]
  <2>1. \A n \in Len(log) + 2 .. Num[ref] : p[n] \in fork.linked
    BY <1>1, <1>3, <1>13, <1>14, LinkedDown
  <2>2. \A n \in e + 1 .. Num[ref] : p[n] \in fork.linked
    BY <1>15, <2>1
  <2>3. e \in 1 .. Num[ref] /\ Num[ref] \in 1 .. Len(p) /\ e \in Nat
    BY <1>10, <1>14
  <2>4. Ancestor(fork, p[Num[ref]], e) = p[e]
    BY <1>1, <1>3, <2>2, <2>3, AncestorOnBranch
  <2> QED BY <1>3, <2>4
<1>18. Ancestor(fork, HeadBlock, e) = chain[e]
  <2>1. \A n \in Len(log) + 2 .. Len(chain) : chain[n] \in fork.linked
    BY <1>1, <1>13, <1>14, <1>16, LinkedDown
  <2>2. \A n \in e + 1 .. Len(chain) : chain[n] \in fork.linked
    BY <1>15, <2>1
  <2>3. e \in 1 .. Len(chain) /\ Len(chain) \in 1 .. Len(chain) /\ e \in Nat
    BY <1>10, <1>14
  <2>4. Ancestor(fork, chain[Len(chain)], e) = chain[e]
    BY <1>1, <2>2, <2>3, AncestorOnBranch
  <2> QED BY <1>16, <2>4
<1>19. Prev[p[e]] = Prev[chain[e]] /\ p[e] # NONE /\ chain[e] # NONE
  <2>1. Prev[p[e]] = p[e - 1] /\ Prev[chain[e]] = chain[e - 1]
    BY <1>1, <1>3, <1>14 DEF BranchOf
  <2> QED BY <1>1, <1>3, <1>12, <1>14, <2>1, BranchNums, Constants
<1>20. e \in MeetingHeights(fork, ref, HeadBlock)
  <2>1. Min({Num[ref], Num[HeadBlock]}) = Num[ref]
    <3>1. Min({Num[ref], Num[HeadBlock]}) = IF Num[ref] <= Num[HeadBlock] THEN Num[ref] ELSE Num[HeadBlock]
      BY <1>1, <1>2, <1>16, MinOfTwo
    <3> QED BY <1>2, <1>16, <3>1
  <2> QED BY <1>14, <1>last, <1>18, <1>19, <2>1 DEF MeetingHeights
<1>21. CanFollow(ref)
  BY <1>2, <1>16, <1>20, MeetingSymmetric DEF CanFollow, CanFetchBranches
<1> DEFINE m == Max(MeetingHeights(fork, ref, HeadBlock))
<1>22. m \in 1 .. Num[ref] /\ LastCommon(ref) = m - 1 /\ e <= m
  BY <1>20, <1>21, ForkFollowed
<1> HIDE DEF m
<1>23. LastCommon(ref) >= base
  BY <1>4, <1>10, <1>11, <1>22
<1> QED BY <1>21, <1>23

(* Between two calls what is irreversible on the chain is committed.       *)
Covered == pc \in {"idle", "extend"} => Lib(chain) <= base

(* Every step that does not end Tidy keeps that.                           *)
LEMMA NextCovers ==
  ASSUME Typed, Covered, [Next /\ ~ Spoils]_vars
  PROVE  Covered'
<1>1. chain \in Seq(Blocks) /\ base \in Nat /\ base <= Len(chain) /\ log \in Seq(Blocks)
      /\ Len(chain) \in Nat /\ Len(log) \in Nat
  BY DEF Typed
<1>2. ASSUME NEW lib, lib \in Nat, CommitLib(lib) PROVE base' >= lib /\ base' >= base /\ base' \in Nat
  <2>1. base' = IF base >= lib THEN base ELSE lib
    BY <1>1, <1>2, MaxOfTwo DEF CommitLib
  <2> QED BY <1>1, <1>2, <2>1
<1>3. ASSUME NEW b \in Blocks PROVE LibWith(b) \in Nat
  <2>1. Append(chain, b) \in Seq(Blocks)
    BY <1>1
  <2>2. Len(Append(chain, b)) \in Nat
    BY <1>1
  <2>3. Lib(Append(chain, b)) \in 0 .. Len(Append(chain, b))
    BY <2>1, LibWithin
  <2> QED BY <2>2, <2>3 DEF LibWith
<1>4. ASSUME NEW b \in Blocks, ApplyBlock(b, LibWith(b)) PROVE Lib(chain') <= base'
  <2>1. chain' = Append(chain, b) /\ CommitLib(LibWith(b))
    BY <1>4 DEF ApplyBlock
  <2>2. Lib(chain') = LibWith(b)
    BY <2>1 DEF LibWith
  <2> QED BY <1>2, <1>3, <2>1, <2>2
<1>5. ASSUME UNCHANGED <<chain, base>>, pc \in {"idle", "extend"} PROVE Covered'
  BY <1>5 DEF Covered, Lib, ConfirmedByMost, LastConfirmed
<1>6. CASE \E b \in Blocks : PushRejected(b) \/ PushStored(b) \/ PushExtends(b) \/ PushSwitches(b)
  BY <1>5, <1>6 DEF PushRejected, PushStored, PushExtends, PushSwitches, Deliver
<1>7. CASE ExtendChain
  <2>1. pc = "extend" /\ new[1] \in Blocks
    BY <1>7, ApplyingTyped DEF ExtendChain, Applying
  <2>2. ApplyBlock(new[1], LibWith(new[1]))
    BY <1>7 DEF ExtendChain
  <2>3. Lib(chain') <= base'
    BY <1>4, <2>1, <2>2
  <2> QED BY <2>3 DEF Covered
<1>8. CASE ExtendFails
  <2> DEFINE b == new[1]
             lib == LibWith(b)
  <2>1. pc = "extend" /\ b \in Blocks
    BY <1>8, ApplyingTyped DEF ExtendFails, Applying
  <2>2. FailToApply(b, lib) /\ lib \in Nat
    BY <1>3, <1>8, <2>1 DEF ExtendFails
  <2>3. Lib(chain) <= base /\ Lib(chain) \in Nat
    BY <1>1, <2>1, LibWithin DEF Covered
  <2>4. lib = Lib(Append(chain, b))
    BY DEF LibWith
  <2> HIDE DEF lib, b
  <2>5. CASE Accepts(b)
    <3>1. CommitLib(lib) /\ chain' = IF lib > Len(chain) THEN Append(chain, b) ELSE chain
      <4>1. ~ Vetoed(b)
        BY <1>8 DEF Spoils, b, vars, ExtendFails, Return
      <4> QED BY <2>2, <2>5, <4>1 DEF FailToApply
    <3>2. base' >= lib /\ base' >= base /\ base' \in Nat
      BY <1>2, <2>2, <3>1
    <3>3. Lib(chain') \in {lib, Lib(chain)}
      BY <2>4, <3>1
    <3>4. Lib(chain') <= base'
      BY <1>1, <2>2, <2>3, <3>2, <3>3
    <3> QED BY <3>4 DEF Covered
  <2>6. CASE ~ Accepts(b)
    BY <1>5, <2>1, <2>2, <2>6 DEF FailToApply
  <2> QED BY <2>5, <2>6
<1>9. CASE ApplyNew
  <2>1. pc = "apply" /\ new[at] \in Blocks
    BY <1>9, ApplyingTyped DEF ApplyNew, Applying
  <2>2. ApplyBlock(new[at], LibWith(new[at]))
    BY <1>9 DEF ApplyNew
  <2>3. Lib(chain') <= base'
    BY <1>4, <2>1, <2>2
  <2> QED BY <2>3 DEF Covered
<1>10. ASSUME pc' \notin {"idle", "extend"} PROVE Covered'
  BY <1>10 DEF Covered
<1>11. CASE PopBlock \/ PopsDone \/ ApplyNewFails \/ (Reapply /\ pc' # "idle")
  <2>1. pc' \in {"pop", "apply", "pop_bad", "reapply"}
    <3>1. CASE PopBlock
      BY <3>1 DEF PopBlock
    <3>2. CASE PopsDone
      BY <3>2 DEF PopsDone
    <3>3. CASE ApplyNewFails
      BY <3>3 DEF ApplyNewFails
    <3>4. CASE Reapply /\ pc' # "idle"
      BY <3>4 DEF Reapply, Return
    <3> QED BY <1>11, <3>1, <3>2, <3>3, <3>4
  <2> QED BY <1>10, <2>1
<1>12. CASE Stop \/ \E b \in Blocks : CrashInCommit(b)
  BY <1>10, <1>12 DEF Stop, CrashInCommit, Down
<1>13. CASE Open \/ Reindex \/ Resync
  <2>1. ASSUME NEW c \in Seq(Blocks), chain' = c, base' = Len(c) PROVE Covered'
    <3>1. Lib(c) <= Len(c)
      BY <2>1, LibWithin
    <3>2. Lib(chain') <= base'
      BY <2>1, <3>1
    <3> QED BY <3>2 DEF Covered
  <2>2. CASE Open
    <3>1. chain' = SubSeq(chain, 1, base) /\ base' = base
      BY <2>2 DEF Open
    <3>2. SubSeq(chain, 1, base) \in Seq(Blocks) /\ Len(SubSeq(chain, 1, base)) = base
      BY <1>1
    <3> QED BY <2>1, <3>1, <3>2
  <2>3. CASE Reindex
    BY <1>1, <2>1, <2>3 DEF Reindex
  <2>4. CASE Resync
    <3>1. chain' = << >> /\ base' = Len(<< >>) /\ << >> \in Seq(Blocks)
      BY <2>4 DEF Resync
    <3> QED BY <2>1, <3>1
  <2> QED BY <1>13, <2>2, <2>3, <2>4
<1>14. CASE UNCHANGED vars
  <2>1. CASE pc \in {"idle", "extend"}
    BY <1>5, <1>14, <2>1 DEF vars
  <2>2. CASE pc \notin {"idle", "extend"}
    BY <1>10, <1>14, <2>2 DEF vars
  <2> QED BY <2>1, <2>2
<1>15. CASE ReindexThrows
  BY <1>10, <1>15 DEF ReindexThrows
<1>16. StartAgain => UNCHANGED vars
  BY DEF StartAgain
<1> QED BY <1>6, <1>7, <1>8, <1>9, <1>11, <1>12, <1>13, <1>14, <1>15, <1>16
    DEF Next, Step, Startup, Spoils, SwitchThrows

(* The first part of SynopsisIsBranch: what a synopsis says is true.       *)
SynopsisTrue ==
  pc = "idle" /\ clean => \A ref \in fork.index, after \in 0 .. 2 :
    CanSummarize(ref, after) =>
      LET s == Synopsis(ref, after) IN
        /\ \A i \in 1 .. Len(s) : s[i] = PathTo(ref)[Num[s[i]]]
        /\ \A i \in 1 .. Len(s) - 1 : Num[s[i]] < Num[s[i + 1]]
        /\ after = 0 => Last(s) = ref

(* It follows from the invariant.                                          *)
LEMMA InvSummaries ==
  ASSUME Typed, ChainInv
  PROVE  SynopsisTrue
<1> SUFFICES ASSUME pc = "idle", NEW ref \in fork.index, NEW after \in 0 .. 2, CanSummarize(ref, after),
                    NEW s, s = Synopsis(ref, after)
             PROVE  /\ \A i \in 1 .. Len(s) : s[i] = PathTo(ref)[Num[s[i]]]
                    /\ \A i \in 1 .. Len(s) - 1 : Num[s[i]] < Num[s[i + 1]]
                    /\ after = 0 => Last(s) = ref
  BY DEF SynopsisTrue
<1>1. ~ Included(ref) => CanFollow(ref)
  BY DEF CanSummarize
<1>2. after \in Nat
  OBVIOUS
<1>3. \A i \in 1 .. Len(s) : s[i] = PathTo(ref)[Num[s[i]]]
  BY <1>1, <1>2, SynopsisAlong
<1>4. \A i \in 1 .. Len(s) - 1 : Num[s[i]] < Num[s[i + 1]]
  BY <1>1, <1>2, SynopsisAlong
<1>5. after = 0 => Last(s) = ref
  BY <1>1, <1>2, SynopsisAlong
<1> QED BY <1>3, <1>4, <1>5

(* And so does the rest of SynopsisIsBranch.                               *)
LEMMA InvSummarizes ==
  ASSUME Typed, ChainInv, Covered
  PROVE  SynopsisIsBranch
<1>1. SynopsisTrue
  BY InvSummaries
<1>2. ASSUME pc = "idle", NEW ref \in fork.index, NEW after \in 0 .. 2,
             base > 0, Num[ref] >= base, PathTo(ref)[base] = chain[base]
      PROVE  CanSummarize(ref, after)
  <2>1. ~ Included(ref) => CanFollow(ref) /\ LastCommon(ref) >= Lib(chain)
    <3> SUFFICES ASSUME ~ Included(ref) PROVE CanFollow(ref) /\ LastCommon(ref) >= Lib(chain)
      OBVIOUS
    <3>1. CanFollow(ref) /\ LastCommon(ref) >= base
      BY <1>2, ForkFollows
    <3>2. LastCommon(ref) \in Int
      BY <1>2, <3>1, ForkFollowed
    <3>3. Lib(chain) <= base /\ Lib(chain) \in Nat /\ base \in Nat
      BY <1>2, InvParts, LibWithin DEF Covered
    <3> QED BY <3>1, <3>2, <3>3
  <2>2. Synopsis(ref, after) \in Seq(Blocks)
    <3>1. after \in Nat
      OBVIOUS
    <3> QED BY <1>2, <2>1, <3>1, SynopsisAlong
  <2>3. NONE \notin Range(Synopsis(ref, after))
    <3> DEFINE s == Synopsis(ref, after)
    <3> HIDE DEF s
    <3>1. s \in Seq(Blocks)
      BY <2>2 DEF s
    <3>2. \A x \in Range(s) : x \in Blocks
      BY <3>1, ElementOfSeq DEF Range
    <3> QED BY <3>2, Constants DEF s
  <2>4. IdForNum(Num[ref]) # NONE
    <3>1. Num[ref] \in 1 .. Len(chain)
      BY <1>2, IdleKnows, InvParts, Constants
    <3> QED BY <1>2, <3>1, IdleKnows, InvParts, Constants
  <2> QED BY <2>1, <2>3, <2>4 DEF CanSummarize
<1> QED BY <1>1, <1>2 DEF SynopsisIsBranch, SynopsisTrue

(* Every block of the chain that a peer is offered is in the fork database *)
(* or in the log.                                                          *)
LEMMA InvServes ==
  ASSUME Typed, ChainInv
  PROVE  OffersServed
<1> SUFFICES ASSUME pc = "idle", NEW b \in Range(chain) PROVE Fetched(b)
  BY DEF OffersServed
<1>1. /\ chain \in Seq(Blocks) /\ Len(chain) \in Nat /\ Len(log) \in Nat
      /\ \A i \in 1 .. Len(log) : log[i] = chain[i]
      /\ \A i \in 1 .. Len(chain) : chain[i] \in Blocks /\ Num[chain[i]] = i
  BY InvParts
<1>2. PICK i \in 1 .. Len(chain) : b = chain[i]
  BY <1>1 DEF Range
<1>3. Num[b] = i
  BY <1>1, <1>2
<1>4. Kept(fork.index, chain, Len(log))
  BY DEF ChainInv, IdleFork
<1>5. CASE i <= Len(log)
  <2>1. i \in 1 .. Len(log)
    BY <1>1, <1>5
  <2> QED BY <1>1, <1>2, <1>3, <1>5, <2>1 DEF Fetched
<1>6. CASE ~ (i <= Len(log))
  <2>1. i \in Len(log) + 1 .. Len(chain)
    BY <1>1, <1>6
  <2> QED BY <1>2, <1>4, <2>1 DEF Fetched, Kept
<1> QED BY <1>5, <1>6

(* Covered holds as long as Tidy does.                                     *)
LEMMA AlwaysCovered ==
  ASSUME Cardinality(Witnesses) >= 2
  PROVE  Spec => [](Tidy => Covered)
<1>1. Typed /\ Counted /\ (Tidy => Covered) /\ [Next]_vars => (Tidy => Covered)'
  BY NextCounts, NextCovers
<1>3. Init => Covered
  <2> SUFFICES ASSUME Init PROVE Lib(chain) <= base
    BY DEF Covered
  <2>1. chain = << >> /\ base = 0 /\ << >> \in Seq(Blocks) /\ Len(<< >>) = 0
    BY DEF Init
  <2>2. Lib(<< >>) \in 0 .. 0
    BY <2>1, LibWithin
  <2> QED BY <2>1, <2>2
<1> QED BY <1>1, <1>3, AlwaysInv, PTL DEF Spec

(* PeersServed, for the same and until a call throws: whatever branches a peer and the *)
(* node know, get_block_ids() goes on from the last block they share and   *)
(* leaves nothing out, get_blockchain_synopsis() speaks of one branch and  *)
(* can be had for every block above the committed ones, and get_item()     *)
(* finds every block that was offered.                                     *)
THEOREM PeersAreServed ==
  ASSUME Cardinality(Witnesses) >= 2
  PROVE  Spec => []PeersServed
<1>1. Typed /\ ChainInv /\ Covered => PeersServed
  BY InvAnswers, InvSummarizes, InvServes DEF PeersServed
<1>2. Counted /\ ~ Tidy => PeersServed
  BY DEF Counted, PeersServed, SyncContinues, SynopsisIsBranch, OffersServed
<1> QED BY <1>1, <1>2, AlwaysInv, AlwaysCovered, PTL
==============================================================================
