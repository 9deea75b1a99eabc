------------------------ MODULE AccountRecoveryProofs ------------------------
(***************************************************************************)
(* Proofs about AccountRecovery, for any keys, accounts and periods: what  *)
(* the holder of a stolen account can rely on for a whole recovery period. *)
(***************************************************************************)
EXTENDS AccountRecovery, FiniteSetsExt, FiniteSetTheorems, SequenceTheorems, TLAPS

------------------------------------------------------------------------------
(* Numbers and sequences. *)

(* Every set of natural numbers that is not empty has a least one: what    *)
(* the proofs use in place of induction, for a set of counterexamples.     *)
LEMMA LeastNumber ==
  ASSUME NEW T \in SUBSET Nat, T # {}
  PROVE  \E x \in T : \A y \in T : x <= y
<1> DEFINE R == OpToRel(<, Nat)
<1>1. IsWellFoundedOn(R, Nat)
  BY NatLessThanWellFounded
<1>2. \A x, y \in Nat : x < y => <<x, y>> \in R
  BY DEF OpToRel
<1> HIDE DEF R
<1>3. PICK x \in T : \A y \in T : ~ (<<y, x>> \in R)
  BY <1>1, WFMin
<1>4. \A y \in T : ~ (y < x)
  BY <1>2, <1>3, Zenon
<1> QED
  BY <1>4

------------------------------------------------------------------------------
Loss == [key : Key, time : Nat, recovery : Account \cup {NONE}]

(* The authorities of the history are in the order in which they were      *)
(* replaced, so that account_recovery_processing() may stop at the first   *)
(* one it keeps.                                                           *)
HistoryOrdered ==
  /\ \A i \in DOMAIN history : history[i].time <= now
  /\ \A i, j \in DOMAIN history : i <= j => history[i].time <= history[j].time

(* What a loss of ownership that still counts has left: an entry of the    *)
(* history with its time, a recovery account that has not changed, and no  *)
(* change that is due before the period is over.                           *)
LossCovered(l) ==
  /\ l.time <= now /\ now <= l.time + RecoveryPeriod
  /\ \E i \in DOMAIN history : history[i].key = l.key /\ history[i].time = l.time
  /\ now < l.time + RecoveryPeriod => recovery = l.recovery
  /\ change # NONE => change.on >= l.time + RecoveryPeriod

LossesCovered == losses \in SUBSET Loss /\ \A l \in losses : LossCovered(l)

(* The pending change is the one that was announced last.                  *)
ChangeIsAnnounced ==
  change # NONE =>
    /\ announced \in [account : Account, time : Nat]
    /\ announced.account = change.account
    /\ change.on = announced.time + RecoveryPeriod

RecoveryInv ==
  /\ TypeOK /\ EndorsedOnce /\ NothingStale
  /\ HistoryOrdered /\ LossesCovered /\ ChangeIsAnnounced

Entries == Seq([key : Key, time : Nat])

(* Entries of the owner history have a key and a time.                     *)
LEMMA EntriesTyped ==
  ASSUME NEW h \in Entries
  PROVE  /\ Len(h) \in Nat /\ DOMAIN h = 1 .. Len(h)
         /\ \A i \in DOMAIN h : h[i].key \in Key /\ h[i].time \in Nat
<1>1. Len(h) \in Nat /\ DOMAIN h = 1 .. Len(h)
  BY DEF Entries
<1>2. ASSUME NEW i \in DOMAIN h PROVE h[i] \in [key : Key, time : Nat]
  BY <1>1, ElementOfSeq DEF Entries
<1> QED BY <1>1, <1>2

(* The account starts with no history, no request and no change under way. *)
LEMMA InitInv == Init => RecoveryInv
BY RecoveryAssumption
DEF Init, RecoveryInv, TypeOK, EndorsedOnce, NothingStale, HistoryOrdered, LossesCovered,
    ChangeIsAnnounced

(* update_owner_authority() puts the old authority at the end of the       *)
(* history and remembers its loss.                                         *)
LEMMA UpdateOwnerInv ==
  ASSUME RecoveryInv, NEW k \in Key, UpdateOwner(k),
         UNCHANGED <<now, recovery, top, change, announced>>,
         recovered' \in Int,
         request' \in {request, NONE}, request' # NONE => endorsed'
  PROVE  RecoveryInv'
<1> USE RecoveryAssumption DEF RecoveryInv
<1>0. history \in Entries /\ owner \in Key /\ now \in Nat
  BY DEF TypeOK, Entries
<1>1. /\ history \in Entries /\ DOMAIN history = 1 .. Len(history)
      /\ owner \in Key /\ now \in Nat /\ Len(history) \in Nat
      /\ \A i \in DOMAIN history : history[i].time \in Nat
  BY <1>0, EntriesTyped
<1>2. /\ Len(history') = Len(history) + 1
      /\ history'[Len(history) + 1] = [key |-> owner, time |-> now]
      /\ \A i \in 1 .. Len(history) : history'[i] = history[i]
      /\ history' \in Entries
  <2>1. [key |-> owner, time |-> now] \in [key : Key, time : Nat]
    BY <1>1
  <2> QED BY <1>1, <2>1, AppendProperties DEF UpdateOwner, Entries
<1>3. DOMAIN history = 1 .. Len(history) /\ DOMAIN history' = 1 .. Len(history) + 1
  BY <1>1, <1>2, EntriesTyped
<1>4. TypeOK'
  BY <1>1, <1>2 DEF TypeOK, UpdateOwner, Entries
<1>5. EndorsedOnce' /\ ChangeIsAnnounced'
  BY DEF EndorsedOnce, ChangeIsAnnounced
<1>6. NothingStale'
  <2>1. RecoveryPeriod \in Nat
    OBVIOUS
  <2>2. ASSUME NEW i \in DOMAIN history' PROVE history'[i].time + RecoveryPeriod >= now'
    <3>1. CASE i = Len(history) + 1
      BY <1>1, <1>2, <2>1, <3>1
    <3>2. CASE i \in DOMAIN history
      BY <1>1, <1>2, <2>1, <3>2 DEF NothingStale
    <3> QED BY <1>1, <1>3, <3>1, <3>2
  <2> QED BY <2>2 DEF NothingStale
<1>7. HistoryOrdered'
  <2>1. ASSUME NEW i \in DOMAIN history' PROVE i \in DOMAIN history \/ i = Len(history) + 1
    BY <1>1, <1>3
  <2>2. /\ now' = now
        /\ \A i \in DOMAIN history : /\ history'[i].time = history[i].time
                                    /\ history'[i].time <= now
        /\ history'[Len(history) + 1].time = now
    BY <1>1, <1>2 DEF HistoryOrdered
  <2>3. ASSUME NEW i \in DOMAIN history', NEW j \in DOMAIN history', i <= j
        PROVE  history'[i].time <= history'[j].time
    <3>1. CASE j = Len(history) + 1
      BY <1>1, <2>1, <2>2, <3>1
    <3>2. CASE j \in DOMAIN history
      <4>1. i \in DOMAIN history
        BY <1>1, <1>3, <2>3, <3>2
      <4> QED BY <2>2, <2>3, <3>2, <4>1 DEF HistoryOrdered
    <3> QED BY <2>1, <3>1, <3>2
  <2> QED BY <1>1, <2>1, <2>2, <2>3 DEF HistoryOrdered
<1>8. LossesCovered'
  <2>1. losses' \in SUBSET Loss
    BY <1>1 DEF LossesCovered, UpdateOwner, Loss, TypeOK
  <2>2. ASSUME NEW l \in losses PROVE LossCovered(l)'
    BY <1>1, <1>2, <1>3, <2>2 DEF LossesCovered, LossCovered
  <2>3. ASSUME NEW l, l = [key |-> owner, time |-> now, recovery |-> recovery], change = NONE
        PROVE  LossCovered(l)'
    <3>1. l.key = owner /\ l.time = now /\ l.recovery = recovery /\ RecoveryPeriod \in Nat
      BY <2>3
    <3>2. \E i \in DOMAIN history' : history'[i].key = l.key /\ history'[i].time = l.time
      BY <1>1, <1>2, <1>3, <3>1
    <3> QED BY <1>1, <2>3, <3>1, <3>2 DEF LossCovered
  <2>4. ASSUME NEW l \in losses'
        PROVE  \/ l \in losses
               \/ /\ l = [key |-> owner, time |-> now, recovery |-> recovery]
                  /\ change = NONE
    BY DEF UpdateOwner
  <2>5. ASSUME NEW l \in losses' PROVE LossCovered(l)'
    BY <2>2, <2>3, <2>4
  <2> QED BY <2>1, <2>5 DEF LossesCovered
<1> QED
  BY <1>4, <1>5, <1>6, <1>7, <1>8

(* account_recovery_processing() drops the front of the history up to the  *)
(* first authority that still counts; as they are in order, everything     *)
(* that it drops is forgotten and nothing that it keeps is.                *)
LEMMA RememberedKeeps ==
  ASSUME RecoveryInv, NEW t \in Nat, now <= t
  PROVE  /\ Remembered(t) \in Entries
         /\ \A i \in DOMAIN Remembered(t) :
              \E j \in DOMAIN history : Remembered(t)[i] = history[j] /\ ~ Forgotten(history[j], t)
         /\ \A i \in DOMAIN history : ~ Forgotten(history[i], t) =>
              \E j \in DOMAIN Remembered(t) : Remembered(t)[j] = history[i]
         /\ \A i, j \in DOMAIN Remembered(t) :
              i <= j => Remembered(t)[i].time <= Remembered(t)[j].time
<1> DEFINE stays == {i \in DOMAIN history : ~ Forgotten(history[i], t)}
           first == CHOOSE i \in stays : \A j \in stays : i <= j
           kept == SubSeq(history, first, Len(history))
<1>1. /\ history \in Entries /\ Len(history) \in Nat
      /\ DOMAIN history = 1 .. Len(history)
      /\ \A i \in DOMAIN history : history[i].time \in Nat
  BY EntriesTyped DEF RecoveryInv, TypeOK, Entries
<1>2. CASE stays = {}
  BY <1>1, <1>2 DEF Remembered, Entries
<1>3. CASE stays # {}
  <2>1. first \in stays /\ \A j \in stays : first <= j
    <3>1. \E i \in stays : \A j \in stays : i <= j
      <4>1. stays \in SUBSET Nat
        BY <1>1
      <4> QED BY <1>3, <4>1, LeastNumber
    <3> QED BY <3>1
  <2> HIDE DEF first
  <2>2. first \in 1 .. Len(history)
    BY <1>1, <2>1
  <2>3. \A i \in 1 .. Len(history) : i \in stays <=> first <= i
    <3>1. ASSUME NEW i \in 1 .. Len(history), first <= i PROVE i \in stays
      <4>1. history[first].time <= history[i].time
        BY <1>1, <2>2, <3>1 DEF RecoveryInv, HistoryOrdered
      <4>2. history[first].time \in Nat /\ history[i].time \in Nat
        BY <1>1, <2>2, <3>1
      <4> QED BY <1>1, <2>1, <3>1, <4>1, <4>2, RecoveryAssumption DEF Forgotten
    <3> QED BY <2>1, <3>1
  <2>4. /\ kept \in Entries
        /\ DOMAIN kept = 1 .. Len(history) - first + 1
        /\ \A i \in 1 .. Len(history) - first + 1 : kept[i] = history[first + i - 1]
    <3>1. ASSUME NEW i \in first .. Len(history) PROVE history[i] \in [key : Key, time : Nat]
      <4>1. i \in 1 .. Len(history)
        BY <1>1, <2>2
      <4> QED BY <1>1, <4>1, ElementOfSeq DEF Entries
    <3>2. /\ kept \in Seq([key : Key, time : Nat])
          /\ Len(kept) = Len(history) - first + 1
          /\ \A i \in 1 .. Len(history) - first + 1 : kept[i] = history[first + i - 1]
      <4> DEFINE R == [key : Key, time : Nat]
      <4> HIDE DEF kept
      <4>1. history \in Seq(R) /\ first \in 1 .. Len(history) + 1 /\ Len(history) \in first - 1 .. Len(history)
        BY <1>1, <2>2 DEF Entries
      <4> HIDE DEF R
      <4>2. /\ SubSeq(history, first, Len(history)) \in Seq(R)
            /\ Len(SubSeq(history, first, Len(history))) = Len(history) - first + 1
            /\ \A i \in 1 .. Len(history) - first + 1 :
                 SubSeq(history, first, Len(history))[i] = history[first + i - 1]
        BY <4>1, SubSeqProperties
      <4> QED BY <4>2 DEF R, kept
    <3>3. kept \in Entries
      BY <3>2 DEF Entries
    <3> HIDE DEF kept
    <3> QED BY <3>2, <3>3, EntriesTyped
  <2>5. Remembered(t) = kept
    BY <1>3 DEF Remembered, first
  <2> HIDE DEF kept
  <2>6. ASSUME NEW i \in DOMAIN kept
        PROVE  /\ first + i - 1 \in 1 .. Len(history)
               /\ kept[i] = history[first + i - 1] /\ first + i - 1 \in stays
    <3>1. i \in 1 .. Len(history) - first + 1
      BY <2>4
    <3>2. first + i - 1 \in 1 .. Len(history) /\ first <= first + i - 1
      BY <1>1, <2>2, <3>1
    <3> QED BY <2>3, <2>4, <3>1, <3>2
  <2>7. ASSUME NEW i \in stays
        PROVE  i - first + 1 \in DOMAIN kept /\ kept[i - first + 1] = history[i]
    <3>1. i \in 1 .. Len(history) /\ first <= i
      BY <1>1, <2>3
    <3> QED BY <2>2, <2>4, <3>1
  <2>8. ASSUME NEW i \in DOMAIN kept, NEW j \in DOMAIN kept, i <= j
        PROVE  kept[i].time <= kept[j].time
    <3>1. i \in Nat /\ j \in Nat
      BY <1>1, <2>2, <2>4
    <3>2. first + i - 1 <= first + j - 1
      BY <2>2, <2>8, <3>1
    <3> QED BY <1>1, <2>6, <3>2 DEF RecoveryInv, HistoryOrdered
  <2> HIDE DEF stays
  <2>9. \A i \in DOMAIN kept :
          \E j \in DOMAIN history : kept[i] = history[j] /\ ~ Forgotten(history[j], t)
    BY <2>6 DEF stays
  <2>10. \A i \in DOMAIN history : ~ Forgotten(history[i], t) =>
           \E j \in DOMAIN kept : kept[j] = history[i]
    BY <2>7 DEF stays
  <2> QED
    BY <2>4, <2>5, <2>8, <2>9, <2>10
<1> QED BY <1>2, <1>3

(* A block: what is over goes, everything else is kept.                    *)
LEMMA BlockInv ==
  ASSUME RecoveryInv, Block
  PROVE  RecoveryInv'
<1> USE RecoveryAssumption DEF RecoveryInv
<1>0. /\ now \in Nat /\ now' = now + 1 /\ now' \in 0 .. MaxTime
      /\ history \in Entries /\ RecoveryPeriod \in Nat
  BY DEF Block, TypeOK, Entries
<1>1. /\ now \in Nat /\ now' = now + 1 /\ now' \in 0 .. MaxTime
      /\ history \in Entries /\ DOMAIN history = 1 .. Len(history)
      /\ \A i \in DOMAIN history : history[i].time \in Nat
      /\ RecoveryPeriod \in Nat
  BY <1>0, EntriesTyped
<1>2. /\ history' \in Entries
      /\ \A i \in DOMAIN history' :
           \E j \in DOMAIN history : history'[i] = history[j] /\ ~ Forgotten(history[j], now')
      /\ \A i \in DOMAIN history : ~ Forgotten(history[i], now') =>
           \E j \in DOMAIN history' : history'[j] = history[i]
      /\ \A i, j \in DOMAIN history' : i <= j => history'[i].time <= history'[j].time
  <2>1. now' \in Nat /\ now <= now' /\ history' = Remembered(now')
    BY <1>1 DEF Block
  <2> QED BY <2>1, RememberedKeeps
<1>3. TypeOK'
  BY <1>1, <1>2 DEF Block, TypeOK, Entries
<1>4. EndorsedOnce'
  BY DEF EndorsedOnce, Block
<1>6. NothingStale'
  <2>1. (request # NONE => request.expires > now)' /\ (change # NONE => change.on > now)'
    BY <1>1 DEF NothingStale, Block, StillOpen, TypeOK
  <2>2. \A i \in DOMAIN history' : history'[i].time + RecoveryPeriod >= now'
    BY <1>1, <1>2, RecoveryAssumption DEF Forgotten
  <2> QED BY <2>1, <2>2 DEF NothingStale
<1>7. HistoryOrdered'
  BY <1>1, <1>2 DEF HistoryOrdered
<1>8. ChangeIsAnnounced'
  BY DEF ChangeIsAnnounced, Block
<1>9. LossesCovered'
  <2>1. losses' \subseteq losses /\ losses' \in SUBSET Loss
    BY DEF LossesCovered, Block
  <2>2. ASSUME NEW l \in losses' PROVE LossCovered(l)'
    <3>1. l.time \in Nat /\ l.time + RecoveryPeriod >= now' /\ LossCovered(l)
      BY <2>1, <2>2 DEF LossesCovered, Block, Loss
    <3>2. \E i \in DOMAIN history' : history'[i].key = l.key /\ history'[i].time = l.time
      <4>1. PICK i \in DOMAIN history : history[i].key = l.key /\ history[i].time = l.time
        BY <3>1 DEF LossCovered
      <4>2. ~ Forgotten(history[i], now')
        BY <1>1, <3>1, <4>1 DEF Forgotten
      <4>3. PICK j \in DOMAIN history' : history'[j] = history[i]
        BY <1>2, <4>2
      <4> QED BY <4>1, <4>3
    <3>3. l.time <= now' /\ now' <= l.time + RecoveryPeriod
      BY <1>1, <3>1 DEF LossCovered
    <3>4. CASE change # NONE /\ change.on <= now'
      <4>1. ~ (now' < l.time + RecoveryPeriod) /\ change' = NONE
        BY <1>1, <3>1, <3>4 DEF LossCovered, Block, TypeOK
      <4> QED BY <3>2, <3>3, <4>1 DEF LossCovered
    <3>5. CASE ~ (change # NONE /\ change.on <= now')
      <4>1. recovery' = recovery /\ change' = change
        BY <3>5 DEF Block
      <4> QED BY <1>1, <3>1, <3>2, <3>3, <4>1 DEF LossCovered
    <3> QED BY <3>4, <3>5
  <2> QED BY <2>1, <2>2 DEF LossesCovered
<1> QED
  BY <1>3, <1>4, <1>6, <1>7, <1>8, <1>9

(* Every operation and every block keeps the invariant.                    *)
LEMMA NextInv == RecoveryInv /\ [Next]_vars => RecoveryInv'
<1> SUFFICES ASSUME RecoveryInv, [Next]_vars PROVE RecoveryInv'
  OBVIOUS
<1> USE RecoveryAssumption
<1>1. ASSUME NEW k \in Key, AccountUpdate(k) PROVE RecoveryInv'
  <2>1. recovered' \in Int /\ request' \in {request, NONE} /\ (request' # NONE => endorsed')
    BY <1>1 DEF AccountUpdate, RecoveryInv, TypeOK, EndorsedOnce
  <2> QED BY <1>1, <2>1, UpdateOwnerInv DEF AccountUpdate
<1>2. ASSUME NEW a \in Account, NEW k \in Key \cup {Open}, RequestRecovery(a, k)
      PROVE  RecoveryInv'
  <2>1. TypeOK' /\ EndorsedOnce' /\ NothingStale'
    BY <1>2 DEF RequestRecovery, RecoveryInv, TypeOK, EndorsedOnce, NothingStale
  <2>2. HistoryOrdered' /\ LossesCovered' /\ ChangeIsAnnounced'
    BY <1>2 DEF RequestRecovery, RecoveryInv, HistoryOrdered, LossesCovered, LossCovered,
                ChangeIsAnnounced
  <2> QED BY <2>1, <2>2 DEF RecoveryInv
<1>3. ASSUME NEW k \in Key, NEW recent \in Key, RecoverAccount(k, recent) PROVE RecoveryInv'
  <2>1. recovered' \in Int /\ request' = NONE
    BY <1>3 DEF RecoverAccount, RecoveryInv, TypeOK
  <2> QED BY <1>3, <2>1, UpdateOwnerInv DEF RecoverAccount
<1>4. ASSUME NEW a \in Account, ChangeRecovery(a) PROVE RecoveryInv'
  <2>1. change' \in {[account |-> a, on |-> now + RecoveryPeriod], NONE}
    BY <1>4 DEF ChangeRecovery
  <2>2. TypeOK' /\ EndorsedOnce' /\ NothingStale'
    BY <1>4, <2>1 DEF ChangeRecovery, RecoveryInv, TypeOK, EndorsedOnce, NothingStale
  <2>3. HistoryOrdered' /\ ChangeIsAnnounced'
    BY <1>4, <2>1 DEF ChangeRecovery, RecoveryInv, TypeOK, HistoryOrdered, ChangeIsAnnounced
  <2>4. LossesCovered'
    <3>1. losses' = losses /\ losses \in SUBSET Loss /\ \A l \in losses : LossCovered(l)
      BY <1>4 DEF ChangeRecovery, RecoveryInv, LossesCovered
    <3>2. ASSUME NEW l \in losses PROVE LossCovered(l)'
      <4>1. LossCovered(l) /\ l.time \in Nat /\ now \in Nat /\ RecoveryPeriod \in Nat
        BY <3>1 DEF Loss, RecoveryInv, TypeOK
      <4> QED BY <1>4, <2>1, <4>1 DEF ChangeRecovery, LossCovered
    <3> QED BY <3>1, <3>2 DEF LossesCovered
  <2> QED BY <2>2, <2>3, <2>4 DEF RecoveryInv
<1>5. CASE Block
  BY <1>5, BlockInv
<1>6. CASE UNCHANGED vars
  BY <1>6 DEF vars, RecoveryInv, TypeOK, EndorsedOnce, NothingStale, HistoryOrdered,
              LossesCovered, LossCovered, ChangeIsAnnounced
<1> QED
  BY <1>1, <1>2, <1>3, <1>4, <1>5, <1>6 DEF Next

(* The inductive invariant holds in every state.                           *)
THEOREM RecoveryInvariant == Spec => []RecoveryInv
BY InitInv, NextInv, PTL DEF Spec

(* Who loses an account while no change of its recovery account is pending *)
(* can come back for a whole recovery period, whatever the operations of   *)
(* anybody were since.  Nothing is said of a loss while a change is        *)
(* pending: the change may come into force at any time after it, and the   *)
(* recovery account that could endorse the holder is then another one.     *)
THEOREM HolderAlwaysCanReturn == Spec => []HolderCanReturn
<1>1. RecoveryInv => HolderCanReturn
  BY DEF RecoveryInv, LossesCovered, LossCovered, HolderCanReturn
<1> QED BY <1>1, RecoveryInvariant, PTL

(* No request, change or authority outlives its time, and an endorsement   *)
(* serves one recovery.                                                    *)
THEOREM NothingIsLeftOver == Spec => []NothingLeftOver
<1>1. RecoveryInv => NothingLeftOver
  BY DEF RecoveryInv, NothingLeftOver
<1> QED BY <1>1, RecoveryInvariant, PTL

(* A recovery account comes into force a whole period after it was         *)
(* announced, and only if nothing else was announced since.                *)
THEOREM ChangesAreAnnounced == Spec => ChangesAnnounced
<1>1. RecoveryInv /\ [Next]_vars =>
        [recovery' # recovery =>
           /\ announced.account = recovery'
           /\ announced.time + RecoveryPeriod <= now']_vars
  BY DEF RecoveryInv, ChangeIsAnnounced, Next, vars, AccountUpdate, UpdateOwner,
         RequestRecovery, RecoverAccount, ChangeRecovery, Block
<1> QED BY <1>1, RecoveryInvariant, PTL DEF Spec, ChangesAnnounced
==============================================================================
