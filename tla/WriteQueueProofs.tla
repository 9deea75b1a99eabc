-------------------------- MODULE WriteQueueProofs ---------------------------
(***************************************************************************)
(* Proofs about WriteQueue, for any pool of web server threads: the safety *)
(* of the pointers that the queue hands from one thread's stack to another *)
(* thread, of the locks, and of the end of the application.                *)
(***************************************************************************)
EXTENDS WriteQueue, FiniteSetsExt, FiniteSetTheorems, SequenceTheorems, TLAPS


CallerStates == {"idle", "handling", "reading", "nesting", "ready", "waiting"}

WriterStates == {"top", "lock", "blocked", "renew", "visit", "answer", "next", "ended"}

Modes == {"now", "past", "lost"}

(* Who owns a context: a caller whose outcome is stored has not gone, and  *)
(* what the writer has taken out of the queue is still waited for, is      *)
(* nowhere in the queue again, and gets its outcome before its answer.     *)
ContextsOwned ==
  /\ \A c \in stored : caller[c] = "waiting"
  /\ writer \in {"lock", "blocked", "renew", "visit", "answer"} =>
       /\ current \in Callers
       /\ caller[current] = "waiting"
       /\ current \notin Range(queue)
       /\ current \notin answered
  /\ writer \in {"lock", "blocked", "renew", "visit"} => current \notin stored
  /\ writer = "answer" => current \in stored

QueueTyped ==
  /\ caller \in [Callers -> CallerStates]
  /\ queue \in Seq(Callers)
  /\ stored \subseteq Callers /\ answered \subseteq Callers
  /\ writer \in WriterStates
  /\ current \in Callers \cup {Nobody}

QueueInv == QueueTyped /\ ContextsAlive /\ OutcomeStored /\ ContextsOwned

(* How deep the reads of a handler are: a read within a read is the        *)
(* deepest there is, and whoever does not read holds no lock.              *)
ReadsNested ==
  \A c \in Callers :
    /\ caller[c] \notin {"reading", "nesting"} => asks[c] = "none" /\ reads[c] = << >>
    /\ caller[c] = "reading" => Len(reads[c]) = IF asks[c] = "none" THEN 1 ELSE 0
    /\ caller[c] = "nesting" => IF asks[c] = "none" THEN Len(reads[c]) \in {1, 2}
                                                  ELSE Len(reads[c]) = 1

ReadsInv ==
  /\ caller \in [Callers -> CallerStates]
  /\ asks \in [Callers -> {"none", "now", "past"}]
  /\ reads \in [Callers -> Seq(Modes)]
  /\ gone \in Nat
  /\ ReadsNested
  /\ WriteAlone

FlagsTyped ==
  /\ syncing \in BOOLEAN /\ running \in BOOLEAN /\ open \in BOOLEAN /\ asked \in BOOLEAN
  /\ stage \in 0 .. 4

(* What a stage of the shutdown that is over has left behind, when the web *)
(* server is the first to go and the chain plugin the last.                *)
StagesDone ==
  /\ stage >= 1 => caller[Main] = "idle"
  /\ stage >= 2 => \A c \in Pool : caller[c] = "idle"
  /\ stage >= 3 => caller[P2p] = "idle"
  /\ stage >= 4 => writer = "ended"
  /\ ~ open => stage >= 4

------------------------------------------------------------------------------

(* The p2p thread, the main thread and the pool are finitely many.         *)
LEMMA CallersFinite == IsFiniteSet(Callers)
<1>1. IsFiniteSet(Pool \cup {P2p})
  BY ThreadAssumption, FS_AddElement
<1>2. IsFiniteSet((Pool \cup {P2p}) \cup {Main})
  BY <1>1, FS_AddElement
<1>3. Callers = (Pool \cup {P2p}) \cup {Main}
  BY DEF Callers
<1> QED BY <1>2, <1>3

(* The bounded sequences of the type invariant are sequences.              *)
LEMMA SeqOfTwo ==
  ASSUME NEW S, NEW s
  PROVE  s \in SeqOf(S, 2) <=> s \in Seq(S) /\ Len(s) <= 2
<1>1. ASSUME s \in SeqOf(S, 2) PROVE s \in Seq(S) /\ Len(s) <= 2
  <2>1. PICK m \in 0 .. 2 : s \in [1 .. m -> S]
    BY <1>1 DEF SeqOf
  <2> QED BY <2>1
<1>2. ASSUME s \in Seq(S), Len(s) <= 2 PROVE s \in SeqOf(S, 2)
  <2>1. Len(s) \in Nat /\ s \in [1 .. Len(s) -> S]
    BY <1>2, LenProperties
  <2>2. Len(s) \in 0 .. 2
    BY <1>2, <2>1
  <2> QED BY <2>1, <2>2 DEF SeqOf
<1> QED BY <1>1, <1>2

(* A context is appended to a queue in which it is not.                    *)
LEMMA AppendContext ==
  ASSUME NEW q \in Seq(Callers), NEW c \in Callers, IsInjective(q), c \notin Range(q)
  PROVE  /\ Append(q, c) \in Seq(Callers)
         /\ IsInjective(Append(q, c))
         /\ Range(Append(q, c)) = Range(q) \cup {c}
<1> DEFINE a == Append(q, c)
<1>1. /\ a \in Seq(Callers) /\ Len(a) = Len(q) + 1 /\ Len(q) \in Nat
      /\ \A i \in 1 .. Len(q) : a[i] = q[i]
      /\ a[Len(q) + 1] = c
  BY AppendProperties, LenProperties
<1>2. DOMAIN q = 1 .. Len(q) /\ DOMAIN a = 1 .. Len(q) + 1
  BY <1>1, LenProperties
<1> HIDE DEF a
<1>3. \A i \in DOMAIN q : q[i] # c
  BY DEF Range
<1>4. IsInjective(a)
  BY <1>1, <1>2, <1>3 DEF IsInjective
<1>5. Range(a) = Range(q) \cup {c}
  <2>1. ASSUME NEW x \in Range(a) PROVE x \in Range(q) \cup {c}
    <3>1. PICK i \in 1 .. Len(q) + 1 : x = a[i]
      BY <1>2 DEF Range
    <3>2. i \in 1 .. Len(q) \/ i = Len(q) + 1
      BY <1>1
    <3> QED BY <1>1, <1>2, <3>1, <3>2 DEF Range
  <2>2. ASSUME NEW x \in Range(q) \cup {c} PROVE x \in Range(a)
    <3>1. CASE x = c
      BY <1>1, <1>2, <3>1 DEF Range
    <3>2. CASE x \in Range(q)
      <4>1. PICK i \in 1 .. Len(q) : x = q[i]
        BY <1>2, <3>2 DEF Range
      <4> QED BY <1>1, <1>2, <4>1 DEF Range
    <3> QED BY <3>1, <3>2
  <2> QED BY <2>1, <2>2
<1> QED BY <1>1, <1>4, <1>5 DEF a

(* A context is popped from the front and is not in the queue any more.    *)
LEMMA PopContext ==
  ASSUME NEW q \in Seq(Callers), q # << >>, IsInjective(q)
  PROVE  /\ Head(q) \in Callers /\ Head(q) \in Range(q)
         /\ Tail(q) \in Seq(Callers)
         /\ IsInjective(Tail(q))
         /\ Range(Tail(q)) = Range(q) \ {Head(q)}
<1> DEFINE t == Tail(q)
<1>1. /\ Head(q) \in Callers /\ t \in Seq(Callers) /\ Len(t) = Len(q) - 1
      /\ \A i \in 1 .. Len(t) : t[i] = q[i + 1]
      /\ Len(q) \in Nat \ {0}
  BY HeadTailProperties, EmptySeq
<1>2. DOMAIN q = 1 .. Len(q) /\ DOMAIN t = 1 .. Len(t) /\ Head(q) = q[1] /\ 1 \in DOMAIN q
  BY <1>1, LenProperties
<1> HIDE DEF t
<1>3. IsInjective(t)
  <2>1. ASSUME NEW i \in DOMAIN t, NEW j \in DOMAIN t, t[i] = t[j] PROVE i = j
    <3>1. i + 1 \in DOMAIN q /\ j + 1 \in DOMAIN q /\ q[i + 1] = q[j + 1] /\ i \in Nat /\ j \in Nat
      BY <1>1, <1>2, <2>1
    <3> QED BY <3>1 DEF IsInjective
  <2> QED BY <2>1 DEF IsInjective
<1>4. Range(t) = Range(q) \ {Head(q)}
  <2>1. ASSUME NEW x \in Range(t) PROVE x \in Range(q) \ {Head(q)}
    <3>1. PICK i \in 1 .. Len(t) : x = q[i + 1]
      BY <1>1, <1>2 DEF Range
    <3>2. i + 1 \in DOMAIN q /\ i + 1 # 1
      BY <1>1, <1>2
    <3> QED BY <1>2, <3>1, <3>2 DEF Range, IsInjective
  <2>2. ASSUME NEW x \in Range(q) \ {Head(q)} PROVE x \in Range(t)
    <3>1. PICK i \in 1 .. Len(q) : x = q[i]
      BY <1>2 DEF Range
    <3>2. i - 1 \in 1 .. Len(t) /\ i = (i - 1) + 1
      BY <1>1, <1>2, <3>1
    <3>3. t[i - 1] = x
      BY <1>1, <3>1, <3>2
    <3> QED BY <1>2, <3>2, <3>3 DEF Range
  <2> QED BY <2>1, <2>2
<1>5. Head(q) \in Range(q)
  BY <1>2 DEF Range
<1> QED BY <1>1, <1>3, <1>4, <1>5 DEF t

(* A queue in which nobody is twice is no longer than there are callers.   *)
LEMMA QueueFits ==
  ASSUME NEW q \in Seq(Callers), IsInjective(q)
  PROVE  Len(q) <= Cardinality(Callers)
<1>1. Len(q) \in Nat /\ q \in [1 .. Len(q) -> Callers] /\ DOMAIN q = 1 .. Len(q)
  BY LenProperties
<1>2. q \in Injection(1 .. Len(q), Callers)
  BY <1>1 DEF Injection, IsInjective
<1>3. Cardinality(1 .. Len(q)) <= Cardinality(Callers)
  BY <1>2, CallersFinite, FS_Injection
<1>4. Cardinality(1 .. Len(q)) = Len(q)
  BY <1>1, FS_Interval
<1> QED BY <1>3, <1>4

------------------------------------------------------------------------------

(* Nobody has called, and the queue is empty.                              *)
LEMMA InitInv == Init => QueueInv /\ ReadsInv /\ FlagsTyped /\ StagesDone
<1> SUFFICES ASSUME Init PROVE QueueInv /\ ReadsInv /\ FlagsTyped /\ StagesDone
  OBVIOUS
<1>1. << >> \in Seq(Callers) /\ << >> \in Seq(Modes) /\ Len(<< >>) = 0
  BY EmptySeq
<1>2. Range(<< >>) = {} /\ IsInjective(<< >>)
  BY DEF Range, IsInjective
<1>3. QueueInv
  BY <1>1, <1>2 DEF Init, QueueInv, QueueTyped, ContextsAlive, OutcomeStored, ContextsOwned,
                   CallerStates, WriterStates
<1>4. ReadsInv
  BY <1>1, <1>2 DEF Init, ReadsInv, ReadsNested, WriteAlone, Writing, CallerStates
<1>5. FlagsTyped /\ StagesDone
  <2>1. stage \in 0 .. 4 /\ ~ (stage >= 1) /\ ~ (stage >= 2) /\ ~ (stage >= 3) /\ ~ (stage >= 4)
    BY DEF Init
  <2>2. syncing = TRUE /\ running = TRUE /\ open = TRUE /\ asked = FALSE
    BY DEF Init
  <2> QED BY <2>1, <2>2, Zenon DEF FlagsTyped, StagesDone
<1> QED BY <1>3, <1>4, <1>5

(* The callers' steps keep the contexts owned.                             *)
LEMMA CallerKeepsContexts ==
  ASSUME QueueInv, NEW c \in Callers,
         Handle(c) \/ Accept(c) \/ Refuse(c) \/ Return(c) \/ BeginRead(c)
  PROVE  QueueInv'
<1> USE DEF QueueInv, QueueTyped, ContextsAlive, OutcomeStored, ContextsOwned, CallerStates,
            unlocked, locks
<1>0. Range(queue) \in SUBSET Callers
  BY RangeOfSeq
<1>1. CASE Accept(c)
  <2>1. \/ c \notin Range(queue) /\ c \notin stored /\ c # current
        \/ writer \notin {"lock", "blocked", "renew", "visit", "answer"}
    BY <1>1 DEF Accept
  <2>2. c \notin Range(queue)
    BY <1>1 DEF Accept
  <2>3. /\ queue' \in Seq(Callers) /\ IsInjective(queue')
        /\ Range(queue') = Range(queue) \cup {c}
    BY <1>1, <2>2, AppendContext DEF Accept
  <2> QED BY <1>0, <1>1, <2>1, <2>2, <2>3 DEF Accept
<1>2. CASE Handle(c)
  BY <1>0, <1>2 DEF Handle
<1>3. CASE Refuse(c)
  BY <1>0, <1>3 DEF Refuse
<1>4. CASE BeginRead(c)
  BY <1>0, <1>4 DEF BeginRead
<1>5. CASE Return(c)
  BY <1>0, <1>5 DEF Return
<1> QED BY <1>1, <1>2, <1>3, <1>4, <1>5

(* So do their steps within a read, since who reads does not wait.         *)
LEMMA ReadKeepsContexts ==
  ASSUME QueueInv, ReadsInv, NEW c \in Callers, Read(c)
  PROVE  QueueInv'
<1> USE DEF QueueInv, QueueTyped, ContextsAlive, OutcomeStored, ContextsOwned, CallerStates,
            unlocked, locks
<1>0. Range(queue) \in SUBSET Callers
  BY RangeOfSeq
<1>1. caller[c] \in {"reading", "nesting"}
  BY DEF Read, NestRead, EnterRead, ReadTimesOut, Blocked, EndRead, ReadsInv, ReadsNested
<1>2. UNCHANGED unlocked /\ caller' \in {caller, [caller EXCEPT ![c] = "nesting"],
                                         [caller EXCEPT ![c] = "idle"],
                                         [caller EXCEPT ![c] = "ready"],
                                         [caller EXCEPT ![c] = caller[c]]}
  BY DEF Read, NestRead, EnterRead, ReadTimesOut, EndRead
<1> QED BY <1>0, <1>1, <1>2

(* The writer thread takes a context from the queue, stores its outcome    *)
(* and lets go of it before it answers.                                    *)
LEMMA WriteKeepsContexts ==
  ASSUME QueueInv, Write
  PROVE  QueueInv'
<1> USE DEF QueueInv, QueueTyped, ContextsAlive, OutcomeStored, ContextsOwned, WriterStates,
            unwritten, locks
<1>1. ASSUME Pop PROVE /\ queue' \in Seq(Callers) /\ IsInjective(queue')
                       /\ current' \in Callers /\ current' \in Range(queue)
                       /\ Range(queue') = Range(queue) \ {current'}
  BY <1>1, PopContext DEF Pop
<1>2. CASE Take
  BY <1>1, <1>2 DEF Take
<1>3. CASE TakeNext
  BY <1>1, <1>3 DEF TakeNext
<1>4. CASE Quit
  BY <1>4 DEF Quit
<1>5. CASE Visit
  BY <1>5 DEF Visit
<1>6. CASE Answer
  BY <1>6 DEF Answer
<1>7. CASE Release
  BY <1>7 DEF Release
<1>8. CASE Lock \/ Block \/ NextLock \/ RenewLock
  BY <1>8 DEF Lock, Block, NextLock, RenewLock
<1> QED BY <1>2, <1>3, <1>4, <1>5, <1>6, <1>7, <1>8 DEF Write

(* Every step keeps the queue sound.                                       *)
LEMMA QueueInvStep == QueueInv /\ ReadsInv /\ [Next]_vars => QueueInv'
<1> SUFFICES ASSUME QueueInv, ReadsInv, [Next]_vars PROVE QueueInv'
  OBVIOUS
<1>1. CASE UNCHANGED <<caller, queue, stored, answered, writer, current>>
  BY <1>1 DEF QueueInv, QueueTyped, ContextsAlive, OutcomeStored, ContextsOwned
<1>2. CASE UNCHANGED vars \/ Shutdown \/ Ask \/ Join
  BY <1>1, <1>2 DEF vars, Shutdown, Ask, Join
<1> QED
  BY <1>2, CallerKeepsContexts, ReadKeepsContexts, WriteKeepsContexts DEF Next

------------------------------------------------------------------------------

(* There are finitely many reads under a lock.                             *)
LEMMA UnderFinite == ASSUME NEW m PROVE IsFiniteSet(Under(m))
<1>1. IsFiniteSet({1, 2})
  <2>0. 1 \in Int /\ 2 \in Int
    OBVIOUS
  <2>1. IsFiniteSet(1 .. 2)
    BY <2>0, FS_Interval, Zenon
  <2>2. 1 .. 2 = {1, 2}
    OBVIOUS
  <2> QED BY <2>1, <2>2
<1>2. IsFiniteSet(Callers \X {1, 2})
  BY <1>1, CallersFinite, FS_Product
<1>3. Under(m) \subseteq Callers \X {1, 2}
  BY DEF Under
<1> QED BY <1>2, <1>3, FS_Subset

(* While a write goes on no read gets under its lock.                      *)
LEMMA AloneStays ==
  ASSUME WriteAlone, gone \in Nat, gone' \in Nat, gone <= gone', Writing' => Writing,
         Under("now")' \subseteq Under("now")
  PROVE  WriteAlone'
<1>1. /\ Cardinality(Under("now")) \in Nat /\ Cardinality(Under("now")') \in Nat
      /\ Cardinality(Under("now")') <= Cardinality(Under("now"))
  BY UnderFinite, FS_Subset, FS_CardinalityType
<1> QED BY <1>1 DEF WriteAlone

(* A caller holds the same locks still.                                    *)
LEMMA SameAlone ==
  ASSUME WriteAlone, gone \in Nat, UNCHANGED <<reads, gone>>, Writing' => Writing
  PROVE  WriteAlone'
<1>1. Under("now")' = Under("now")
  BY DEF Under
<1> QED BY <1>1, AloneStays

(* Which locks a handler holds, after one more and after one less.         *)
LEMMA ReadOnce ==
  ASSUME NEW r \in Seq(Modes), NEW m \in Modes
  PROVE  /\ Append(r, m) \in Seq(Modes) /\ Len(Append(r, m)) = Len(r) + 1 /\ Len(r) \in Nat
         /\ \A i \in {1, 2} : i <= Len(r) + 1 => \/ Append(r, m)[i] = r[i] /\ i <= Len(r)
                                                 \/ Append(r, m)[i] = m
<1>1. /\ Append(r, m) \in Seq(Modes) /\ Len(Append(r, m)) = Len(r) + 1 /\ Len(r) \in Nat
      /\ \A i \in 1 .. Len(r) : Append(r, m)[i] = r[i]
      /\ Append(r, m)[Len(r) + 1] = m
  BY AppendProperties, LenProperties
<1>2. ASSUME NEW i \in {1, 2}, i <= Len(r) + 1
      PROVE  (Append(r, m)[i] = r[i] /\ i <= Len(r)) \/ Append(r, m)[i] = m
  <2>1. i \in 1 .. Len(r) \/ i = Len(r) + 1
    BY <1>1, <1>2
  <2> QED BY <1>1, <2>1
<1> QED BY <1>1, <1>2

(* The read lock taken last is released first.                             *)
LEMMA ReadLess ==
  ASSUME NEW r \in Seq(Modes), r # << >>
  PROVE  /\ Front(r) \in Seq(Modes) /\ Len(Front(r)) = Len(r) - 1
         /\ \A i \in {1, 2} : i <= Len(Front(r)) => Front(r)[i] = r[i] /\ i <= Len(r)
         /\ Len(r) \in Nat /\ Len(r) > 0
<1>1. Len(r) \in Nat /\ Len(r) > 0 /\ DOMAIN r = 1 .. Len(r)
  BY EmptySeq, LenProperties
<1>2. PICK n \in Nat : Len(r) = n + 1
  <2>1. Len(r) - 1 \in Nat /\ Len(r) = (Len(r) - 1) + 1
    BY <1>1
  <2> QED BY <2>1
<1>3. Front(r) = SubSeq(r, 1, n)
  BY <1>2 DEF Front
<1>4. n <= Len(r) /\ \A i \in 1 .. n : r[i] \in Modes
  BY <1>1, <1>2, ElementOfSeq
<1>5. /\ Front(r) \in Seq(Modes)
      /\ Len(Front(r)) = IF 1 <= n THEN n - 1 + 1 ELSE 0
      /\ \A i \in 1 .. n - 1 + 1 : Front(r)[i] = r[1 + i - 1]
  BY <1>3, <1>4, SubSeqProperties
<1>6. Len(Front(r)) = n
  BY <1>5
<1>8. ASSUME NEW i \in {1, 2}, i <= Len(Front(r)) PROVE Front(r)[i] = r[i] /\ i <= Len(r)
  <2>1. i \in 1 .. n - 1 + 1 /\ 1 + i - 1 = i /\ i <= Len(r)
    BY <1>2, <1>6, <1>8
  <2> QED BY <1>5, <2>1
<1>10. Len(Front(r)) = Len(r) - 1
  BY <1>2, <1>6
<1> QED BY <1>1, <1>5, <1>8, <1>10

(* What a caller does outside of a read.                                   *)
LEMMA CallerKeepsReads ==
  ASSUME ReadsInv, NEW c \in Callers,
         Handle(c) \/ Accept(c) \/ Refuse(c) \/ Return(c) \/ BeginRead(c)
  PROVE  ReadsInv'
<1> USE DEF ReadsInv, CallerStates, unlocked, locks
<1>1. CASE BeginRead(c)
  <2>1. ReadsNested'
    <3>1. Len(reads[c]) = 0
      BY <1>1, EmptySeq DEF BeginRead, ReadsNested
    <3> QED BY <1>1, <3>1 DEF BeginRead, ReadsNested
  <2>2. WriteAlone'
    BY <1>1, SameAlone DEF BeginRead, Writing
  <2> QED BY <1>1, <2>1, <2>2 DEF BeginRead
<1>2. CASE ~ BeginRead(c)
  <2>1. /\ UNCHANGED <<asks, reads, gone, writer>>
        /\ caller[c] \notin {"reading", "nesting"}
        /\ \E s \in {"idle", "handling", "waiting"} : caller' = [caller EXCEPT ![c] = s]
    BY <1>2 DEF Handle, Accept, Refuse, Return
  <2>2. WriteAlone'
    BY <2>1, SameAlone DEF Writing
  <2> QED BY <2>1, <2>2 DEF ReadsNested
<1> QED BY <1>1, <1>2

(* A reader takes and releases its locks one inside the other.             *)
LEMMA ReadKeepsReads ==
  ASSUME ReadsInv, NEW c \in Callers, Read(c)
  PROVE  ReadsInv'
<1> USE DEF ReadsInv, CallerStates, unlocked, locks
<1>0. reads[c] \in Seq(Modes) /\ Len(reads[c]) \in Nat /\ Len(<< >>) = 0 /\ << >> \in Seq(Modes)
  BY LenProperties, EmptySeq
<1>1. CASE NestRead(c)
  <2>1. WriteAlone'
    BY <1>1, SameAlone DEF NestRead, Writing
  <2> QED BY <1>0, <1>1, <2>1 DEF NestRead, ReadsNested
<1>2. CASE EnterRead(c)
  <2>1. asks[c] \in Modes
    BY <1>2 DEF EnterRead, Modes
  <2>2. /\ reads'[c] \in Seq(Modes) /\ Len(reads'[c]) = Len(reads[c]) + 1
        /\ \A i \in {1, 2} : i <= Len(reads'[c]) => \/ reads'[c][i] = reads[c][i] /\ i <= Len(reads[c])
                                                    \/ reads'[c][i] = asks[c]
        /\ \A d \in Callers \ {c} : reads'[d] = reads[d]
    BY <1>0, <1>2, <2>1, ReadOnce DEF EnterRead
  <2>3. /\ reads' \in [Callers -> Seq(Modes)] /\ asks' \in [Callers -> {"none", "now", "past"}]
        /\ gone' \in Nat
    BY <1>2, <2>2 DEF EnterRead
  <2>4. ReadsNested'
    <3>1. ASSUME NEW d \in Callers, d # c
          PROVE  caller'[d] = caller[d] /\ asks'[d] = asks[d] /\ reads'[d] = reads[d]
      BY <1>2, <2>2, <3>1 DEF EnterRead
    <3>2. /\ caller[c] \in {"reading", "nesting"} /\ caller'[c] = caller[c]
          /\ asks'[c] = "none" /\ asks[c] # "none"
      BY <1>2 DEF EnterRead, ReadsNested
    <3>3. CASE caller[c] = "reading"
      <4>1. Len(reads[c]) = 0
        BY <3>2, <3>3 DEF ReadsNested
      <4>2. Len(reads'[c]) = 1
        BY <2>2, <4>1
      <4> QED BY <3>1, <3>2, <3>3, <4>2 DEF ReadsNested
    <3>4. CASE caller[c] = "nesting"
      <4>1. Len(reads[c]) = 1
        BY <3>2, <3>4 DEF ReadsNested
      <4>2. Len(reads'[c]) = 2
        BY <2>2, <4>1
      <4> QED BY <3>1, <3>2, <3>4, <4>2 DEF ReadsNested
    <3> QED BY <3>2, <3>3, <3>4
  <2>5. WriteAlone'
    <3>1. CASE Writing'
      <4>1. asks[c] # "now" /\ Writing /\ gone' = gone
        BY <1>2, <3>1 DEF EnterRead, Blocked, Writing
      <4>2. ASSUME NEW x \in Under("now")' PROVE x \in Under("now")
        <5>1. x[1] \in Callers /\ x[2] \in {1, 2} /\ x[2] <= Len(reads'[x[1]])
              /\ reads'[x[1]][x[2]] = "now" /\ x \in Callers \X {1, 2}
          BY <4>2 DEF Under
        <5>2. x[2] <= Len(reads[x[1]]) /\ reads[x[1]][x[2]] = "now"
          BY <2>2, <4>1, <5>1
        <5> QED BY <5>1, <5>2 DEF Under
      <4> QED BY <4>1, <4>2, AloneStays
    <3> QED BY <3>1 DEF WriteAlone
  <2> QED BY <1>2, <2>3, <2>4, <2>5 DEF EnterRead
<1>3. CASE ReadTimesOut(c)
  <2>1. gone' \in Nat /\ gone <= gone'
    <3> DEFINE L == {i \in DOMAIN reads[c] : reads[c][i] = "lost"}
    <3>1. DOMAIN reads[c] = 1 .. Len(reads[c])
      BY <1>0, LenProperties
    <3>2. IsFiniteSet(1 .. Len(reads[c]))
      BY <1>0, FS_Interval
    <3>3. IsFiniteSet(L)
      BY <3>1, <3>2, FS_Subset
    <3>4. Cardinality(L) \in Nat
      BY <3>3, FS_CardinalityType
    <3>5. gone' = gone + Cardinality(L)
      BY <1>3 DEF ReadTimesOut
    <3> QED BY <3>4, <3>5
  <2>2. WriteAlone'
    <3>1. ASSUME NEW x \in Under("now")' PROVE x \in Under("now")
      <4>1. x[1] \in Callers /\ x[2] \in {1, 2} /\ x[2] <= Len(reads'[x[1]])
            /\ reads'[x[1]][x[2]] = "now" /\ x \in Callers \X {1, 2}
        BY <3>1 DEF Under
      <4>2. x[1] # c
        BY <1>0, <1>3, <4>1 DEF ReadTimesOut
      <4>3. reads'[x[1]] = reads[x[1]]
        BY <1>3, <4>1, <4>2 DEF ReadTimesOut
      <4> QED BY <4>1, <4>3 DEF Under
    <3> QED BY <1>3, <2>1, <3>1, AloneStays DEF ReadTimesOut, Writing
  <2> QED BY <1>0, <1>3, <2>1, <2>2 DEF ReadTimesOut, ReadsNested
<1>4. CASE EndRead(c)
  <2>1. /\ reads'[c] \in Seq(Modes) /\ Len(reads'[c]) = Len(reads[c]) - 1
        /\ \A i \in {1, 2} : i <= Len(reads'[c]) => reads'[c][i] = reads[c][i] /\ i <= Len(reads[c])
        /\ Len(reads[c]) > 0
        /\ \A d \in Callers \ {c} : reads'[d] = reads[d]
    BY <1>0, <1>4, ReadLess DEF EndRead
  <2>2. reads' \in [Callers -> Seq(Modes)] /\ gone' \in Nat /\ gone <= gone'
    BY <1>4, <2>1 DEF EndRead
  <2>3. caller[c] \in {"reading", "nesting"} /\ Len(reads[c]) \in {1, 2}
    BY <1>0, <1>4, <2>1 DEF EndRead, ReadsNested
  <2>4. Len(reads[c]) = 1 => reads'[c] = << >>
    BY <2>1, EmptySeq
  <2>5. ReadsNested'
    <3>1. ASSUME NEW d \in Callers, d # c
          PROVE  caller'[d] = caller[d] /\ asks'[d] = asks[d] /\ reads'[d] = reads[d]
      BY <1>4, <2>1, <3>1 DEF EndRead
    <3>2. asks'[c] = "none" /\ asks[c] = "none"
      BY <1>4 DEF EndRead
    <3>3. CASE Len(reads[c]) = 1
      <4>1. caller'[c] = "ready"
        BY <1>4, <3>3 DEF EndRead
      <4> QED BY <2>4, <3>1, <3>2, <3>3, <4>1 DEF ReadsNested
    <3>4. CASE Len(reads[c]) = 2
      <4>1. caller'[c] = caller[c] /\ Len(reads'[c]) = 1
        BY <1>4, <2>1, <3>4 DEF EndRead
      <4>2. caller[c] = "nesting"
        <5>1. caller[c] = "reading" => Len(reads[c]) = 1
          BY <3>2 DEF ReadsNested
        <5> QED BY <2>3, <3>4, <5>1
      <4> QED BY <3>1, <3>2, <4>1, <4>2 DEF ReadsNested
    <3> QED BY <2>3, <3>3, <3>4
  <2>6. WriteAlone'
    <3>1. ASSUME NEW x \in Under("now")' PROVE x \in Under("now")
      <4>1. x[1] \in Callers /\ x[2] \in {1, 2} /\ x[2] <= Len(reads'[x[1]])
            /\ reads'[x[1]][x[2]] = "now" /\ x \in Callers \X {1, 2}
        BY <3>1 DEF Under
      <4>2. x[2] <= Len(reads[x[1]]) /\ reads[x[1]][x[2]] = "now"
        BY <2>1, <4>1
      <4> QED BY <4>1, <4>2 DEF Under
    <3> QED BY <1>4, <2>2, <3>1, AloneStays DEF EndRead, Writing
  <2> QED BY <1>4, <2>2, <2>5, <2>6 DEF EndRead
<1> QED BY <1>1, <1>2, <1>3, <1>4 DEF Read

(* The writer gets a lock only when its count of readers is 0.             *)
LEMMA WriteKeepsReads ==
  ASSUME ReadsInv, Write
  PROVE  ReadsInv'
<1> USE DEF ReadsInv, unwritten, locks
<1>1. CASE NextLock \/ RenewLock
  <2>1. ASSUME NEW c \in Callers
        PROVE  /\ reads'[c] \in Seq(Modes) /\ Len(reads'[c]) = Len(reads[c])
               /\ reads[c] = << >> => reads'[c] = << >>
    <3>1. reads[c] \in Seq(Modes)
      OBVIOUS
    <3>2. /\ Len(reads[c]) \in Nat /\ DOMAIN reads[c] = 1 .. Len(reads[c])
          /\ \A i \in 1 .. Len(reads[c]) : reads[c][i] \in Modes
      BY <3>1, LenProperties
    <3>3. \/ reads'[c] = [i \in 1 .. Len(reads[c]) |-> "past"]
          \/ reads'[c] = [i \in 1 .. Len(reads[c]) |->
                            IF reads[c][i] = "now" THEN "lost" ELSE reads[c][i]]
      BY <1>1, <3>2 DEF NextLock, RenewLock
    <3>4. reads'[c] \in [1 .. Len(reads[c]) -> Modes]
      BY <3>2, <3>3 DEF Modes
    <3>5. ASSUME NEW n \in Nat, NEW f \in [1 .. n -> Modes] PROVE f \in Seq(Modes) /\ Len(f) = n
      OBVIOUS
    <3>6. reads'[c] \in Seq(Modes) /\ Len(reads'[c]) = Len(reads[c])
      BY <3>2, <3>4, <3>5
    <3> QED BY <3>6, EmptySeq
  <2>2. reads' \in [Callers -> Seq(Modes)] /\ gone' \in Nat
    BY <1>1, <2>1 DEF NextLock, RenewLock
  <2>3. /\ asks' \in [Callers -> {"none", "now", "past"}]
        /\ \A c \in Callers : asks'[c] = "none" <=> asks[c] = "none"
    BY <1>1 DEF NextLock, RenewLock
  <2>4. ReadsNested'
    BY <1>1, <2>1, <2>3 DEF NextLock, RenewLock, ReadsNested
  <2> QED BY <1>1, <2>2, <2>3, <2>4 DEF NextLock, RenewLock, WriteAlone, Writing
<1>2. CASE Lock
  <2>1. Cardinality(Under("now")) \in Nat
    BY UnderFinite, FS_CardinalityType
  <2>2. Under("now")' = Under("now")
    BY <1>2 DEF Lock, Under
  <2>3. WriteAlone'
    BY <1>2, <2>1, <2>2 DEF Lock, Shared, WriteAlone
  <2> QED BY <1>2, <2>3 DEF Lock, ReadsNested
<1>3. CASE UNCHANGED <<caller, asks, reads, gone>> /\ (Writing' => Writing)
  BY <1>3, SameAlone DEF ReadsNested
<1>4. CASE Take \/ Quit \/ Visit \/ Answer \/ Release \/ TakeNext \/ Block
  BY <1>3, <1>4 DEF Take, Quit, Visit, Answer, Release, TakeNext, Block, Writing
<1> QED BY <1>1, <1>2, <1>4 DEF Write

(* Every step keeps the readers' locks nested and the writer apart.        *)
LEMMA ReadsInvStep == ReadsInv /\ [Next]_vars => ReadsInv'
<1> SUFFICES ASSUME ReadsInv, [Next]_vars PROVE ReadsInv'
  OBVIOUS
<1>1. CASE UNCHANGED <<caller, asks, reads, gone, writer>>
  BY <1>1, SameAlone DEF ReadsInv, ReadsNested, Writing
<1>2. CASE UNCHANGED vars \/ Shutdown \/ Ask \/ Join
  BY <1>1, <1>2 DEF vars, locks, Shutdown, Ask, Join
<1> QED
  BY <1>2, CallerKeepsReads, ReadKeepsReads, WriteKeepsReads DEF Next

------------------------------------------------------------------------------

(* Three plugins are shut down one after the other.                        *)
LEMMA OrderTyped == Len(Order) = 3
BY DEF Order

(* The flags of the threads keep their types.                              *)
LEMMA FlagsStep == FlagsTyped /\ [Next]_vars => FlagsTyped'
<1> SUFFICES ASSUME FlagsTyped, [Next]_vars PROVE FlagsTyped'
  OBVIOUS
<1>1. stage' \in 0 .. 4
  <2>1. stage' = stage \/ Shutdown \/ Join
    BY DEF Next, vars, locks, Handle, Accept, Refuse, Return, BeginRead, Read, NestRead,
      EnterRead, ReadTimesOut, EndRead, unlocked, unwritten, Write, Take, Quit, Visit, Answer,
      Release, TakeNext, Lock, Block, NextLock, RenewLock, Ask
  <2>2. Shutdown => stage' = 1
    BY DEF Shutdown
  <2>3. Join => stage \in 1 .. 3 /\ stage' = stage + 1
    BY OrderTyped DEF Join
  <2>4. stage \in 0 .. 4
    BY DEF FlagsTyped
  <2>5. CASE Join
    BY <2>3, <2>5
  <2> QED BY <2>1, <2>2, <2>4, <2>5
<1>2. syncing' \in BOOLEAN /\ running' \in BOOLEAN /\ open' \in BOOLEAN /\ asked' \in BOOLEAN
  <2>1. CASE UNCHANGED <<syncing, running, open, asked>>
    BY <2>1 DEF FlagsTyped
  <2>2. CASE Answer \/ Ask \/ Join
    BY <2>2, Zenon DEF FlagsTyped, Answer, Ask, Join
  <2>3. UNCHANGED <<syncing, running, open, asked>> \/ Answer \/ Ask \/ Join
    BY DEF Next, vars, locks, Handle, Accept, Refuse, Return, BeginRead, Read, NestRead,
      EnterRead, ReadTimesOut, EndRead, unlocked, unwritten, Write, Take, Quit, Visit,
      Release, TakeNext, Lock, Block, NextLock, RenewLock, Shutdown
  <2> QED BY <2>1, <2>2, <2>3
<1> QED BY <1>1, <1>2 DEF FlagsTyped

(* The parts of the invariant contain the type invariant.                  *)
LEMMA InvTyped == QueueInv /\ ReadsInv /\ FlagsTyped => TypeOK
<1> SUFFICES ASSUME QueueInv, ReadsInv, FlagsTyped PROVE TypeOK
  OBVIOUS
<1>1. reads \in [Callers -> SeqOf({"now", "past", "lost"}, 2)]
  <2>1. ASSUME NEW c \in Callers PROVE reads[c] \in SeqOf({"now", "past", "lost"}, 2)
    <3>1. reads[c] \in Seq({"now", "past", "lost"})
      BY DEF ReadsInv, Modes
    <3>2. Len(reads[c]) <= 2
      <4>0. Len(reads[c]) \in Nat
        BY <3>1, LenProperties
      <4>1. ASSUME NEW n \in Nat, n \in {0, 1, 2} PROVE n <= 2
        BY <4>1
      <4>2. CASE caller[c] \in {"reading", "nesting"}
        <5>1. Len(reads[c]) \in {0, 1, 2}
          BY <4>2 DEF ReadsInv, ReadsNested
        <5> QED BY <4>0, <4>1, <5>1
      <4>3. CASE caller[c] \notin {"reading", "nesting"}
        <5>1. reads[c] = << >>
          BY <4>3 DEF ReadsInv, ReadsNested
        <5> QED BY <4>0, <5>1
      <4> QED BY <4>2, <4>3
    <3> QED BY <3>1, <3>2, SeqOfTwo
  <2> QED BY <2>1 DEF ReadsInv
<1>2. Len(queue) <= Cardinality(Callers)
  BY QueueFits DEF QueueInv, QueueTyped, ContextsAlive
<1>3. {syncing, running, open, asked} \subseteq BOOLEAN
  BY DEF FlagsTyped
<1>4. stage \in 0 .. Len(Order) + 1
  BY OrderTyped DEF FlagsTyped
<1> QED
  BY <1>1, <1>2, <1>3, <1>4
  DEF TypeOK, QueueInv, QueueTyped, ReadsInv, CallerStates, WriterStates

(* The stages of the shutdown: nobody serves whose plugin was told to end, *)
(* so what a stage has waited for stays as it is.                          *)
LEMMA StagesStep ==
  ASSUME WebFirst = FALSE, QueueInv, ReadsInv, FlagsTyped, StagesDone, [Next]_vars
  PROVE  StagesDone'
<1>0. Len(Order) = 3 /\ Order[1] = "web" /\ Order[2] = "p2p" /\ Order[3] = "chain"
  BY DEF Order
<1>1. stage \in 0 .. 4 /\ caller \in [Callers -> CallerStates] /\ Main \in Callers
      /\ P2p \in Callers /\ Pool \subseteq Callers /\ P2p # Main /\ P2p \notin Pool /\ Main \notin Pool
  BY ThreadAssumption DEF FlagsTyped, QueueInv, QueueTyped, Callers
<1>2. ASSUME NEW c \in Callers,
             Handle(c) \/ Accept(c) \/ Refuse(c) \/ Return(c) \/ BeginRead(c) \/ Read(c)
      PROVE  StagesDone'
  <2>1. UNCHANGED <<writer, open, stage>> /\ \A d \in Callers : d # c => caller'[d] = caller[d]
    BY <1>1, <1>2 DEF Handle, Accept, Refuse, Return, BeginRead, Read, NestRead, EnterRead,
                      ReadTimesOut, EndRead, unlocked, locks
  <2>2. CASE caller[c] # "idle"
    BY <1>1, <2>1, <2>2 DEF StagesDone
  <2>3. CASE caller[c] = "idle"
    <3>1. Handle(c) \/ caller'[c] = "idle"
      BY <1>1, <1>2, <2>3
      DEF Accept, Refuse, Return, BeginRead, Read, NestRead, EnterRead, ReadTimesOut, EndRead,
          ReadsInv, ReadsNested, Blocked
    <3>2. ASSUME Handle(c) PROVE StagesDone'
      <4>1. Serves(c)
        BY <3>2 DEF Handle
      <4>2. /\ c = Main => stage = 0
            /\ c = P2p => ~ (stage >= 3)
            /\ c \in Pool => ~ (stage >= 2)
        BY <1>0, <1>1, <4>1 DEF Serves, Ending
      <4> QED BY <1>1, <2>1, <4>2 DEF StagesDone, Callers
    <3>3. ASSUME caller'[c] = "idle" PROVE StagesDone'
      BY <1>1, <2>1, <3>3 DEF StagesDone
    <3> QED BY <3>1, <3>2, <3>3
  <2> QED BY <2>2, <2>3
<1>3. CASE Write
  <2>1. UNCHANGED <<caller, open, stage>> /\ (writer = "ended" => writer' = "ended")
    BY <1>3 DEF Write, Take, Quit, Visit, Answer, Release, TakeNext, Lock, Block, NextLock, RenewLock,
                unwritten
  <2> QED BY <2>1 DEF StagesDone
<1>4. CASE Shutdown
  <2>1. UNCHANGED <<caller, open, writer>> /\ stage' = 1 /\ caller[Main] = "idle" /\ stage = 0
    BY <1>4 DEF Shutdown
  <2> QED BY <2>1 DEF StagesDone
<1>5. CASE Ask
  BY <1>5 DEF Ask, StagesDone
<1>6. CASE Join
  <2>1. UNCHANGED <<caller, writer>> /\ stage \in 1 .. 3 /\ stage' = stage + 1 /\ Ended(Order[stage])
    BY <1>0, <1>6 DEF Join
  <2>2. open' = (open /\ Order[stage] # "chain")
    BY <1>6 DEF Join
  <2>3. CASE stage \in {1, 2}
    <3>1. open
      BY <2>3 DEF StagesDone
    <3>2. Order[stage] # "chain"
      BY <1>0, <2>3
    <3>3. open'
      BY <2>2, <3>1, <3>2, Zenon
    <3>4. CASE stage = 1
      BY <1>0, <2>1, <3>3, <3>4 DEF StagesDone, Ended
    <3>5. CASE stage = 2
      BY <1>0, <2>1, <3>3, <3>5 DEF StagesDone, Ended
    <3> QED BY <2>3, <3>4, <3>5
  <2>5. CASE stage = 3
    BY <1>0, <2>1, <2>2, <2>5 DEF StagesDone, Ended
  <2> QED BY <2>1, <2>3, <2>5
<1>7. CASE UNCHANGED vars
  BY <1>7 DEF vars, StagesDone
<1> QED BY <1>2, <1>3, <1>4, <1>5, <1>6, <1>7 DEF Next

------------------------------------------------------------------------------

(* Whatever the order of the shutdown: the writer never follows a pointer  *)
(* to a context that is gone, nobody is let go before the outcome is       *)
(* stored, and no more reads are overrun by a write under its lock than    *)
(* reads that took it while next_lock() was constructing it have ended.    *)
THEOREM ContextsAreSafe ==
  Spec => [](TypeOK /\ ContextsAlive /\ OutcomeStored /\ WriteAlone)
<1> DEFINE Inv == QueueInv /\ ReadsInv /\ FlagsTyped
<1>1. Init => Inv
  BY InitInv
<1>2. Inv /\ [Next]_vars => Inv'
  BY QueueInvStep, ReadsInvStep, FlagsStep
<1>3. Inv => TypeOK /\ ContextsAlive /\ OutcomeStored /\ WriteAlone
  BY InvTyped DEF QueueInv, ReadsInv
<1> QED BY <1>1, <1>2, <1>3, PTL DEF Spec

(* When the chain plugin is the last to shut down, nothing is written to   *)
(* the database after it is closed, and nobody is left who would wait; and *)
(* what ContextsAreSafe says.                                              *)
THEOREM QueueIsSound ==
  ASSUME WebFirst = FALSE
  PROVE  Spec => []QueueSound
<1> DEFINE Inv == QueueInv /\ ReadsInv /\ FlagsTyped /\ StagesDone
<1>1. Init => Inv
  BY InitInv
<1>2. Inv /\ [Next]_vars => Inv'
  BY QueueInvStep, ReadsInvStep, FlagsStep, StagesStep
<1>3. Inv => QueueSound
  <2> SUFFICES ASSUME Inv PROVE QueueSound
    OBVIOUS
  <2>1. ASSUME ~ open
        PROVE  writer = "ended" /\ queue = << >> /\ \A c \in Callers : caller[c] = "idle"
    <3>1. stage \in 0 .. 4 /\ stage >= 4
      BY <2>1 DEF StagesDone, FlagsTyped
    <3>2. writer = "ended" /\ \A c \in Callers : caller[c] = "idle"
      BY <3>1 DEF StagesDone, Callers
    <3>3. queue = << >>
      <4>1. SUFFICES ASSUME queue # << >> PROVE FALSE
        OBVIOUS
      <4>2. Head(queue) \in Callers /\ Head(queue) \in Range(queue)
        BY <4>1, PopContext DEF QueueInv, QueueTyped, ContextsAlive
      <4> QED BY <3>2, <4>2 DEF QueueInv, ContextsAlive
    <3> QED BY <3>2, <3>3
  <2>2. ClosedIsQuiet
    BY <2>1 DEF ClosedIsQuiet
  <2>3. TypeOK /\ ContextsAlive /\ OutcomeStored /\ WriteAlone
    BY InvTyped DEF QueueInv, ReadsInv
  <2> QED BY <2>2, <2>3 DEF QueueSound
<1> QED BY <1>1, <1>2, <1>3, PTL DEF Spec
==============================================================================
