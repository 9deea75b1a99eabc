--------------------------- MODULE BlockLogProofs ----------------------------
(***************************************************************************)
(* Proofs about BlockLog, for a log of any length: whatever prefixes of    *)
(* the block file and of the index a crash leaves, an open log is whole.   *)
(***************************************************************************)
EXTENDS BlockLog, FiniteSetsExt, FiniteSetTheorems, SequenceTheorems, TLAPS

------------------------------------------------------------------------------
(* Numbers and sequences. *)

(* Where the elements of two sequences are once they are one.              *)
LEMMA Concatenated ==
  ASSUME NEW S, NEW s \in Seq(S), NEW t \in Seq(S), NEW m, NEW n, Len(s) = m, Len(t) = n
  PROVE  /\ s \o t \in Seq(S)
         /\ m \in Nat /\ n \in Nat /\ Len(s \o t) = m + n
         /\ \A i \in 1 .. m : (s \o t)[i] = s[i]
         /\ \A i \in 1 .. n : (s \o t)[m + i] = t[i]
<1>1. /\ s \o t \in Seq(S) /\ Len(s \o t) = Len(s) + Len(t)
      /\ \A i \in 1 .. Len(s) + Len(t) :
           (s \o t)[i] = IF i <= Len(s) THEN s[i] ELSE t[i - Len(s)]
      /\ Len(s) \in Nat /\ Len(t) \in Nat
  BY ConcatProperties, LenProperties
<1>2. ASSUME NEW i \in 1 .. Len(s) PROVE (s \o t)[i] = s[i]
  <2>1. i \in 1 .. Len(s) + Len(t) /\ i <= Len(s)
    BY <1>1
  <2> QED BY <1>1, <2>1
<1>3. ASSUME NEW i \in 1 .. Len(t) PROVE (s \o t)[Len(s) + i] = t[i]
  <2>1. Len(s) + i \in 1 .. Len(s) + Len(t) /\ ~ (Len(s) + i <= Len(s)) /\ (Len(s) + i) - Len(s) = i
    BY <1>1
  <2> QED BY <1>1, <2>1
<1> QED BY <1>1, <1>2, <1>3

------------------------------------------------------------------------------
Number == 0 .. MaxBlocks

LogTyped ==
  /\ blocks \in Number /\ unwritten \in Number /\ flushed \in Number
  /\ torn \in BOOLEAN
  /\ index \in Seq(Number) /\ pending \in Seq(Number)
  /\ head \in -1 .. MaxBlocks
  /\ strict \in BOOLEAN

(* What was flushed is in the block file, in all states but a torn one too. *)
FlushedWritten == flushed <= blocks

(* An open log: the head is the last block of the file and the buffer, and *)
(* the index, file and buffer, has an entry for every block, in order.  A  *)
(* log opened with one block has none at all, and takes no further block;  *)
(* no more does one whose index was shorter than an entry and was kept.    *)
InOrder ==
  /\ \A i \in 1 .. Len(index) : index[i] = i
  /\ \A i \in 1 .. Len(pending) : pending[i] = Len(index) + i
  /\ Len(index) + Len(pending) = head \/ (head = 1 /\ Len(index) = 0 /\ Len(pending) = 0)

Stunted == index = << 0 >> /\ Len(pending) = 0

OpenWhole == IsOpen => head = blocks + unwritten /\ (InOrder \/ Stunted)

(* A closed log: the buffers are gone, and the index file has entries in   *)
(* order, the last of which may be cut off.  Its length is arbitrary.      *)
ClosedCut ==
  ~ IsOpen =>
    /\ unwritten = 0 /\ Len(pending) = 0
    /\ \A i \in 1 .. Len(index) : index[i] = i \/ (i = Len(index) /\ index[i] = 0)

LogInv == LogTyped /\ FlushedWritten /\ OpenWhole /\ ClosedCut

------------------------------------------------------------------------------

(* The streams' buffers, written out behind what the files hold.           *)
LEMMA Joined ==
  ASSUME NEW s \in Seq(Number), NEW t \in Seq(Number)
  PROVE  /\ s \o t \in Seq(Number)
         /\ Len(s) \in Nat /\ Len(t) \in Nat /\ Len(s \o t) = Len(s) + Len(t)
         /\ \A i \in 1 .. Len(s) : (s \o t)[i] = s[i]
         /\ \A i \in 1 .. Len(t) : (s \o t)[Len(s) + i] = t[i]
BY Concatenated

(* The first n entries of a buffer.                                        *)
LEMMA Cut ==
  ASSUME NEW s \in Seq(Number), NEW n \in 0 .. Len(s)
  PROVE  /\ SubSeq(s, 1, n) \in Seq(Number)
         /\ Len(SubSeq(s, 1, n)) = n
         /\ \A i \in 1 .. n : SubSeq(s, 1, n)[i] = s[i]
<1>1. Len(s) \in Nat /\ n \in Nat /\ n <= Len(s)
  BY LenProperties
<1>2. \A i \in 1 .. n : s[i] \in Number
  BY <1>1, ElementOfSeq
<1>3. /\ SubSeq(s, 1, n) \in Seq(Number)
      /\ Len(SubSeq(s, 1, n)) = IF 1 <= n THEN n - 1 + 1 ELSE 0
      /\ \A i \in 1 .. n - 1 + 1 : SubSeq(s, 1, n)[i] = s[1 + i - 1]
  BY <1>1, <1>2, SubSeqProperties
<1>4. Len(SubSeq(s, 1, n)) = n
  BY <1>1, <1>3
<1>5. ASSUME NEW i \in 1 .. n PROVE SubSeq(s, 1, n)[i] = s[i]
  <2>1. i \in 1 .. n - 1 + 1 /\ 1 + i - 1 = i
    BY <1>1
  <2> QED BY <1>3, <2>1
<1> QED BY <1>3, <1>4, <1>5

(* What construct_index() writes.                                          *)
LEMMA Constructed ==
  ASSUME NEW n \in Number
  PROVE  /\ ConstructIndex(n) \in Seq(Number)
         /\ \A i \in 1 .. Len(ConstructIndex(n)) : ConstructIndex(n)[i] = i
         /\ Len(ConstructIndex(n)) = IF n = 1 THEN 0 ELSE n
<1>1. CASE n = 1
  <2>1. ConstructIndex(n) = << >>
    BY <1>1 DEF ConstructIndex
  <2>2. ConstructIndex(n) \in Seq(Number) /\ Len(ConstructIndex(n)) = 0
    BY <2>1, EmptySeq
  <2>3. 1 .. 0 = {}
    OBVIOUS
  <2> QED BY <1>1, <2>2, <2>3
<1>2. CASE n # 1
  <2>1. ConstructIndex(n) = [i \in 1 .. n |-> i]
    BY <1>2 DEF ConstructIndex, Positions
  <2>2. n \in Nat /\ [i \in 1 .. n |-> i] \in [1 .. n -> Number]
    BY MaxBlocksAssumption DEF Number
  <2>3. ConstructIndex(n) \in Seq(Number) /\ Len(ConstructIndex(n)) = n
    BY <2>1, <2>2
  <2> QED BY <1>2, <2>1, <2>3
<1> QED BY <1>1, <1>2

(* The log starts with both files empty.                                   *)
LEMMA InitInv == Init => LogInv
<1> SUFFICES ASSUME Init PROVE LogInv
  OBVIOUS
<1>1. << >> \in Seq(Number) /\ Len(<< >>) = 0
  BY EmptySeq
<1>2. LogTyped
  <2>1. 0 \in Number /\ -1 \in -1 .. MaxBlocks /\ FALSE \in BOOLEAN
    BY MaxBlocksAssumption DEF Number
  <2> QED BY <1>1, <2>1 DEF Init, LogTyped
<1>3. ~ IsOpen
  BY DEF Init, IsOpen
<1>4. 1 .. Len(<< >>) = {}
  BY <1>1
<1>5. FlushedWritten /\ OpenWhole /\ ClosedCut
  BY <1>1, <1>3, <1>4 DEF Init, FlushedWritten, OpenWhole, ClosedCut
<1> QED BY <1>2, <1>5 DEF LogInv

(* An index shorter than an entry, with nothing to write behind it.        *)
LEMMA StuntedIs ==
  ASSUME LogInv, Stunted
  PROVE  /\ index \o pending = index
         /\ Len(index) = 1 /\ index[1] = 0
<1>1. index \in Seq(Number) /\ pending \in Seq(Number)
  BY DEF LogInv, LogTyped
<1>2. pending = << >>
  BY <1>1, EmptySeq DEF Stunted
<1>3. index \o << >> = index
  BY <1>1
<1> QED BY <1>2, <1>3 DEF Stunted

(* open(): an index is kept only if its last entry is the last block, and  *)
(* then it is complete, since its entries are in order; or if it is too    *)
(* short to be read.                                                       *)
LEMMA OpenInv ==
  ASSUME LogInv, Open \/ OpenUnread
  PROVE  LogInv'
<1> USE MaxBlocksAssumption DEF LogInv
<1>1. /\ LogTyped /\ head' = blocks /\ UNCHANGED <<blocks, torn, unwritten, flushed>>
      /\ unwritten = 0 /\ Len(pending) = 0 /\ Len(index) \in Nat /\ strict' = strict
      /\ \A i \in 1 .. Len(index) : index[i] = i \/ (i = Len(index) /\ index[i] = 0)
  BY LenProperties DEF Open, OpenUnread, Opened, ClosedCut, LogTyped
<1>2. blocks \in Number /\ blocks \in Nat /\ head' \in -1 .. MaxBlocks /\ head' >= 0
  BY <1>1 DEF LogTyped, Number
<1>3. CASE Open /\ blocks > 0 /\ index # << >> /\ Last(index) = blocks
  <2>1. UNCHANGED <<index, pending>>
    BY <1>3 DEF Open
  <2>2. Len(index) > 0
    BY <1>1, <1>3, EmptySeq DEF LogTyped
  <2>3. index[Len(index)] = blocks
    BY <1>3 DEF Last
  <2>4. Len(index) \in 1 .. Len(index)
    BY <1>1, <2>2
  <2>5. Len(index) = blocks /\ \A i \in 1 .. Len(index) : index[i] = i
    BY <1>1, <1>2, <1>3, <2>3, <2>4
  <2>6. OpenWhole'
    BY <1>1, <1>2, <2>1, <2>5 DEF OpenWhole, InOrder
  <2> QED BY <1>1, <1>2, <2>1, <2>6 DEF LogTyped, FlushedWritten, ClosedCut, IsOpen
<1>4. CASE RebuildIndex
  <2>1. index' = << >> /\ pending' = ConstructIndex(blocks)
    BY <1>4 DEF RebuildIndex
  <2>2. /\ index' \in Seq(Number) /\ Len(index') = 0
        /\ pending' \in Seq(Number)
        /\ \A i \in 1 .. Len(pending') : pending'[i] = i
        /\ Len(pending') = IF blocks = 1 THEN 0 ELSE blocks
    BY <1>2, <2>1, EmptySeq, Constructed
  <2>3. Len(pending') \in Nat
    BY <1>2, <2>2
  <2>4. OpenWhole'
    BY <1>1, <1>2, <2>2, <2>3 DEF OpenWhole, InOrder
  <2> QED BY <1>1, <1>2, <2>2, <2>4 DEF LogTyped, FlushedWritten, ClosedCut, IsOpen
<1>5. CASE OpenUnread /\ UNCHANGED <<index, pending>>
  <2>1. OpenWhole'
    BY <1>1, <1>2, <1>5 DEF OpenUnread, Unreadable, OpenWhole, Stunted
  <2> QED BY <1>1, <1>2, <1>5, <2>1 DEF LogTyped, FlushedWritten, ClosedCut, IsOpen
<1> QED BY <1>3, <1>4, <1>5 DEF Open, OpenUnread

(* The streams do not throw any more, or throw again.                      *)
LEMMA StrictInv ==
  ASSUME LogInv, OpenThrows \/ Restart
  PROVE  LogInv'
<1>1. strict' \in BOOLEAN /\ UNCHANGED <<blocks, torn, unwritten, index, pending, head, flushed>>
  BY DEF OpenThrows, Restart
<1> QED
  BY <1>1 DEF LogInv, LogTyped, FlushedWritten, OpenWhole, InOrder, Stunted, ClosedCut, IsOpen

(* append() puts a record and its index entry into the two buffers.        *)
LEMMA AppendInv ==
  ASSUME LogInv, Append1
  PROVE  LogInv'
<1> USE MaxBlocksAssumption DEF LogInv
<1>1. /\ head \in Nat /\ head + 1 \in Number /\ blocks \in Nat /\ unwritten \in Nat
      /\ index \in Seq(Number) /\ pending \in Seq(Number)
      /\ Len(index) \in Nat /\ Len(pending) \in Nat
      /\ Len(index) + Len(pending) = head /\ head = blocks + unwritten
      /\ \A i \in 1 .. Len(index) : index[i] = i
      /\ \A i \in 1 .. Len(pending) : pending[i] = Len(index) + i
  <2>1. ~ Stunted
    <3>1. SUFFICES ASSUME Stunted PROVE FALSE
      OBVIOUS
    <3>2. 1 \in DOMAIN index /\ index[1] = 0
      BY <3>1 DEF Stunted
    <3> QED BY <3>2 DEF Append1, CanAppend, Range
  <2> QED
    BY <2>1, LenProperties
    DEF Append1, LogTyped, IsOpen, OpenWhole, InOrder, CanAppend, Number
<1>2. /\ pending' \in Seq(Number) /\ Len(pending') = Len(pending) + 1
      /\ \A i \in 1 .. Len(pending) : pending'[i] = pending[i]
      /\ pending'[Len(pending) + 1] = head + 1
  BY <1>1, AppendProperties DEF Append1
<1>3. ASSUME NEW i \in 1 .. Len(pending') PROVE pending'[i] = Len(index) + i
  <2>1. i \in 1 .. Len(pending) \/ i = Len(pending) + 1
    BY <1>1, <1>2
  <2> QED BY <1>1, <1>2, <2>1
<1>4. /\ index' = index /\ head' = head + 1 /\ unwritten' = unwritten + 1
      /\ UNCHANGED <<blocks, torn, flushed>>
  BY DEF Append1
<1>5. OpenWhole'
  BY <1>1, <1>2, <1>3, <1>4 DEF OpenWhole, InOrder
<1> QED
  BY <1>1, <1>2, <1>4, <1>5 DEF Append1, LogTyped, FlushedWritten, ClosedCut, IsOpen, Number

(* What flush(), close() and a spilled buffer leave in the index file.     *)
LEMMA IndexWritten ==
  ASSUME LogInv, IsOpen, InOrder
  PROVE  /\ index \o pending \in Seq(Number)
         /\ Len(index \o pending) = Len(index) + Len(pending)
         /\ \A i \in 1 .. Len(index) + Len(pending) : (index \o pending)[i] = i
<1>1. /\ index \in Seq(Number) /\ pending \in Seq(Number)
      /\ \A i \in 1 .. Len(index) : index[i] = i
      /\ \A i \in 1 .. Len(pending) : pending[i] = Len(index) + i
  BY DEF LogInv, LogTyped, InOrder
<1>2. /\ index \o pending \in Seq(Number)
      /\ Len(index) \in Nat /\ Len(pending) \in Nat
      /\ Len(index \o pending) = Len(index) + Len(pending)
      /\ \A i \in 1 .. Len(index) : (index \o pending)[i] = index[i]
      /\ \A i \in 1 .. Len(pending) : (index \o pending)[Len(index) + i] = pending[i]
  BY <1>1, Joined
<1>3. ASSUME NEW i \in 1 .. Len(index) + Len(pending) PROVE (index \o pending)[i] = i
  <2>1. CASE i \in 1 .. Len(index)
    BY <1>1, <1>2, <2>1
  <2>2. CASE i \notin 1 .. Len(index)
    <3>1. i - Len(index) \in 1 .. Len(pending) /\ i = Len(index) + (i - Len(index))
      BY <1>2, <2>2
    <3>2. (index \o pending)[Len(index) + (i - Len(index))] = Len(index) + (i - Len(index))
      BY <1>1, <1>2, <3>1
    <3> QED BY <3>1, <3>2
  <2> QED BY <2>1, <2>2
<1> QED BY <1>2, <1>3

(* What is written out, by the streams, flush() or close(), was appended.  *)
LEMMA WriteInv ==
  ASSUME LogInv, SpillBlocks \/ SpillIndex \/ Flush \/ Close
  PROVE  LogInv'
<1> USE MaxBlocksAssumption
<1>0. IsOpen
  BY DEF SpillBlocks, SpillIndex, Flush, Close
<1>1. /\ head \in Nat /\ head <= MaxBlocks /\ blocks \in Nat /\ unwritten \in Nat /\ flushed \in Nat
      /\ torn \in BOOLEAN /\ strict \in BOOLEAN
      /\ index \in Seq(Number) /\ pending \in Seq(Number)
      /\ Len(index) \in Nat /\ Len(pending) \in Nat
      /\ head = blocks + unwritten
      /\ InOrder \/ Stunted
      /\ flushed <= blocks
  BY <1>0, LenProperties DEF LogInv, LogTyped, IsOpen, OpenWhole, Number, FlushedWritten
<1>2. << >> \in Seq(Number) /\ Len(<< >>) = 0 /\ \A i \in 1 .. 0 : FALSE
  BY EmptySeq
<1> DEFINE all == index \o pending
<1>4. /\ all \in Seq(Number) /\ Len(all) \in Nat
      /\ \/ all = << 0 >>
         \/ /\ \A i \in 1 .. Len(all) : all[i] = i
            /\ Len(all) = head \/ (head = 1 /\ Len(all) = 0)
      /\ \A i \in 1 .. Len(all) : all[i] = i \/ (i = Len(all) /\ all[i] = 0)
  <2>1. CASE InOrder
    <3>1. /\ all \in Seq(Number) /\ Len(all) = Len(index) + Len(pending)
          /\ \A i \in 1 .. Len(index) + Len(pending) : all[i] = i
      BY <1>0, <2>1, IndexWritten
    <3> HIDE DEF all
    <3> QED BY <1>1, <2>1, <3>1 DEF InOrder
  <2>2. CASE Stunted
    <3>1. all = index /\ Len(index) = 1 /\ index[1] = 0 /\ index = << 0 >>
      BY <2>2, StuntedIs DEF Stunted
    <3> HIDE DEF all
    <3> QED BY <1>1, <3>1
  <2> QED BY <1>1, <2>1, <2>2
<1> HIDE DEF all
<1>5. blocks + unwritten \in Number /\ head \in Number /\ 0 \in Number /\ flushed \in Number
      /\ blocks \in Number /\ unwritten \in Number
  BY <1>1 DEF Number
<1> USE DEF LogInv
<1>6. CASE SpillBlocks
  <2>1. /\ blocks' = blocks + unwritten /\ unwritten' = 0
        /\ UNCHANGED <<torn, index, pending, head, strict, flushed>>
    BY <1>6 DEF SpillBlocks, WriteBlocks
  <2>2. OpenWhole'
    BY <1>1, <2>1 DEF OpenWhole, InOrder, Stunted
  <2>3. LogTyped' /\ FlushedWritten' /\ ClosedCut'
    BY <1>0, <1>1, <1>5, <2>1 DEF LogTyped, FlushedWritten, ClosedCut, IsOpen
  <2> QED BY <2>2, <2>3
<1>7. ASSUME index' = all, pending' = << >>, head' = head, head = blocks' + unwritten'
      PROVE  OpenWhole'
  <2>1. CASE all = << 0 >>
    BY <1>2, <1>7, <2>1 DEF OpenWhole, Stunted
  <2>2. CASE all # << 0 >>
    BY <1>1, <1>2, <1>4, <1>7, <2>2 DEF OpenWhole, InOrder
  <2> QED BY <2>1, <2>2
<1>8. CASE SpillIndex
  <2>1. /\ index' = all /\ pending' = << >>
        /\ UNCHANGED <<blocks, torn, unwritten, head, strict, flushed>>
    BY <1>8 DEF SpillIndex, WriteIndex, all
  <2>2. OpenWhole'
    BY <1>1, <1>7, <2>1
  <2>3. LogTyped' /\ FlushedWritten' /\ ClosedCut'
    BY <1>0, <1>1, <1>2, <1>4, <1>5, <2>1 DEF LogTyped, FlushedWritten, ClosedCut, IsOpen
  <2> QED BY <2>2, <2>3
<1>9. CASE Flush
  <2>1. /\ blocks' = blocks + unwritten /\ unwritten' = 0
        /\ index' = all /\ pending' = << >>
        /\ flushed' = head /\ UNCHANGED <<torn, head, strict>>
    BY <1>9 DEF Flush, all
  <2>2. OpenWhole'
    BY <1>1, <1>7, <2>1
  <2>3. LogTyped' /\ FlushedWritten' /\ ClosedCut'
    BY <1>0, <1>1, <1>2, <1>4, <1>5, <2>1 DEF LogTyped, FlushedWritten, ClosedCut, IsOpen
  <2> QED BY <2>2, <2>3
<1>10. CASE Close
  <2>1. /\ blocks' = blocks + unwritten /\ unwritten' = 0
        /\ index' = all /\ pending' = << >>
        /\ head' = -1 /\ strict' = FALSE /\ UNCHANGED <<torn, flushed>>
    BY <1>10 DEF Close, all
  <2>2. ~ IsOpen' /\ head' \in -1 .. MaxBlocks
    BY <2>1 DEF IsOpen
  <2>3. LogTyped' /\ FlushedWritten' /\ OpenWhole'
    <3>1. FALSE \in BOOLEAN /\ flushed <= blocks + unwritten
      BY <1>1
    <3>2. LogTyped'
      BY <1>1, <1>2, <1>4, <1>5, <2>1, <2>2, <3>1 DEF LogTyped
    <3> QED BY <2>1, <2>2, <3>1, <3>2 DEF FlushedWritten, OpenWhole
  <2>4. ClosedCut'
    BY <1>1, <1>2, <1>4, <2>1 DEF ClosedCut
  <2> QED BY <2>3, <2>4
<1> QED BY <1>6, <1>8, <1>9, <1>10

(* A crash: either file keeps some prefix of what was being written to it. *)
LEMMA CrashInv ==
  ASSUME LogInv, Crash
  PROVE  LogInv'
<1> USE MaxBlocksAssumption
<1>0. IsOpen
  BY DEF Crash
<1>1. /\ head \in Nat /\ head <= MaxBlocks /\ blocks \in Nat /\ unwritten \in Nat
      /\ flushed \in Number
      /\ index \in Seq(Number) /\ pending \in Seq(Number)
      /\ Len(index) \in Nat /\ Len(pending) \in Nat
      /\ head = blocks + unwritten
      /\ InOrder \/ Stunted
      /\ flushed <= blocks
  BY <1>0, LenProperties DEF LogInv, LogTyped, IsOpen, OpenWhole, Number, FlushedWritten
<1>2. pending' \in Seq(Number) /\ Len(pending') = 0
  BY EmptySeq DEF Crash
<1>3. blocks' \in Number /\ flushed <= blocks' /\ torn' \in BOOLEAN
  <2>1. PICK n \in 0 .. unwritten : blocks' = blocks + n /\ torn' \in BOOLEAN
    BY DEF Crash
  <2> QED BY <1>1, <2>1 DEF Number
<1>4. PICK n \in 0 .. Len(pending) :
        \/ index' = index \o SubSeq(pending, 1, n)
        \/ n < Len(pending) /\ index' = index \o SubSeq(pending, 1, n) \o << 0 >>
  BY DEF Crash
<1> DEFINE cut == SubSeq(pending, 1, n)
           kept == index \o cut
<1>5. n \in Nat /\ cut \in Seq(Number) /\ Len(cut) = n /\ \A i \in 1 .. n : cut[i] = pending[i]
  BY <1>1, Cut
<1> HIDE DEF cut
<1>6. /\ kept \in Seq(Number) /\ Len(kept) = Len(index) + n
      /\ \A i \in 1 .. Len(index) : kept[i] = index[i]
      /\ \A i \in 1 .. n : kept[Len(index) + i] = cut[i]
  BY <1>1, <1>5, Joined
<1> HIDE DEF kept
<1>7. ASSUME InOrder, NEW i \in 1 .. Len(kept) PROVE kept[i] = i
  <2> USE <1>7 DEF InOrder
  <2>1. CASE i \in 1 .. Len(index)
    BY <1>1, <1>6, <2>1
  <2>2. CASE i \notin 1 .. Len(index)
    <3>1. /\ i - Len(index) \in 1 .. n /\ i - Len(index) \in 1 .. Len(pending)
          /\ i = Len(index) + (i - Len(index))
      BY <1>1, <1>5, <1>6, <2>2
    <3>2. kept[Len(index) + (i - Len(index))] = Len(index) + (i - Len(index))
      BY <1>1, <1>5, <1>6, <3>1
    <3> QED BY <3>1, <3>2
  <2> QED BY <2>1, <2>2
<1>8. /\ index' \in Seq(Number)
      /\ \A i \in 1 .. Len(index') : index'[i] = i \/ (i = Len(index') /\ index'[i] = 0)
  <2>0. CASE Stunted
    <3>1. n = 0 /\ Len(index) = 1 /\ index[1] = 0 /\ Len(pending) = 0
      BY <1>1, <2>0, StuntedIs DEF Stunted
    <3>2. index' = kept /\ Len(kept) = 1 /\ kept[1] = 0
      BY <1>4, <1>6, <3>1 DEF kept, cut
    <3>3. ASSUME NEW i \in 1 .. Len(index') PROVE i = Len(index') /\ index'[i] = 0
      <4>1. i = 1
        BY <3>2
      <4> QED BY <3>2, <4>1
    <3>4. index' \in Seq(Number)
      BY <1>6, <3>2
    <3> QED BY <3>3, <3>4, Zenon
  <2>1. CASE InOrder /\ index' = kept
    <3>1. \A i \in 1 .. Len(kept) : kept[i] = i
      BY <1>7, <2>1
    <3> QED BY <1>6, <2>1, <3>1
  <2>2. CASE InOrder /\ index' = kept \o << 0 >>
    <3>1. << 0 >> \in Seq(Number) /\ Len(<< 0 >>) = 1 /\ << 0 >>[1] = 0
      BY DEF Number
    <3> DEFINE z == << 0 >>
    <3>2. z \in Seq(Number) /\ Len(z) = 1 /\ z[1] = 0 /\ index' = kept \o z
      BY <2>2, <3>1
    <3> HIDE DEF z
    <3>3. /\ kept \o z \in Seq(Number) /\ Len(kept) \in Nat
          /\ Len(kept \o z) = Len(kept) + Len(z)
          /\ \A i \in 1 .. Len(kept) : (kept \o z)[i] = kept[i]
          /\ \A i \in 1 .. Len(z) : (kept \o z)[Len(kept) + i] = z[i]
      BY <1>6, <3>2, Joined
    <3>4. (kept \o z)[Len(kept) + 1] = 0 /\ Len(kept \o z) = Len(kept) + 1
      BY <3>2, <3>3
    <3>5. ASSUME NEW i \in 1 .. Len(index')
          PROVE  index'[i] = i \/ (i = Len(index') /\ index'[i] = 0)
      <4>1. i \in 1 .. Len(kept) \/ i = Len(kept) + 1
        BY <3>2, <3>3, <3>4
      <4> QED BY <1>7, <2>2, <3>2, <3>3, <3>4, <4>1
    <3> QED BY <3>2, <3>3, <3>5
  <2> QED BY <1>1, <1>4, <2>0, <2>1, <2>2 DEF kept, cut
<1>9. ~ IsOpen' /\ head' \in -1 .. MaxBlocks /\ unwritten' = 0 /\ flushed' = flushed /\ 0 \in Number
      /\ strict' \in BOOLEAN
  BY DEF Crash, IsOpen, Number
<1> QED
  BY <1>1, <1>2, <1>3, <1>8, <1>9
  DEF LogInv, LogTyped, FlushedWritten, OpenWhole, ClosedCut

(* A resync removes both files.                                            *)
LEMMA WipeInv ==
  ASSUME LogInv, Wipe
  PROVE  LogInv'
<1>1. index' \in Seq(Number) /\ Len(index') = 0 /\ (\A i \in 1 .. 0 : FALSE) /\ 0 \in Number
  BY EmptySeq, MaxBlocksAssumption DEF Wipe, Number
<1>2. ~ IsOpen /\ ~ IsOpen' /\ blocks' = 0 /\ torn' \in BOOLEAN /\ flushed' = 0
      /\ UNCHANGED <<unwritten, pending, head, strict>>
  BY DEF Wipe, IsOpen
<1>3. LogTyped' /\ FlushedWritten'
  BY <1>1, <1>2 DEF LogInv, LogTyped, FlushedWritten
<1>4. OpenWhole' /\ ClosedCut'
  BY <1>1, <1>2 DEF LogInv, OpenWhole, ClosedCut
<1> QED BY <1>3, <1>4 DEF LogInv

(* Every operation, crash and restart keeps the invariant.                 *)
LEMMA NextInv == LogInv /\ [Next]_vars => LogInv'
<1> SUFFICES ASSUME LogInv, [Next]_vars PROVE LogInv'
  OBVIOUS
<1>1. CASE UNCHANGED vars
  BY <1>1
  DEF vars, LogInv, LogTyped, FlushedWritten, OpenWhole, InOrder, Stunted, ClosedCut, IsOpen
<1> QED
  BY <1>1, OpenInv, StrictInv, AppendInv, WriteInv, CrashInv, WipeInv DEF Next

(* After every open(), however often the node was killed and wherever the  *)
(* two files were cut, what was flushed is there; and a log of two blocks  *)
(* or more, whose index was not cut off within its first entry, has one    *)
(* entry per block, so that reads by number find their block and append()  *)
(* never stops at its assertion.                                           *)
THEOREM LogAlwaysSurvives == Spec => []LogSurvives
<1>1. LogInv => LogSurvives
  <2> SUFFICES ASSUME LogInv PROVE LogSurvives
    OBVIOUS
  <2>1. TypeOK
    BY DEF LogInv, LogTyped, TypeOK, Entries, Number
  <2>2. ASSUME IsOpen, head >= 2, index # << 0 >> PROVE index \o pending = Positions(head)
    <3>1. /\ index \o pending \in Seq(Number)
          /\ Len(index \o pending) = head
          /\ \A i \in 1 .. head : (index \o pending)[i] = i
      <4>1. InOrder /\ Len(index) + Len(pending) = head
        BY <2>2 DEF LogInv, OpenWhole, InOrder, Stunted
      <4> QED BY <2>2, <4>1, IndexWritten
    <3>2. index \o pending = [i \in 1 .. head |-> (index \o pending)[i]]
      BY <3>1, LenProperties
    <3> QED BY <3>1, <3>2 DEF Positions
  <2>3. FlushedSurvives
    BY DEF LogInv, LogTyped, FlushedWritten, FlushedSurvives, OpenWhole, Number
  <2> QED BY <2>1, <2>2, <2>3 DEF LogSurvives, IndexComplete
<1> QED BY <1>1, InitInv, NextInv, PTL DEF Spec
==============================================================================
