------------------------ MODULE ChainbaseIndexProofs -------------------------
(***************************************************************************)
(* Proofs about ChainbaseIndex for any number of ids, keys, values and     *)
(* sessions, under the convention KeysFixed.  The argument is local: one   *)
(* record u between the table below it and the table above it is Good, and *)
(* each operation of the index keeps the one record it writes Good.        *)
(***************************************************************************)
EXTENDS ChainbaseIndex, TLAPS

USE DEF UndoNeverFails

Good(u, below, above) == Rewinds(u, below, above) /\ Consistent(u, above)

(* A record that has just been pushed.                                     *)
Fresh(u, t) ==
  /\ u.old_values = Empty /\ u.removed_values = Empty
  /\ u.new_ids = {} /\ u.old_next_id = t.next_id

(* start_undo_session(): an empty record rewinds a table to itself.        *)
LEMMA FreshIsGood ==
  ASSUME NEW u \in UndoStates, NEW t \in Tables, Fresh(u, t)
  PROVE  Good(u, t, t)
<1>1. Rewind(u, t.indices) = t.indices
  BY DEF Fresh, Empty, Rewind, Tables, Rows
<1>2. t.next_id <= t.next_id
  BY BoundsAssumption DEF Tables
<1> QED
  BY <1>1, <1>2 DEF Good, Rewinds, Consistent, Fresh, Empty

(* emplace() and on_create().                                              *)
LEMMA CreateKeepsGood ==
  ASSUME NEW u \in UndoStates, NEW below \in Tables, NEW above \in Tables,
         Good(u, below, above), Sound(above), Sound(below),
         NEW v \in Values, above.next_id < MaxId,
         NEW new \in Tables,
         new.indices = [above.indices EXCEPT ![above.next_id] = v],
         new.next_id = above.next_id + 1
  PROVE  /\ OnCreate(u, above.next_id) \in UndoStates
         /\ Good(OnCreate(u, above.next_id), below, new)
<1> DEFINE id == above.next_id
           w == OnCreate(u, id)
<1>1. id \in Ids
  BY BoundsAssumption DEF Ids, Tables
<1>2. w \in UndoStates
  BY <1>1 DEF OnCreate, UndoStates
<1>3. /\ w.new_ids = u.new_ids \cup {id}
      /\ w.old_values = u.old_values /\ w.removed_values = u.removed_values
      /\ w.old_next_id = u.old_next_id
  BY DEF OnCreate, UndoStates
<1>4. above.indices[id] = NONE /\ below.indices[id] = NONE
  BY <1>1, BoundsAssumption DEF Sound, Good, Rewinds, Tables, Ids
<1>5. u.old_values[id] = NONE /\ u.removed_values[id] = NONE
  BY <1>1, <1>4, BoundsAssumption DEF Good, Rewinds, Consistent, Tables, Ids, UndoStates
<1>6. Rewind(w, new.indices) = below.indices
  <2>1. Rewind(u, above.indices) = below.indices
    BY DEF Good, Rewinds
  <2>2. \A i \in Ids : Rewind(w, new.indices)[i] = Rewind(u, above.indices)[i]
    BY <1>1, <1>3, <1>4, <1>5, <2>1, NoneAssumption DEF Rewind, Tables, Rows
  <2> QED
    BY <2>1, <2>2 DEF Rewind
<1>7. w.old_next_id = below.next_id /\ below.next_id <= new.next_id
  BY <1>3, BoundsAssumption DEF Good, Rewinds, Tables
<1>8. Consistent(w, new)
  BY <1>1, <1>3, <1>4, <1>5, <1>7, NoneAssumption, BoundsAssumption
  DEF Good, Rewinds, Consistent, Tables, Rows, Ids
<1> QED
  BY <1>2, <1>6, <1>7, <1>8 DEF Good, Rewinds

(* modify() and on_modify(), the key being kept.                           *)
LEMMA ModifyKeepsGood ==
  ASSUME NEW u \in UndoStates, NEW below \in Tables, NEW above \in Tables,
         Good(u, below, above), Sound(above), Sound(below),
         NEW id \in Ids, above.indices[id] # NONE,
         NEW v \in Values, v.key = above.indices[id].key,
         NEW new \in Tables,
         new.indices = [above.indices EXCEPT ![id] = v],
         new.next_id = above.next_id
  PROVE  /\ OnModify(u, id, above.indices[id]) \in UndoStates
         /\ Good(OnModify(u, id, above.indices[id]), below, new)
<1> DEFINE w == OnModify(u, id, above.indices[id])
<1>0. above.indices \in Rows /\ new.indices \in Rows /\ below.indices \in Rows
  BY DEF Tables
<1>1. w \in UndoStates
  BY <1>0 DEF OnModify, UndoStates, Rows
<1>2. /\ w.new_ids = u.new_ids /\ w.removed_values = u.removed_values
      /\ w.old_next_id = u.old_next_id
      /\ \A i \in Ids : w.old_values[i] =
           IF i = id /\ id \notin u.new_ids /\ u.old_values[id] = NONE
           THEN above.indices[id] ELSE u.old_values[i]
  BY DEF OnModify, UndoStates, Rows
<1>3. u.removed_values[id] = NONE
  BY DEF Good, Consistent
<1>4. Rewind(u, above.indices) = below.indices
  BY DEF Good, Rewinds
<1>5. Rewind(w, new.indices) = below.indices
  <2>2. \A i \in Ids : Rewind(w, new.indices)[i] = Rewind(u, above.indices)[i]
    BY <1>0, <1>2, <1>3 DEF Rewind, Rows
  <2> QED
    BY <1>4, <2>2 DEF Rewind
<1>6. id \notin u.new_ids /\ u.old_values[id] = NONE => id < u.old_next_id
  <2>1. SUFFICES ASSUME id \notin u.new_ids, u.old_values[id] = NONE
                 PROVE  id < u.old_next_id
    OBVIOUS
  <2>2. below.indices[id] = above.indices[id]
    BY <1>3, <1>4, <2>1 DEF Rewind
  <2> QED
    BY <2>2 DEF Sound, Good, Rewinds
<1>7. Consistent(w, new)
  BY <1>0, <1>2, <1>3, <1>6, NoneAssumption DEF Good, Consistent, Rows
<1> QED
  BY <1>1, <1>2, <1>5, <1>7 DEF Good, Rewinds

(* remove() and on_remove().                                               *)
LEMMA RemoveKeepsGood ==
  ASSUME NEW u \in UndoStates, NEW below \in Tables, NEW above \in Tables,
         Good(u, below, above), Sound(above), Sound(below),
         NEW id \in Ids, above.indices[id] # NONE,
         NEW new \in Tables,
         new.indices = [above.indices EXCEPT ![id] = NONE],
         new.next_id = above.next_id
  PROVE  /\ OnRemove(u, id, above.indices[id]) \in UndoStates
         /\ Good(OnRemove(u, id, above.indices[id]), below, new)
<1> DEFINE w == OnRemove(u, id, above.indices[id])
<1>0. /\ above.indices \in Rows /\ new.indices \in Rows /\ below.indices \in Rows
      /\ u.old_values \in Rows /\ u.removed_values \in Rows /\ u.new_ids \in SUBSET Ids
  BY DEF Tables, UndoStates
<1>1. w \in UndoStates
  BY <1>0 DEF OnRemove, UndoStates, Rows
<1>2. u.removed_values[id] = NONE
  BY DEF Good, Consistent
<1>3. /\ w.old_next_id = u.old_next_id
      /\ w.new_ids = u.new_ids \ {id}
      /\ \A i \in Ids : w.old_values[i] =
           IF i = id /\ id \notin u.new_ids THEN NONE ELSE u.old_values[i]
      /\ \A i \in Ids : w.removed_values[i] =
           IF i = id /\ id \notin u.new_ids
           THEN IF u.old_values[id] # NONE THEN u.old_values[id] ELSE above.indices[id]
           ELSE u.removed_values[i]
  <2>1. CASE id \in u.new_ids
    BY <2>1, <1>0 DEF OnRemove, UndoStates
  <2>2. CASE id \notin u.new_ids /\ u.old_values[id] # NONE
    BY <2>2, <1>0 DEF OnRemove, UndoStates, Rows
  <2>3. CASE id \notin u.new_ids /\ u.old_values[id] = NONE
    BY <2>3, <1>0, <1>2 DEF OnRemove, UndoStates, Rows
  <2> QED
    BY <2>1, <2>2, <2>3
<1>4. Rewind(u, above.indices) = below.indices
  BY DEF Good, Rewinds
<1>5. Rewind(w, new.indices) = below.indices
  <2>1. \A i \in Ids : Rewind(w, new.indices)[i] = Rewind(u, above.indices)[i]
    <3>1. SUFFICES ASSUME NEW i \in Ids
                   PROVE  Rewind(w, new.indices)[i] = Rewind(u, above.indices)[i]
      OBVIOUS
    <3>2. CASE i # id
      BY <3>2, <1>0, <1>3 DEF Rewind, Rows
    <3>3. CASE i = id /\ id \in u.new_ids
      BY <3>3, <1>0, <1>2, <1>3 DEF Rewind, Rows, Good, Consistent
    <3>4. CASE i = id /\ id \notin u.new_ids
      BY <3>4, <1>0, <1>2, <1>3 DEF Rewind, Rows
    <3> QED
      BY <3>2, <3>3, <3>4
  <2> QED
    BY <1>4, <2>1 DEF Rewind
<1>6. id \notin u.new_ids => id < u.old_next_id
  <2>1. SUFFICES ASSUME id \notin u.new_ids PROVE id < u.old_next_id
    OBVIOUS
  <2>2. CASE u.old_values[id] # NONE
    BY <2>2 DEF Good, Consistent
  <2>3. CASE u.old_values[id] = NONE
    <3>1. below.indices[id] = above.indices[id]
      BY <1>2, <1>4, <2>1, <2>3 DEF Rewind
    <3> QED
      BY <3>1 DEF Sound, Good, Rewinds
  <2> QED
    BY <2>2, <2>3
<1>7. Consistent(w, new)
  BY <1>0, <1>2, <1>3, <1>6, NoneAssumption DEF Good, Consistent, Rows
<1> QED
  BY <1>1, <1>3, <1>5, <1>7 DEF Good, Rewinds

(* squash(): the merged record does at once what the two did in turn.      *)
LEMMA MergeKeepsGood ==
  ASSUME NEW p \in UndoStates, NEW s \in UndoStates,
         NEW a \in Tables, NEW b \in Tables, NEW c \in Tables,
         Good(p, a, b), Good(s, b, c), Sound(a), Sound(b)
  PROVE  /\ MergeRecords(p, s) \in UndoStates
         /\ MergeRecords(p, s).revision = p.revision
         /\ Good(MergeRecords(p, s), a, c)
<1> DEFINE w == MergeRecords(p, s)
           new == p.new_ids \cup s.new_ids
           old(i) == IF s.old_values[i] # NONE /\ i \notin p.new_ids
                        /\ p.old_values[i] = NONE
                     THEN s.old_values[i] ELSE p.old_values[i]
<1>0. /\ a.indices \in Rows /\ b.indices \in Rows /\ c.indices \in Rows
      /\ p.old_values \in Rows /\ p.removed_values \in Rows /\ p.new_ids \in SUBSET Ids
      /\ s.old_values \in Rows /\ s.removed_values \in Rows /\ s.new_ids \in SUBSET Ids
      /\ a.next_id \in Nat /\ b.next_id \in Nat /\ c.next_id \in Nat
  BY BoundsAssumption DEF Tables, UndoStates
<1>1. w \in UndoStates /\ w.revision = p.revision /\ w.old_next_id = p.old_next_id
  BY <1>0 DEF MergeRecords, UndoStates, Rows
<1>2. \A i \in Ids :
        /\ i \in w.new_ids <=> i \in new /\ s.removed_values[i] = NONE
        /\ w.old_values[i] = IF s.removed_values[i] # NONE /\ i \notin new
                             THEN NONE ELSE old(i)
        /\ w.removed_values[i] = IF s.removed_values[i] = NONE \/ i \in new
                                 THEN p.removed_values[i]
                                 ELSE IF old(i) # NONE THEN old(i)
                                 ELSE s.removed_values[i]
  BY <1>0 DEF MergeRecords, UndoStates, Rows
<1>3. /\ \A i \in Ids : a.indices[i] = Rewind(p, b.indices)[i]
      /\ \A i \in Ids : b.indices[i] = Rewind(s, c.indices)[i]
      /\ p.old_next_id = a.next_id /\ s.old_next_id = b.next_id
      /\ a.next_id <= b.next_id /\ b.next_id <= c.next_id
  BY DEF Good, Rewinds
<1>4. \A i \in Ids : i \in s.new_ids =>
         /\ i \notin p.new_ids
         /\ p.old_values[i] = NONE /\ p.removed_values[i] = NONE
  BY <1>0, <1>3 DEF Good, Consistent, Sound, Ids
<1>5. \A i \in Ids : Rewind(w, c.indices)[i] = a.indices[i]
  <2>1. SUFFICES ASSUME NEW i \in Ids PROVE Rewind(w, c.indices)[i] = a.indices[i]
    OBVIOUS
  <2>2. CASE i \in s.new_ids
    BY <2>2, <1>0, <1>2, <1>3, <1>4 DEF Rewind, Good, Consistent
  <2>3. CASE i \notin s.new_ids /\ i \in p.new_ids
    BY <2>3, <1>0, <1>2, <1>3 DEF Rewind, Good, Consistent
  <2>4. CASE i \notin new
    BY <2>4, <1>0, <1>2, <1>3 DEF Rewind, Good, Consistent
  <2> QED
    BY <2>2, <2>3, <2>4
<1>6. Rewind(w, c.indices) = a.indices
  BY <1>0, <1>5 DEF Rewind, Rows
<1>7. Consistent(w, c)
  <2>1. SUFFICES ASSUME NEW i \in Ids
                 PROVE  /\ i \in w.new_ids =>
                             /\ c.indices[i] # NONE /\ i >= w.old_next_id
                             /\ w.old_values[i] = NONE /\ w.removed_values[i] = NONE
                        /\ w.old_values[i] # NONE =>
                             /\ c.indices[i] # NONE /\ w.removed_values[i] = NONE
                             /\ i < w.old_next_id
                             /\ c.indices[i].key = w.old_values[i].key
                        /\ w.removed_values[i] # NONE =>
                             c.indices[i] = NONE /\ i < w.old_next_id
    BY DEF Consistent
  <2>0. i \in Nat
    BY DEF Ids
  <2>2. CASE i \in s.new_ids
    BY <2>0, <2>2, <1>0, <1>1, <1>2, <1>3, <1>4 DEF Rewind, Good, Consistent
  <2>3. CASE i \notin s.new_ids /\ i \in p.new_ids
    BY <2>0, <2>3, <1>0, <1>1, <1>2, <1>3 DEF Rewind, Good, Consistent
  <2>4. CASE i \notin new
    <3>1. p.old_values[i] # NONE \/ p.removed_values[i] # NONE => i < a.next_id
      BY <1>3 DEF Good, Consistent
    <3>2. p.old_values[i] = NONE /\ p.removed_values[i] = NONE => a.indices[i] = b.indices[i]
      BY <2>4, <1>3 DEF Rewind
    <3>3. a.indices[i] # NONE => i < a.next_id
      BY DEF Sound
    <3>4. s.old_values[i] # NONE \/ s.removed_values[i] # NONE => b.indices[i] # NONE
      BY <2>4, <1>3 DEF Rewind
    <3> QED
      BY <3>1, <3>2, <3>3, <3>4, <2>4, <1>0, <1>1, <1>2, <1>3 DEF Rewind, Good, Consistent
  <2> QED
    BY <2>2, <2>3, <2>4
<1> QED
  BY <1>0, <1>1, <1>3, <1>6, <1>7 DEF Good, Rewinds

(* undo(): none of the look-ups, modifications and insertions of its three *)
(* loops can fail on a Good record between two sound tables.               *)
LEMMA GoodIsUndoable ==
  ASSUME NEW u \in UndoStates, NEW below \in Tables, NEW above \in Tables,
         Good(u, below, above), Sound(above), Sound(below),
         indices = above.indices
  PROVE  ~ UndoFails(u)
<1>0. /\ above.indices \in Rows /\ below.indices \in Rows
      /\ u.old_values \in Rows /\ u.removed_values \in Rows
  BY DEF Tables, UndoStates
<1>1. Rewind(u, above.indices) = below.indices
  BY DEF Good, Rewinds
<1>2. ASSUME NEW id \in Ids, id \in u.new_ids \/ u.old_values[id] # NONE,
             indices[id] = NONE
      PROVE  FALSE
  BY <1>2 DEF Good, Consistent
<1>3. ASSUME NEW id \in Ids, u.old_values[id] # NONE,
             Clashes(Restoring(u, id), id, u.old_values[id])
      PROVE  FALSE
  <2>1. PICK other \in Ids \ {id} :
             /\ Restoring(u, id)[other] # NONE
             /\ Restoring(u, id)[other].key = u.old_values[id].key
    BY <1>3 DEF Clashes
  <2>2. above.indices[id] # NONE /\ above.indices[id].key = u.old_values[id].key
    BY <1>3 DEF Good, Consistent
  <2>3. above.indices[other] # NONE
        /\ above.indices[other].key = Restoring(u, id)[other].key
    BY <2>1 DEF Restoring, Good, Consistent
  <2> QED
    BY <2>1, <2>2, <2>3 DEF Sound
<1>4. ASSUME NEW id \in Ids, u.removed_values[id] # NONE,
             Clashes(Rewind(u, indices), id, u.removed_values[id])
      PROVE  FALSE
  <2>1. below.indices[id] = u.removed_values[id]
    BY <1>1, <1>4 DEF Rewind
  <2>2. \E other \in Ids \ {id} :
             /\ below.indices[other] # NONE
             /\ below.indices[other].key = below.indices[id].key
    BY <1>1, <1>4, <2>1 DEF Clashes
  <2> QED
    BY <1>4, <2>1, <2>2 DEF Sound
<1> QED
  BY <1>2, <1>3, <1>4 DEF UndoFails

------------------------------------------------------------------------------

Current == [indices |-> indices, next_id |-> next_id]

(* The facts about one level that the proofs below use.                    *)
LEMMA LevelFacts ==
  ASSUME IndexInv
  PROVE  /\ Current \in Tables /\ Sound(Current)
         /\ Len(stack) \in Nat /\ Len(snaps) = Len(stack)
         /\ \A i \in 1 .. Len(stack) :
              /\ stack[i] \in UndoStates
              /\ snaps[i] \in Tables /\ Sound(snaps[i])
              /\ i < Len(stack) => Good(stack[i], snaps[i], snaps[i + 1])
              /\ i = Len(stack) => Good(stack[i], snaps[i], Current)
<1>1. Current \in Tables /\ Len(stack) \in Nat /\ Len(snaps) = Len(stack)
  BY DEF IndexInv, TypeOK, RecordsRewind, Current, Tables
<1>2. Sound(Current)
  <2>1. Level(Len(snaps) + 1) = Current
    BY <1>1 DEF Level, Current
  <2> QED
    BY <1>1, <2>1 DEF IndexInv, LevelsSound
<1>3. ASSUME NEW i \in 1 .. Len(stack)
      PROVE  /\ stack[i] \in UndoStates
             /\ snaps[i] \in Tables /\ Sound(snaps[i])
             /\ i < Len(stack) => Good(stack[i], snaps[i], snaps[i + 1])
             /\ i = Len(stack) => Good(stack[i], snaps[i], Current)
  <2>1. stack[i] \in UndoStates /\ snaps[i] \in Tables
    BY <1>1 DEF IndexInv, TypeOK
  <2>2. Sound(snaps[i])
    BY <1>1 DEF IndexInv, LevelsSound, Level
  <2>3. Good(stack[i], snaps[i], Level(i + 1))
    BY DEF IndexInv, RecordsRewind, RecordsConsistent, Good
  <2>4. Level(i + 1) = IF i < Len(stack) THEN snaps[i + 1] ELSE Current
    BY <1>1 DEF Level, Current
  <2> QED
    BY <2>1, <2>2, <2>3, <2>4
<1> QED
  BY <1>1, <1>2, <1>3

(* Conversely, level facts about the next state establish the invariant.   *)
LEMMA InvFromLevels ==
  ASSUME stack' \in Seq(UndoStates), snaps' \in Seq(Tables),
         Len(snaps') = Len(stack'),
         Current' \in Tables, Sound(Current'),
         revision' \in 0 .. MaxRevision,
         status' \in {"ok", "undo_all"},
         status' = "undo_all" => stack' # << >>,
         \A i \in 1 .. Len(stack') :
           /\ stack'[i].revision = revision' - (Len(stack') - i)
           /\ Sound(snaps'[i])
           /\ i < Len(stack') => Good(stack'[i], snaps'[i], snaps'[i + 1])
           /\ i = Len(stack') => Good(stack'[i], snaps'[i], Current')
  PROVE  IndexInv'
<1>1. TypeOK'
  BY DEF TypeOK, Current, Tables
<1>2. Len(stack') \in Nat
  OBVIOUS
<1>3. \A i \in 1 .. Len(stack') :
         Level(i + 1)' = IF i < Len(stack') THEN snaps'[i + 1] ELSE Current'
  BY <1>2 DEF Level, Current
<1>4. RecordsRewind'
  BY <1>2, <1>3 DEF RecordsRewind, Good
<1>5. RecordsConsistent'
  BY <1>2, <1>3 DEF RecordsConsistent, Good
<1>6. LevelsSound'
  BY <1>2 DEF LevelsSound, Level, Current
<1>7. RevisionsContiguous'
  BY DEF RevisionsContiguous
<1> QED
  BY <1>1, <1>4, <1>5, <1>6, <1>7 DEF IndexInv

(* A write to the table that keeps the current record Good.                *)
LEMMA WriteKeepsInv ==
  ASSUME IndexInv, Current' \in Tables, Sound(Current'),
         UNCHANGED <<revision, status, snaps>>,
         \/ stack = << >> /\ stack' = stack
         \/ /\ stack # << >>
            /\ \E w \in UndoStates :
                 /\ stack' = [stack EXCEPT ![Len(stack)] = w]
                 /\ w.revision = Top.revision
                 /\ Good(w, snaps[Len(stack)], Current')
  PROVE  IndexInv'
<1>0. /\ stack \in Seq(UndoStates) /\ snaps \in Seq(Tables)
      /\ revision \in 0 .. MaxRevision /\ status \in {"ok", "undo_all"}
      /\ status = "undo_all" => stack # << >>
      /\ \A i \in 1 .. Len(stack) : stack[i].revision = revision - (Len(stack) - i)
  BY DEF IndexInv, TypeOK, RevisionsContiguous
<1>1. CASE stack = << >> /\ stack' = stack
  BY <1>0, <1>1, LevelFacts, InvFromLevels
<1>2. CASE /\ stack # << >>
           /\ \E w \in UndoStates :
                /\ stack' = [stack EXCEPT ![Len(stack)] = w]
                /\ w.revision = Top.revision
                /\ Good(w, snaps[Len(stack)], Current')
  <2>1. PICK w \in UndoStates :
                /\ stack' = [stack EXCEPT ![Len(stack)] = w]
                /\ w.revision = Top.revision
                /\ Good(w, snaps[Len(stack)], Current')
    BY <1>2
  <2>2. /\ stack' \in Seq(UndoStates) /\ Len(stack') = Len(stack) /\ stack' # << >>
        /\ Len(stack) \in 1 .. Len(stack)
        /\ \A i \in 1 .. Len(stack) :
             stack'[i] = IF i = Len(stack) THEN w ELSE stack[i]
    BY <1>0, <1>2, <2>1
  <2>3. \A i \in 1 .. Len(stack') :
           /\ stack'[i].revision = revision' - (Len(stack') - i)
           /\ Sound(snaps'[i])
           /\ i < Len(stack') => Good(stack'[i], snaps'[i], snaps'[i + 1])
           /\ i = Len(stack') => Good(stack'[i], snaps'[i], Current')
    <3>1. SUFFICES ASSUME NEW i \in 1 .. Len(stack)
                   PROVE  /\ stack'[i].revision = revision - (Len(stack) - i)
                          /\ Sound(snaps[i])
                          /\ i < Len(stack) => Good(stack'[i], snaps[i], snaps[i + 1])
                          /\ i = Len(stack) => Good(stack'[i], snaps[i], Current')
      BY <2>2
    <3>2. Sound(snaps[i])
      BY LevelFacts
    <3>3. CASE i < Len(stack)
      BY <1>0, <2>2, <3>2, <3>3, LevelFacts
    <3>4. CASE i = Len(stack)
      <4>1. stack'[i] = w /\ w.revision = stack[i].revision
        BY <2>1, <2>2, <3>4 DEF Top
      <4> QED
        BY <1>0, <2>1, <3>2, <3>4, <4>1
    <3> QED
      BY <3>3, <3>4
  <2> QED
    BY <1>0, <2>2, <2>3, LevelFacts, InvFromLevels
<1> QED
  BY <1>1, <1>2

------------------------------------------------------------------------------

(* An index that has just been constructed: no record, an empty table.     *)
LEMMA InitInv == Init => IndexInv
<1>1. SUFFICES ASSUME Init PROVE IndexInv
  OBVIOUS
<1>2. TypeOK
  BY <1>1, BoundsAssumption DEF Init, TypeOK, Rows, Empty
<1>3. Len(stack) = 0 /\ Len(snaps) = 0
  BY <1>1 DEF Init
<1>4. Level(1) = Current
  BY <1>3 DEF Level, Current
<1>5. Sound(Current)
  BY <1>1 DEF Sound, Current, Init, Empty
<1> QED
  BY <1>1, <1>2, <1>3, <1>4, <1>5
  DEF IndexInv, RecordsRewind, RecordsConsistent, LevelsSound,
      RevisionsContiguous, Init

(* emplace() keeps the invariant: the new id is above every recorded one.  *)
LEMMA EmplaceInv ==
  ASSUME IndexInv, NEW v \in Values, Emplace(v)
  PROVE  IndexInv'
<1>1. /\ Current' = [indices |-> [indices EXCEPT ![next_id] = v], next_id |-> next_id + 1]
      /\ next_id \in Ids /\ indices \in Rows
  BY BoundsAssumption DEF Emplace, Current, IndexInv, TypeOK, Ids
<1>2. Current' \in Tables
  BY <1>1, BoundsAssumption DEF Tables, Rows, Ids
<1>3. Sound(Current)
  BY LevelFacts
<1>4. Sound(Current')
  <2>0. next_id \in Nat /\ Ids \subseteq Nat
    BY <1>1, BoundsAssumption DEF Ids
  <2>1. \A id \in Ids : Current'.indices[id] # NONE => id < Current'.next_id
    BY <1>1, <1>3, <2>0 DEF Sound, Current, Rows
  <2>2. \A a, b \in Ids :
          Current'.indices[a] # NONE /\ Current'.indices[b] # NONE
          /\ Current'.indices[a].key = Current'.indices[b].key => a = b
    BY <1>1, <1>3 DEF Sound, Current, Rows, Emplace, Clashes
  <2> QED
    BY <2>1, <2>2 DEF Sound
<1>5. CASE stack = << >>
  BY <1>2, <1>4, <1>5, WriteKeepsInv DEF Emplace
<1>6. CASE stack # << >>
  <2>1. /\ Top \in UndoStates /\ snaps[Len(stack)] \in Tables
        /\ Sound(snaps[Len(stack)])
        /\ Good(Top, snaps[Len(stack)], Current)
        /\ Current \in Tables
    <3>1. Len(stack) \in 1 .. Len(stack)
      BY <1>6 DEF IndexInv, TypeOK
    <3> QED
      BY <3>1, LevelFacts DEF Top
  <2>2. /\ OnCreate(Top, next_id) \in UndoStates
        /\ Good(OnCreate(Top, next_id), snaps[Len(stack)], Current')
    BY <1>1, <1>2, <1>3, <2>1, CreateKeepsGood DEF Current, Emplace
  <2>3. OnCreate(Top, next_id).revision = Top.revision
    BY <2>1 DEF OnCreate, UndoStates
  <2> QED
    BY <1>2, <1>4, <1>6, <2>2, <2>3, WriteKeepsInv DEF Emplace, Record
<1> QED
  BY <1>5, <1>6

(* modify() keeps the invariant: the first old value of a session stays.   *)
LEMMA ModifyInv ==
  ASSUME IndexInv, KeysFixed, NEW id \in Ids, NEW v \in Values, Modify(id, v)
  PROVE  IndexInv'
<1>0. Sound(Current)
  BY LevelFacts
<1>1. indices \in Rows /\ next_id \in 0 .. MaxId /\ v.key = indices[id].key
  BY DEF IndexInv, TypeOK, Modify
<1>2. ~ Clashes(indices, id, v)
  BY <1>0, <1>1 DEF Sound, Clashes, Current, Modify
<1>3. Current' = [indices |-> [indices EXCEPT ![id] = v], next_id |-> next_id]
  BY <1>2 DEF Modify, Current
<1>4. Current' \in Tables
  BY <1>1, <1>3 DEF Tables, Rows
<1>5. Sound(Current')
  <2>1. \A i \in Ids : Current'.indices[i] # NONE => i < Current'.next_id
    BY <1>0, <1>1, <1>3 DEF Sound, Current, Rows, Modify
  <2>2. \A a, b \in Ids :
          Current'.indices[a] # NONE /\ Current'.indices[b] # NONE
          /\ Current'.indices[a].key = Current'.indices[b].key => a = b
    BY <1>0, <1>1, <1>3 DEF Sound, Current, Rows, Modify
  <2> QED
    BY <2>1, <2>2 DEF Sound
<1>6. CASE stack = << >>
  BY <1>4, <1>5, <1>6, WriteKeepsInv DEF Modify
<1>7. CASE stack # << >>
  <2>1. /\ Top \in UndoStates /\ snaps[Len(stack)] \in Tables
        /\ Sound(snaps[Len(stack)])
        /\ Good(Top, snaps[Len(stack)], Current)
        /\ Current \in Tables
    <3>1. Len(stack) \in 1 .. Len(stack)
      BY <1>7 DEF IndexInv, TypeOK
    <3> QED
      BY <3>1, LevelFacts DEF Top
  <2>2. /\ OnModify(Top, id, indices[id]) \in UndoStates
        /\ Good(OnModify(Top, id, indices[id]), snaps[Len(stack)], Current')
    BY <1>0, <1>1, <1>3, <1>4, <2>1, ModifyKeepsGood DEF Current, Modify
  <2>3. OnModify(Top, id, indices[id]).revision = Top.revision
    BY <2>1 DEF OnModify, UndoStates
  <2> QED
    BY <1>4, <1>5, <1>7, <2>2, <2>3, WriteKeepsInv DEF Modify, Record
<1> QED
  BY <1>6, <1>7

(* remove() keeps the invariant in each of the three cases of on_remove(). *)
LEMMA RemoveInv ==
  ASSUME IndexInv, NEW id \in Ids, Remove(id)
  PROVE  IndexInv'
<1>0. Sound(Current)
  BY LevelFacts
<1>1. indices \in Rows /\ next_id \in 0 .. MaxId
  BY DEF IndexInv, TypeOK
<1>3. Current' = [indices |-> [indices EXCEPT ![id] = NONE], next_id |-> next_id]
  BY DEF Remove, Current
<1>4. Current' \in Tables
  BY <1>1, <1>3 DEF Tables, Rows
<1>5. Sound(Current')
  BY <1>0, <1>1, <1>3 DEF Sound, Current, Rows
<1>6. CASE stack = << >>
  BY <1>4, <1>5, <1>6, WriteKeepsInv DEF Remove
<1>7. CASE stack # << >>
  <2>1. /\ Top \in UndoStates /\ snaps[Len(stack)] \in Tables
        /\ Sound(snaps[Len(stack)])
        /\ Good(Top, snaps[Len(stack)], Current)
        /\ Current \in Tables
    <3>1. Len(stack) \in 1 .. Len(stack)
      BY <1>7 DEF IndexInv, TypeOK
    <3> QED
      BY <3>1, LevelFacts DEF Top
  <2>2. /\ OnRemove(Top, id, indices[id]) \in UndoStates
        /\ Good(OnRemove(Top, id, indices[id]), snaps[Len(stack)], Current')
    <3>1. /\ Current.indices = indices /\ indices[id] # NONE
          /\ Current'.indices = [Current.indices EXCEPT ![id] = NONE]
          /\ Current'.next_id = Current.next_id
      BY <1>3 DEF Current, Remove
    <3> HIDE DEF Current
    <3> QED
      BY <1>0, <1>4, <2>1, <3>1, RemoveKeepsGood
  <2>3. OnRemove(Top, id, indices[id]).revision = Top.revision
    BY <2>1 DEF OnRemove, UndoStates
  <2> QED
    BY <1>4, <1>5, <1>7, <2>2, <2>3, WriteKeepsInv DEF Remove, Record
<1> QED
  BY <1>6, <1>7

(* start_undo_session() keeps the invariant: the new record is Fresh.      *)
LEMMA StartInv ==
  ASSUME IndexInv, StartUndoSession
  PROVE  IndexInv'
<1> DEFINE u == [old_values |-> Empty, removed_values |-> Empty, new_ids |-> {},
                 old_next_id |-> next_id, revision |-> revision + 1]
           n == Len(stack)
<1>1. /\ stack \in Seq(UndoStates) /\ snaps \in Seq(Tables) /\ n \in Nat /\ Len(snaps) = n
      /\ revision \in 0 .. MaxRevision /\ next_id \in 0 .. MaxId
      /\ \A i \in 1 .. n : stack[i].revision = revision - (n - i)
  BY DEF IndexInv, TypeOK, RecordsRewind, RevisionsContiguous
<1>2. /\ stack' = Append(stack, u) /\ snaps' = Append(snaps, Current)
      /\ revision' = revision + 1 /\ Current' = Current /\ status' = "ok"
      /\ revision < MaxRevision
  BY DEF StartUndoSession, Current
<1>3. u \in UndoStates
  BY <1>1, <1>2, BoundsAssumption DEF UndoStates, Rows, Empty
<1>4. Current \in Tables /\ Sound(Current)
  BY LevelFacts
<1>5. Good(u, Current, Current)
  BY <1>3, <1>4, FreshIsGood DEF Fresh, Current
<1>6. /\ stack' \in Seq(UndoStates) /\ snaps' \in Seq(Tables)
      /\ Len(stack') = n + 1 /\ Len(snaps') = n + 1
      /\ stack'[n + 1] = u /\ snaps'[n + 1] = Current
      /\ \A i \in 1 .. n : stack'[i] = stack[i] /\ snaps'[i] = snaps[i]
  BY <1>1, <1>2, <1>3, <1>4
<1>7. u.revision = revision + 1
  OBVIOUS
<1> HIDE DEF u
<1>8. ASSUME NEW i \in 1 .. n + 1
      PROVE  /\ stack'[i].revision = revision' - ((n + 1) - i)
             /\ Sound(snaps'[i])
             /\ i < n + 1 => Good(stack'[i], snaps'[i], snaps'[i + 1])
             /\ i = n + 1 => Good(stack'[i], snaps'[i], Current')
  <2>1. CASE i = n + 1
    BY <1>1, <1>2, <1>4, <1>5, <1>6, <1>7, <2>1
  <2>2. CASE i = n /\ n # 0
    <3>1. Good(stack[n], snaps[n], Current) /\ Sound(snaps[n])
      BY <1>1, <2>2, LevelFacts
    <3> QED
      BY <1>1, <1>2, <1>6, <2>2, <3>1
  <2>3. CASE i < n
    <3>1. Good(stack[i], snaps[i], snaps[i + 1]) /\ Sound(snaps[i])
      BY <1>1, <2>3, LevelFacts
    <3>2. i \in 1 .. n /\ i + 1 \in 1 .. n
      BY <1>1, <2>3
    <3> QED
      BY <1>1, <1>2, <1>6, <2>3, <3>1, <3>2
  <2> QED
    BY <1>1, <2>1, <2>2, <2>3
<1>9. \A i \in 1 .. Len(stack') :
           /\ stack'[i].revision = revision' - (Len(stack') - i)
           /\ Sound(snaps'[i])
           /\ i < Len(stack') => Good(stack'[i], snaps'[i], snaps'[i + 1])
           /\ i = Len(stack') => Good(stack'[i], snaps'[i], Current')
  BY <1>6, <1>8
<1>10. revision' \in 0 .. MaxRevision
  BY <1>1, <1>2, BoundsAssumption
<1> QED
  BY <1>2, <1>4, <1>6, <1>9, <1>10, InvFromLevels

(* undo() succeeds and brings the last snapshot back.                      *)
LEMMA UndoRestores ==
  ASSUME IndexInv, stack # << >>, UndoTop
  PROVE  /\ IndexInv'
         /\ Current' = snaps[Len(snaps)]
         /\ snaps' = SubSeq(snaps, 1, Len(snaps) - 1)
<1> DEFINE n == Len(stack)
<1>1. /\ stack \in Seq(UndoStates) /\ snaps \in Seq(Tables) /\ Len(snaps) = n
      /\ n \in Nat /\ n \in 1 .. n
      /\ revision \in 0 .. MaxRevision /\ status \in {"ok", "undo_all"}
      /\ \A i \in 1 .. n : stack[i].revision = revision - (n - i)
  BY DEF IndexInv, TypeOK, RecordsRewind, RevisionsContiguous
<1>2. /\ Top \in UndoStates /\ snaps[n] \in Tables /\ Sound(snaps[n])
      /\ Good(Top, snaps[n], Current) /\ Current \in Tables /\ Sound(Current)
  BY <1>1, LevelFacts DEF Top
<1>3. ~ UndoFails(Top)
  BY <1>2, GoodIsUndoable DEF Current
<1>4. /\ indices' = Rewind(Top, indices) /\ next_id' = Top.old_next_id
      /\ stack' = SubSeq(stack, 1, n - 1) /\ revision' = revision - 1
      /\ snaps' = SubSeq(snaps, 1, n - 1)
      /\ status' = IF status = "undo_all" /\ n = 1 THEN "ok" ELSE status
  BY <1>1, <1>3 DEF UndoTop, RestoredNextId
<1>5. Current' = snaps[n]
  BY <1>2, <1>4 DEF Current, Good, Rewinds, Tables
<1>6. /\ stack' \in Seq(UndoStates) /\ snaps' \in Seq(Tables)
      /\ Len(stack') = n - 1 /\ Len(snaps') = n - 1
      /\ \A i \in 1 .. n - 1 : stack'[i] = stack[i] /\ snaps'[i] = snaps[i]
  BY <1>1, <1>4
<1>7. revision' \in 0 .. MaxRevision
  \* a record's revision was one above the head revision when it was pushed
  <2>1. Top.revision = revision /\ Top.revision \in 1 .. MaxRevision
    BY <1>1, <1>2, BoundsAssumption DEF Top, UndoStates
  <2> QED
    BY <1>1, <1>4, <2>1, BoundsAssumption
<1>8. ASSUME NEW i \in 1 .. n - 1
      PROVE  /\ stack'[i].revision = revision' - ((n - 1) - i)
             /\ Sound(snaps'[i])
             /\ i < n - 1 => Good(stack'[i], snaps'[i], snaps'[i + 1])
             /\ i = n - 1 => Good(stack'[i], snaps'[i], Current')
  <2>1. /\ Good(stack[i], snaps[i], snaps[i + 1]) /\ Sound(snaps[i])
        /\ stack[i].revision = revision - (n - i)
    <3>1. i \in 1 .. n /\ i < n
      BY <1>1
    <3> QED
      BY <1>1, <3>1, LevelFacts
  <2>2. stack'[i] = stack[i] /\ snaps'[i] = snaps[i]
    BY <1>6
  <2>3. i < n - 1 => snaps'[i + 1] = snaps[i + 1]
    BY <1>1, <1>6
  <2>4. i = n - 1 => snaps[i + 1] = Current'
    BY <1>1, <1>5
  <2>5. revision - (n - i) = revision' - ((n - 1) - i)
    BY <1>1, <1>4
  <2> QED
    BY <2>1, <2>2, <2>3, <2>4, <2>5
<1>9. status' = "undo_all" => stack' # << >>
  <2>1. CASE n = 1
    BY <1>1, <1>4, <2>1
  <2>2. CASE n # 1
    BY <1>1, <1>6, <2>2
  <2> QED
    BY <2>1, <2>2
<1>10. \A i \in 1 .. Len(stack') :
           /\ stack'[i].revision = revision' - (Len(stack') - i)
           /\ Sound(snaps'[i])
           /\ i < Len(stack') => Good(stack'[i], snaps'[i], snaps'[i + 1])
           /\ i = Len(stack') => Good(stack'[i], snaps'[i], Current')
  BY <1>6, <1>8
<1>11. status' \in {"ok", "undo_all"}
  BY <1>1, <1>4
<1>12. IndexInv'
  BY <1>2, <1>5, <1>6, <1>7, <1>9, <1>10, <1>11, InvFromLevels
<1> QED
  BY <1>1, <1>4, <1>5, <1>12

(* What EXCEPT does to one element of a sequence, as squash() uses it.     *)
LEMMA ReplaceElement ==
  ASSUME NEW S, NEW s \in Seq(S), NEW k \in 1 .. Len(s), NEW x \in S
  PROVE  /\ [s EXCEPT ![k] = x] \in Seq(S)
         /\ Len([s EXCEPT ![k] = x]) = Len(s)
         /\ \A i \in 1 .. Len(s) : [s EXCEPT ![k] = x][i] = IF i = k THEN x ELSE s[i]
OBVIOUS

(* squash() keeps the invariant: the merged record spans both sessions.    *)
LEMMA SquashInv ==
  ASSUME IndexInv, Squash
  PROVE  IndexInv'
<1> DEFINE n == Len(stack)
           m == MergeRecords(stack[n - 1], Top)
<1>1. /\ stack \in Seq(UndoStates) /\ snaps \in Seq(Tables) /\ Len(snaps) = n
      /\ n \in Nat /\ n \in 1 .. n
      /\ revision \in 0 .. MaxRevision
      /\ \A i \in 1 .. n : stack[i].revision = revision - (n - i)
  BY DEF IndexInv, TypeOK, RecordsRewind, RevisionsContiguous, Squash
<1>2. Current' = Current /\ Current \in Tables /\ Sound(Current)
      /\ status' = "ok" /\ snaps' = SubSeq(snaps, 1, n - 1)
  BY <1>1, LevelFacts DEF Squash, Current
<1>3. CASE n = 1
  <2>1. stack' = << >> /\ snaps' = << >> /\ revision' = revision
    BY <1>1, <1>2, <1>3 DEF Squash
  <2>2. /\ stack' \in Seq(UndoStates) /\ snaps' \in Seq(Tables)
        /\ Len(stack') = 0 /\ Len(snaps') = 0
    BY <2>1
  <2> QED
    BY <1>1, <1>2, <2>1, <2>2, InvFromLevels
<1>4. CASE n # 1
  <2>1. /\ n - 1 \in 1 .. n /\ n - 1 \in 1 .. n - 1 /\ n - 1 < n
        /\ stack' = [SubSeq(stack, 1, n - 1) EXCEPT ![n - 1] = MergeRecords(@, Top)]
        /\ revision' = revision - 1
    BY <1>1, <1>4 DEF Squash
  <2>2. /\ stack[n - 1] \in UndoStates /\ Top \in UndoStates
        /\ snaps[n - 1] \in Tables /\ snaps[n] \in Tables
        /\ Sound(snaps[n - 1]) /\ Sound(snaps[n])
        /\ Good(stack[n - 1], snaps[n - 1], snaps[n]) /\ Good(Top, snaps[n], Current)
    <3>1. n - 1 + 1 = n
      BY <1>1
    <3> QED
      BY <1>1, <2>1, <3>1, LevelFacts DEF Top
  <2>3. /\ m \in UndoStates /\ m.revision = stack[n - 1].revision
        /\ Good(m, snaps[n - 1], Current)
    BY <1>2, <2>2, MergeKeepsGood
  <2>4. /\ SubSeq(stack, 1, n - 1) \in Seq(UndoStates)
        /\ Len(SubSeq(stack, 1, n - 1)) = n - 1
        /\ \A i \in 1 .. n - 1 : SubSeq(stack, 1, n - 1)[i] = stack[i]
    BY <1>1, <2>1
  <2>5. stack' = [SubSeq(stack, 1, n - 1) EXCEPT ![n - 1] = m]
    BY <2>1, <2>4
  <2> HIDE DEF m
  <2>6. /\ stack' \in Seq(UndoStates) /\ Len(stack') = n - 1
        /\ \A i \in 1 .. n - 1 : stack'[i] = IF i = n - 1 THEN m ELSE stack[i]
    <3> DEFINE front == SubSeq(stack, 1, n - 1)
    <3>1. /\ front \in Seq(UndoStates) /\ Len(front) = n - 1
          /\ \A i \in 1 .. n - 1 : front[i] = stack[i]
          /\ stack' = [front EXCEPT ![n - 1] = m]
      BY <2>4, <2>5
    <3>2. n - 1 \in 1 .. Len(front) /\ m \in UndoStates
      BY <2>1, <2>3, <3>1
    <3> HIDE DEF front
    <3>3. /\ [front EXCEPT ![n - 1] = m] \in Seq(UndoStates)
          /\ Len([front EXCEPT ![n - 1] = m]) = Len(front)
          /\ \A i \in 1 .. Len(front) :
               [front EXCEPT ![n - 1] = m][i] = IF i = n - 1 THEN m ELSE front[i]
      BY <3>1, <3>2, ReplaceElement
    <3> QED
      BY <3>1, <3>3
  <2>7. /\ snaps' \in Seq(Tables) /\ Len(snaps') = n - 1
        /\ \A i \in 1 .. n - 1 : snaps'[i] = snaps[i]
    BY <1>1, <1>2, <2>1
  <2>8. ASSUME NEW i \in 1 .. n - 1
        PROVE  /\ stack'[i].revision = revision' - ((n - 1) - i)
               /\ Sound(snaps'[i])
               /\ i < n - 1 => Good(stack'[i], snaps'[i], snaps'[i + 1])
               /\ i = n - 1 => Good(stack'[i], snaps'[i], Current')
    <3>1. i \in 1 .. n /\ i < n
      BY <1>1
    <3>2. /\ Sound(snaps[i]) /\ snaps'[i] = snaps[i]
          /\ stack[i].revision = revision' - ((n - 1) - i)
      <4>1. revision - (n - i) = revision' - ((n - 1) - i)
        BY <1>1, <2>1
      <4> QED
        BY <1>1, <2>7, <3>1, <4>1, LevelFacts
    <3>3. CASE i = n - 1
      BY <1>1, <1>2, <2>3, <2>6, <3>2, <3>3
    <3>4. CASE i < n - 1
      <4>1. stack'[i] = stack[i] /\ snaps'[i + 1] = snaps[i + 1]
        <5>1. i + 1 \in 1 .. n - 1 /\ i # n - 1
          BY <1>1, <3>4
        <5> QED
          BY <2>6, <2>7, <5>1
      <4> QED
        BY <1>1, <3>1, <3>2, <3>4, <4>1, LevelFacts
    <3> QED
      BY <1>1, <3>3, <3>4
  <2>9. \A i \in 1 .. Len(stack') :
             /\ stack'[i].revision = revision' - (Len(stack') - i)
             /\ Sound(snaps'[i])
             /\ i < Len(stack') => Good(stack'[i], snaps'[i], snaps'[i + 1])
             /\ i = Len(stack') => Good(stack'[i], snaps'[i], Current')
    BY <2>6, <2>8
  <2>10. revision' \in 0 .. MaxRevision
    <3>1. stack[n - 1].revision = revision - 1
      BY <1>1, <2>1
    <3> QED
      BY <1>1, <2>1, <2>2, <3>1, BoundsAssumption DEF UndoStates
  <2> QED
    BY <1>2, <2>6, <2>7, <2>9, <2>10, InvFromLevels
<1> QED
  BY <1>3, <1>4

(* commit() keeps the invariant: it cuts the stack from below.             *)
LEMMA CommitInv ==
  ASSUME IndexInv, NEW r \in 0 .. MaxRevision, Commit(r)
  PROVE  IndexInv'
<1> DEFINE n == Len(stack)
<1>1. /\ stack \in Seq(UndoStates) /\ snaps \in Seq(Tables) /\ Len(snaps) = n
      /\ n \in Nat /\ revision \in 0 .. MaxRevision
      /\ \A i \in 1 .. n : stack[i].revision = revision - (n - i)
  BY DEF IndexInv, TypeOK, RecordsRewind, RevisionsContiguous
<1>2. PICK k \in 0 .. n : /\ stack' = SubSeq(stack, k + 1, n)
                          /\ snaps' = SubSeq(snaps, k + 1, n)
  BY <1>1 DEF Commit
<1>3. Current' = Current /\ Current \in Tables /\ Sound(Current)
      /\ status' = "ok" /\ revision' = revision
  BY LevelFacts DEF Commit, Current
<1>4. /\ stack' \in Seq(UndoStates) /\ snaps' \in Seq(Tables)
      /\ Len(stack') = n - k /\ Len(snaps') = n - k
      /\ \A i \in 1 .. n - k : stack'[i] = stack[i + k] /\ snaps'[i] = snaps[i + k]
  BY <1>1, <1>2
<1>5. ASSUME NEW i \in 1 .. n - k
      PROVE  /\ stack'[i].revision = revision' - ((n - k) - i)
             /\ Sound(snaps'[i])
             /\ i < n - k => Good(stack'[i], snaps'[i], snaps'[i + 1])
             /\ i = n - k => Good(stack'[i], snaps'[i], Current')
  <2>1. i + k \in 1 .. n /\ (i = n - k <=> i + k = n) /\ (i < n - k <=> i + k < n)
    BY <1>1
  <2>2. /\ Sound(snaps[i + k])
        /\ i + k < n => Good(stack[i + k], snaps[i + k], snaps[(i + k) + 1])
        /\ i + k = n => Good(stack[i + k], snaps[i + k], Current)
    BY <2>1, LevelFacts
  <2>3. i < n - k => snaps'[i + 1] = snaps[(i + k) + 1]
    BY <1>1, <1>4
  <2>4. stack[i + k].revision = revision' - ((n - k) - i)
    BY <1>1, <1>3, <2>1
  <2> QED
    BY <1>3, <1>4, <2>1, <2>2, <2>3, <2>4
<1>6. \A i \in 1 .. Len(stack') :
           /\ stack'[i].revision = revision' - (Len(stack') - i)
           /\ Sound(snaps'[i])
           /\ i < Len(stack') => Good(stack'[i], snaps'[i], snaps'[i + 1])
           /\ i = Len(stack') => Good(stack'[i], snaps'[i], Current')
  BY <1>4, <1>5
<1> QED
  BY <1>1, <1>3, <1>4, <1>6, InvFromLevels

(* Every step, and stuttering, keeps the invariant.                        *)
LEMMA StepInv ==
  ASSUME IndexInv, KeysFixed, [Next]_vars
  PROVE  IndexInv'
<1>1. CASE \E v \in Values : Emplace(v)
  BY <1>1, EmplaceInv
<1>2. CASE \E id \in Ids, v \in Values : Modify(id, v)
  BY <1>2, ModifyInv
<1>3. CASE \E id \in Ids : Remove(id)
  BY <1>3, RemoveInv
<1>4. CASE StartUndoSession
  BY <1>4, StartInv
<1>5. CASE Undo
  BY <1>5, UndoRestores DEF Undo
<1>6. CASE UndoAll
  <2>1. TypeOK'
    BY <1>6 DEF UndoAll, IndexInv, TypeOK
  <2>2. RecordsRewind' /\ RecordsConsistent' /\ LevelsSound' /\ RevisionsContiguous'
    BY <1>6 DEF UndoAll, IndexInv, RecordsRewind, RecordsConsistent, LevelsSound,
                RevisionsContiguous, Level
  <2> QED
    BY <1>6, <2>1, <2>2 DEF UndoAll, IndexInv
<1>7. CASE UndoAllStep
  BY <1>7, UndoRestores DEF UndoAllStep, IndexInv
<1>8. CASE Squash
  BY <1>8, SquashInv
<1>9. CASE \E r \in 0 .. MaxRevision : Commit(r)
  BY <1>9, CommitInv
<1>10. CASE \E r \in 0 .. MaxRevision : SetRevision(r)
  <2>1. TypeOK'
    BY <1>10 DEF SetRevision, IndexInv, TypeOK
  <2>2. Len(stack) = 0 /\ Len(stack') = 0
    BY <1>10 DEF SetRevision
  <2>3. RecordsRewind' /\ RecordsConsistent' /\ LevelsSound' /\ RevisionsContiguous'
    BY <1>10, <2>2 DEF SetRevision, IndexInv, RecordsRewind, RecordsConsistent,
                       LevelsSound, RevisionsContiguous, Level
  <2> QED
    BY <1>10, <2>1, <2>3 DEF SetRevision, IndexInv
<1>11. CASE UNCHANGED vars
  <2>1. TypeOK'
    BY <1>11 DEF vars, IndexInv, TypeOK
  <2>2. RecordsRewind' /\ RecordsConsistent' /\ LevelsSound' /\ RevisionsContiguous'
    BY <1>11 DEF vars, IndexInv, RecordsRewind, RecordsConsistent, LevelsSound,
                 RevisionsContiguous, Level
  <2> QED
    BY <1>11, <2>1, <2>2 DEF vars, IndexInv
<1> QED
  BY <1>1, <1>2, <1>3, <1>4, <1>5, <1>6, <1>7, <1>8, <1>9, <1>10, <1>11 DEF Next

(* The invariant of an index whose modifiers keep unique keys: every undo  *)
(* record rewinds its session, for any interleaving of table operations,   *)
(* sessions, squashes, commits and undos.                                  *)
THEOREM IndexInvariant ==
  ASSUME KeysFixed PROVE Spec => []IndexInv
<1>1. Init => IndexInv
  BY InitInv
<1>2. IndexInv /\ [Next]_vars => IndexInv'
  BY StepInv
<1> QED
  BY <1>1, <1>2, PTL DEF Spec

(* Type correctness: ids, records and revisions stay within their sets.    *)
THEOREM IndexTypes ==
  ASSUME KeysFixed PROVE Spec => []TypeOK
<1>1. IndexInv => TypeOK
  BY DEF IndexInv
<1> QED
  BY <1>1, IndexInvariant, PTL

(* commit(n) can rely on the numbering of the records: consecutive, ending *)
(* in the head revision, whatever was squashed, undone or committed.       *)
THEOREM RevisionsStayContiguous ==
  ASSUME KeysFixed PROVE Spec => []RevisionsContiguous
<1>1. IndexInv => RevisionsContiguous
  BY DEF IndexInv
<1> QED
  BY <1>1, IndexInvariant, PTL

(* undo() never throws and never dereferences a missing object.            *)
THEOREM UndoIsTotal ==
  ASSUME KeysFixed PROVE Spec => []UndoNeverFails
<1>1. IndexInv => UndoNeverFails
  BY DEF IndexInv
<1> QED
  BY <1>1, IndexInvariant, PTL

(* Each record rewinds to the table its session started from.              *)
THEOREM RecordsAlwaysRewind ==
  ASSUME KeysFixed PROVE Spec => []RecordsRewind
<1>1. IndexInv => RecordsRewind
  BY DEF IndexInv
<1> QED
  BY <1>1, IndexInvariant, PTL

------------------------------------------------------------------------------

(* The first state of the index is one of the store of snapshots.          *)
LEMMA InitImplements == Init => Store!Init
  BY BoundsAssumption DEF Init, Store!Init, Tables, Rows, Empty

(* Every operation of the index is an operation of the store of snapshots  *)
(* or leaves it alone; undo() is the case that needs the invariant.        *)
LEMMA StepImplements ==
  ASSUME IndexInv, IndexInv', KeysFixed, [Next]_vars
  PROVE  [Store!Next]_(Store!vars)
<1>0. Current \in Tables /\ Current' \in Tables /\ Len(snaps) = Len(stack)
      /\ stack \in Seq(UndoStates) /\ snaps \in Seq(Tables)
  BY DEF IndexInv, TypeOK, Current, Tables, RecordsRewind
<1>1. CASE \/ \E v \in Values : Emplace(v)
           \/ \E id \in Ids, v \in Values : Modify(id, v)
           \/ \E id \in Ids : Remove(id)
  <2>1. snaps' = snaps
    BY <1>1 DEF Emplace, Modify, Remove
  <2> QED
    BY <1>0, <2>1 DEF Store!Next, Store!Write, Current
<1>2. CASE StartUndoSession
  BY <1>2 DEF StartUndoSession, Store!Next, Store!Begin
<1>3. CASE Undo \/ UndoAllStep
  <2>1. stack # << >> /\ UndoTop
    BY <1>3 DEF Undo, UndoAllStep, IndexInv
  <2>2. Current' = snaps[Len(snaps)] /\ snaps' = SubSeq(snaps, 1, Len(snaps) - 1)
    BY <2>1, UndoRestores
  <2>3. snaps # << >>
    BY <1>0, <2>1
  <2> QED
    BY <2>2, <2>3 DEF Store!Next, Store!Restore, Current
<1>4. CASE Squash
  <2>1. snaps # << >>
    BY <1>0, <1>4 DEF Squash
  <2> QED
    BY <1>4, <2>1 DEF Squash, Store!Next, Store!Merge
<1>5. CASE \E r \in 0 .. MaxRevision : Commit(r)
  BY <1>0, <1>5 DEF Commit, Store!Next, Store!Forget
<1>6. CASE \/ UndoAll
           \/ \E r \in 0 .. MaxRevision : SetRevision(r)
           \/ UNCHANGED vars
  BY <1>6 DEF UndoAll, SetRevision, vars, Store!vars
<1> QED
  BY <1>1, <1>2, <1>3, <1>4, <1>5, <1>6 DEF Next

(* The index implements the store of snapshots.                            *)
THEOREM IndexImplementsStore ==
  ASSUME KeysFixed PROVE Spec => ImplementsStore
<1>1. Init => Store!Init
  BY InitImplements
<1>2. IndexInv /\ IndexInv' /\ [Next]_vars => [Store!Next]_(Store!vars)
  BY StepImplements
<1> QED
  BY <1>1, <1>2, IndexInvariant, PTL DEF Spec, ImplementsStore, Store!Spec
==============================================================================
