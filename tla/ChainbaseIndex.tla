--------------------------- MODULE ChainbaseIndex ----------------------------
(***************************************************************************)
(* chainbase::generic_index (chainbase.hpp): a table of objects with an    *)
(* id assigned by the index, a unique secondary key, and a stack of undo   *)
(* records, one per open session.  Every index of the node's database is   *)
(* one of these; chainbase::database calls the same operation on each.     *)
(*                                                                         *)
(* An object is a record of its unique key and of the rest of it.  The     *)
(* table and the two id -> value maps of an undo record are functions on   *)
(* all ids, NONE where the container has no entry.                         *)
(***************************************************************************)
EXTENDS Integers, Sequences

CONSTANTS
  MaxId,         \* bound: ids 0 .. MaxId - 1 are available
  Keys, Bodies,  \* unique secondary keys, remaining contents of an object
  NONE,          \* no entry
  KeysFixed,     \* TRUE: the modifiers given to modify() keep the unique key
  MaxDepth,      \* bound: open sessions
  MaxRevision    \* bound: revision numbers

Ids == 0 .. MaxId - 1
Values == [key : Keys, body : Bodies]
Rows == [Ids -> Values \cup {NONE}]

ASSUME BoundsAssumption ==
  /\ MaxId \in Nat
  /\ MaxDepth \in Nat
  /\ MaxRevision \in Nat
  /\ KeysFixed \in BOOLEAN

ASSUME NoneAssumption == NONE \notin Values

VARIABLES
  indices,   \* _indices: the table
  next_id,   \* _next_id
  stack,     \* _stack: undo records, oldest first
  revision,  \* _revision
  status,    \* "ok"; "undo_all" inside that loop; "failed" once an undo threw
  snaps      \* history variable: table and next id when each session started

vars == <<indices, next_id, stack, revision, status, snaps>>

(* undo_state<value_type> *)
UndoStates ==
  [old_values : Rows, removed_values : Rows, new_ids : SUBSET Ids,
   old_next_id : 0 .. MaxId, revision : 1 .. MaxRevision]

Tables == [indices : Rows, next_id : 0 .. MaxId]

TypeOK ==
  /\ indices \in Rows
  /\ next_id \in 0 .. MaxId
  /\ stack \in Seq(UndoStates)
  /\ revision \in 0 .. MaxRevision
  /\ status \in {"ok", "undo_all", "failed"}
  /\ snaps \in Seq(Tables)

Empty == [id \in Ids |-> NONE]

Init ==
  /\ indices = Empty
  /\ next_id = 0
  /\ stack = << >>
  /\ revision = 0
  /\ status = "ok"
  /\ snaps = << >>

Top == stack[Len(stack)]

(* Only the undo record of the current session is ever written.            *)
Record(u) == stack' = [stack EXCEPT ![Len(stack)] = u]

(* A uniqueness constraint: another object of rows has the key of v.       *)
Clashes(rows, id, v) ==
  \E other \in Ids \ {id} : rows[other] # NONE /\ rows[other].key = v.key

------------------------------------------------------------------------------

OnCreate(u, id) == [u EXCEPT !.new_ids = @ \cup {id}]

(* emplace(); a clash throws before anything has changed.                  *)
Emplace(v) ==
  /\ status = "ok"
  /\ next_id < MaxId
  /\ ~ Clashes(indices, next_id, v)
  /\ indices' = [indices EXCEPT ![next_id] = v]
  /\ next_id' = next_id + 1
  /\ IF stack = << >> THEN UNCHANGED stack ELSE Record(OnCreate(Top, next_id))
  /\ UNCHANGED <<revision, status, snaps>>

OnModify(u, id, v) ==
  IF id \in u.new_ids \/ u.old_values[id] # NONE
  THEN u
  ELSE [u EXCEPT !.old_values[id] = v]

(* modify(); when the new value clashes the container drops the object and *)
(* modify() throws, the old value being recorded already.                  *)
Modify(id, v) ==
  /\ status = "ok"
  /\ indices[id] # NONE
  /\ KeysFixed => v.key = indices[id].key
  /\ indices' = [indices EXCEPT ![id] = IF Clashes(indices, id, v) THEN NONE ELSE v]
  /\ IF stack = << >> THEN UNCHANGED stack
                      ELSE Record(OnModify(Top, id, indices[id]))
  /\ UNCHANGED <<next_id, revision, status, snaps>>

(* Mutant: a modified object is recorded as it is when it is removed.      *)
OnRemoveCurrent(u, id, v) ==
  IF id \in u.new_ids THEN [u EXCEPT !.new_ids = @ \ {id}]
  ELSE [u EXCEPT !.removed_values[id] = v, !.old_values[id] = NONE]

OnRemove(u, id, v) ==
  IF id \in u.new_ids THEN [u EXCEPT !.new_ids = @ \ {id}]
  ELSE IF u.old_values[id] # NONE
       THEN [u EXCEPT !.removed_values[id] = u.old_values[id], !.old_values[id] = NONE]
  ELSE IF u.removed_values[id] # NONE THEN u
  ELSE [u EXCEPT !.removed_values[id] = v]

Remove(id) ==
  /\ status = "ok"
  /\ indices[id] # NONE
  /\ indices' = [indices EXCEPT ![id] = NONE]
  /\ IF stack = << >> THEN UNCHANGED stack
                      ELSE Record(OnRemove(Top, id, indices[id]))
  /\ UNCHANGED <<next_id, revision, status, snaps>>

------------------------------------------------------------------------------

StartUndoSession ==
  /\ status = "ok"
  /\ Len(stack) < MaxDepth
  /\ revision < MaxRevision
  /\ stack' = Append(stack, [old_values |-> Empty, removed_values |-> Empty,
                             new_ids |-> {}, old_next_id |-> next_id,
                             revision |-> revision + 1])
  /\ revision' = revision + 1
  /\ snaps' = Append(snaps, [indices |-> indices, next_id |-> next_id])
  /\ UNCHANGED <<indices, next_id, status>>

(* The table after undo() has walked old_values up to id, in id order.     *)
Restoring(u, id) ==
  [i \in Ids |-> IF i < id /\ u.old_values[i] # NONE THEN u.old_values[i]
                                                     ELSE indices[i]]

(* The table after all three loops of undo().                              *)
Rewind(u, rows) ==
  [id \in Ids |-> IF u.removed_values[id] # NONE THEN u.removed_values[id]
                  ELSE IF id \in u.new_ids THEN NONE
                  ELSE IF u.old_values[id] # NONE THEN u.old_values[id]
                  ELSE rows[id]]

(* undo() fails when it looks up a recorded id the table does not hold     *)
(* (the end iterator is dereferenced), or when restoring a value clashes   *)
(* with an object that is in the table at that moment.                     *)
UndoFails(u) ==
  \/ \E id \in Ids : /\ id \in u.new_ids \/ u.old_values[id] # NONE
                     /\ indices[id] = NONE
  \/ \E id \in Ids : /\ u.old_values[id] # NONE
                     /\ Clashes(Restoring(u, id), id, u.old_values[id])
  \/ \E id \in Ids : /\ u.removed_values[id] # NONE
                     /\ Clashes(Rewind(u, indices), id, u.removed_values[id])

(* What undo() makes of _next_id; the mutant does not restore it.          *)
NextIdKept(u) == next_id
RestoredNextId(u) == u.old_next_id

UndoTop ==
  IF UndoFails(Top)
  THEN /\ status' = "failed"
       /\ UNCHANGED <<indices, next_id, stack, revision, snaps>>
  ELSE /\ indices' = Rewind(Top, indices)
       /\ next_id' = RestoredNextId(Top)
       /\ stack' = SubSeq(stack, 1, Len(stack) - 1)
       /\ revision' = revision - 1
       /\ snaps' = SubSeq(snaps, 1, Len(snaps) - 1)
       /\ status' = IF status = "undo_all" /\ Len(stack) = 1 THEN "ok" ELSE status

(* undo(), and the destructor of a session that was neither pushed nor     *)
(* squashed; nothing happens on an empty stack.                            *)
Undo == status = "ok" /\ stack # << >> /\ UndoTop

(* undo_all() is entered once and runs until the stack is empty.           *)
UndoAll ==
  /\ status = "ok"
  /\ stack # << >>
  /\ status' = "undo_all"
  /\ UNCHANGED <<indices, next_id, stack, revision, snaps>>

(* Mutant: the loop of undo_all() stops at the last record.                *)
UndoAllStopsShort ==
  /\ status = "undo_all"
  /\ IF Len(stack) > 1 THEN UndoTop
     ELSE /\ status' = "ok"
          /\ UNCHANGED <<indices, next_id, stack, revision, snaps>>

UndoAllStep == status = "undo_all" /\ UndoTop

(* The composition of two records, prev then state, by squash().           *)
MergeRecords(prev, state) ==
  LET old == [id \in Ids |->
                IF state.old_values[id] # NONE /\ id \notin prev.new_ids
                   /\ prev.old_values[id] = NONE
                THEN state.old_values[id] ELSE prev.old_values[id]]
      new == prev.new_ids \cup state.new_ids
      del == {id \in Ids : state.removed_values[id] # NONE}
  IN [prev EXCEPT
        !.new_ids = new \ del,
        !.old_values = [id \in Ids |-> IF id \in del \ new THEN NONE ELSE old[id]],
        !.removed_values =
           [id \in Ids |-> IF id \notin del \ new THEN prev.removed_values[id]
                           ELSE IF old[id] # NONE THEN old[id]
                           ELSE state.removed_values[id]]]

(* squash(); the only record is dropped without lowering the revision.     *)
Squash ==
  /\ status = "ok"
  /\ stack # << >>
  /\ IF Len(stack) = 1
     THEN stack' = << >> /\ UNCHANGED revision
     ELSE /\ stack' = [SubSeq(stack, 1, Len(stack) - 1) EXCEPT
                         ![Len(stack) - 1] = MergeRecords(@, Top)]
          /\ revision' = revision - 1
  /\ snaps' = SubSeq(snaps, 1, Len(snaps) - 1)
  /\ UNCHANGED <<indices, next_id, status>>

(* commit(r) pops records from the front while they are not newer than r.  *)
Commit(r) ==
  /\ status = "ok"
  /\ \E n \in 0 .. Len(stack) :
       /\ \A i \in 1 .. n : stack[i].revision <= r
       /\ n < Len(stack) => stack[n + 1].revision > r
       /\ stack' = SubSeq(stack, n + 1, Len(stack))
       /\ snaps' = SubSeq(snaps, n + 1, Len(snaps))
  /\ UNCHANGED <<indices, next_id, revision, status>>

(* set_revision() throws when there is an undo stack.                      *)
SetRevision(r) ==
  /\ status = "ok"
  /\ stack = << >>
  /\ revision' = r
  /\ UNCHANGED <<indices, next_id, stack, status, snaps>>

Next ==
  \/ \E v \in Values : Emplace(v)
  \/ \E id \in Ids, v \in Values : Modify(id, v)
  \/ \E id \in Ids : Remove(id)
  \/ StartUndoSession
  \/ Undo
  \/ UndoAll
  \/ UndoAllStep
  \/ Squash
  \/ \E r \in 0 .. MaxRevision : Commit(r)
  \/ \E r \in 0 .. MaxRevision : SetRevision(r)

(* undo_all() is a loop: once entered it keeps running.                    *)
Spec == Init /\ [][Next]_vars /\ WF_vars(UndoAllStep)

------------------------------------------------------------------------------

(* The table a session started from: its snapshot; above the last session *)
(* the current table.                                                      *)
Level(i) == IF i <= Len(snaps) THEN snaps[i]
                               ELSE [indices |-> indices, next_id |-> next_id]

(* Record u takes the table above it back to the one below it.             *)
Rewinds(u, below, above) ==
  /\ Rewind(u, above.indices) = below.indices
  /\ u.old_next_id = below.next_id
  /\ below.next_id <= above.next_id

(* The three containers of u do not disagree about an object and say where *)
(* it is in the table above u.                                             *)
Consistent(u, above) ==
  \A id \in Ids :
    /\ id \in u.new_ids =>
         /\ above.indices[id] # NONE
         /\ id >= u.old_next_id
         /\ u.old_values[id] = NONE
         /\ u.removed_values[id] = NONE
    /\ u.old_values[id] # NONE =>
         /\ above.indices[id] # NONE
         /\ u.removed_values[id] = NONE
         /\ id < u.old_next_id
         /\ above.indices[id].key = u.old_values[id].key
    /\ u.removed_values[id] # NONE => above.indices[id] = NONE /\ id < u.old_next_id

(* A table: ids from next_id on are free, and the unique key is unique.    *)
Sound(t) ==
  /\ \A id \in Ids : t.indices[id] # NONE => id < t.next_id
  /\ \A a, b \in Ids :
       t.indices[a] # NONE /\ t.indices[b] # NONE
       /\ t.indices[a].key = t.indices[b].key => a = b

(* Every undo record, however its session was written, squashed or cut off *)
(* by a commit, rewinds the table above it to exactly the table its        *)
(* session started from (on_create, on_modify, on_remove and squash()).    *)
RecordsRewind ==
  /\ Len(snaps) = Len(stack)
  /\ \A i \in 1 .. Len(stack) : Rewinds(stack[i], snaps[i], Level(i + 1))

(* The cases squash()'s table calls N/A do not happen: an object is in at  *)
(* most one container of a record, and the record agrees with the table.   *)
RecordsConsistent ==
  \A i \in 1 .. Len(stack) : Consistent(stack[i], Level(i + 1))

(* Every level of the stack is a table the index could have held.          *)
LevelsSound == \A i \in 1 .. Len(snaps) + 1 : Sound(Level(i))

(* Records carry consecutive revisions ending in the head revision, which  *)
(* is what lets commit(n) mean "everything up to block n".                 *)
RevisionsContiguous ==
  \A i \in 1 .. Len(stack) : stack[i].revision = revision - (Len(stack) - i)

(* undo() neither throws nor loses an object, as pop_block, undo_all and   *)
(* the destructors of sessions expect of it.  It holds when modifiers keep *)
(* the unique key, the convention of the node's objects, and fails         *)
(* otherwise: a new object may take the key that a recorded one gave up.   *)
UndoNeverFails == status # "failed"

(* The inductive invariant of an index whose unique keys are never changed *)
(* by a modifier.                                                          *)
IndexInv ==
  /\ TypeOK
  /\ RecordsRewind
  /\ RecordsConsistent
  /\ LevelsSound
  /\ RevisionsContiguous
  /\ UndoNeverFails
  /\ status = "undo_all" => stack # << >>

Store == INSTANCE UndoStore WITH
           table <- [indices |-> indices, next_id |-> next_id],
           saved <- snaps

(* The index implements the store of snapshots: in particular undo()       *)
(* brings back exactly the table of the session's start, whatever was      *)
(* created, modified, removed or squashed since.                           *)
ImplementsStore == Store!Spec

(* undo_all(), which open() calls before anything else, always ends with   *)
(* an empty stack.                                                         *)
UndoAllEnds == status = "undo_all" ~> stack = << >>
==============================================================================
