------------------------------ MODULE BlockLog -------------------------------
(***************************************************************************)
(* block_log (block_log.cpp): the file of irreversible blocks, each        *)
(* followed by its own position, and the index file of these positions.    *)
(* Both are written through buffered streams of their own, so that after a *)
(* crash each holds some prefix of what was written.                       *)
(*                                                                         *)
(* append() is only called with the block after the head, so the block     *)
(* file is given by the number of blocks in it.  An entry of the index is  *)
(* the number of the block it points to, 0 if it was cut off within its    *)
(* eight bytes; an index file <<0>> is shorter than one entry, and no      *)
(* position can be read from its end.  A block file that a crash cut off   *)
(* inside a record is torn and cannot be opened: its last eight bytes are  *)
(* not a position.                                                         *)
(***************************************************************************)
EXTENDS Integers, Sequences, SequencesExt

CONSTANT MaxBlocks   \* bound: blocks appended

ASSUME MaxBlocksAssumption == MaxBlocks \in Nat

VARIABLES
  blocks,     \* whole blocks in the block file
  torn,       \* the block file ends inside a record
  unwritten,  \* blocks in the buffer of block_stream
  index,      \* the index file
  pending,    \* entries in the buffer of index_stream
  head,       \* my->head: number of the head block; -1 while closed
  strict,     \* streams throw when they fail: the constructor of block_log
              \* sees to that, close() puts plain ones in their place
  flushed     \* history variable: blocks that a flush() has written out

vars == <<blocks, torn, unwritten, index, pending, head, strict, flushed>>

Entries == Seq(0 .. MaxBlocks)

TypeOK ==
  /\ {blocks, unwritten, flushed} \subseteq 0 .. MaxBlocks
  /\ torn \in BOOLEAN
  /\ index \in Entries /\ pending \in Entries
  /\ head \in -1 .. MaxBlocks
  /\ strict \in BOOLEAN

Init ==
  /\ blocks = 0 /\ torn = FALSE /\ unwritten = 0
  /\ index = << >> /\ pending = << >>
  /\ head = -1 /\ strict = TRUE /\ flushed = 0

IsOpen == head >= 0

(* The entries 1 .. n.                                                     *)
Positions(n) == [i \in 1 .. n |-> i]

------------------------------------------------------------------------------

(* construct_index(): the loop runs while the position it has read is less *)
(* than that of the last block, starting from that of the first one, so it *)
(* does not run at all for a log of one block.                             *)
ConstructIndex(n) == IF n = 1 THEN << >> ELSE Positions(n)

RebuildIndex == index' = << >> /\ pending' = ConstructIndex(blocks)

(* The log has a block, and the index file is shorter than a position.     *)
Unreadable == blocks > 0 /\ index = <<0>>

Opened ==
  /\ head' = blocks
  /\ UNCHANGED <<blocks, torn, unwritten, strict, flushed>>

(* Mutant: an index that is ahead of the log is kept.                      *)
OpenKeepsLongIndex ==
  /\ ~ IsOpen
  /\ ~ torn /\ ~ Unreadable
  /\ IF blocks > 0 /\ index # << >> /\ Last(index) >= blocks
     THEN UNCHANGED <<index, pending>>
     ELSE RebuildIndex
  /\ Opened

(* open(): the last entries of the files are compared; the index is built  *)
(* again unless they agree, and thrown away if there is no block.          *)
Open ==
  /\ ~ IsOpen
  /\ ~ torn /\ ~ Unreadable
  /\ IF blocks > 0 /\ index # << >> /\ Last(index) = blocks
     THEN UNCHANGED <<index, pending>>
     ELSE RebuildIndex
  /\ Opened

(* No position can be read: open() throws, and the chain plugin closes the *)
(* log to open it again for a replay ...                                   *)
OpenThrows ==
  /\ ~ IsOpen
  /\ ~ torn /\ Unreadable
  /\ strict
  /\ strict' = FALSE
  /\ UNCHANGED <<blocks, torn, unwritten, index, pending, head, flushed>>

(* ... with streams that do not throw: open() compares a variable that was *)
(* never written.                                                          *)
OpenUnread ==
  /\ ~ IsOpen
  /\ ~ torn /\ Unreadable
  /\ ~ strict
  /\ RebuildIndex \/ UNCHANGED <<index, pending>>
  /\ Opened

(* The process ends, and another is started.                               *)
Restart ==
  /\ ~ IsOpen
  /\ ~ strict
  /\ strict' = TRUE
  /\ UNCHANGED <<blocks, torn, unwritten, index, pending, head, flushed>>

(* append() of the block after the head.  Its assertion fails when the     *)
(* index does not end where it should.                                     *)
CanAppend == Len(index) + Len(pending) = head /\ 0 \notin Range(index)

Append1 ==
  /\ IsOpen
  /\ head < MaxBlocks
  /\ CanAppend
  /\ unwritten' = unwritten + 1
  /\ pending' = Append(pending, head + 1)
  /\ head' = head + 1
  /\ UNCHANGED <<blocks, torn, index, strict, flushed>>

(* A full buffer, or check_block_read() and check_index_read() closing the *)
(* stream to read from the file, write one of the buffers out.             *)
WriteBlocks ==
  /\ unwritten > 0
  /\ blocks' = blocks + unwritten /\ unwritten' = 0

WriteIndex ==
  /\ pending # << >>
  /\ index' = index \o pending /\ pending' = << >>

SpillBlocks ==
  /\ IsOpen
  /\ WriteBlocks
  /\ UNCHANGED <<torn, index, pending, head, strict, flushed>>

SpillIndex ==
  /\ IsOpen
  /\ WriteIndex
  /\ UNCHANGED <<blocks, torn, unwritten, head, strict, flushed>>

Flush ==
  /\ IsOpen
  /\ blocks' = blocks + unwritten /\ unwritten' = 0
  /\ index' = index \o pending /\ pending' = << >>
  /\ flushed' = head
  /\ UNCHANGED <<torn, head, strict>>

(* close() destroys the streams, which writes their buffers out.           *)
Close ==
  /\ IsOpen
  /\ blocks' = blocks + unwritten /\ unwritten' = 0
  /\ index' = index \o pending /\ pending' = << >>
  /\ head' = -1 /\ strict' = FALSE
  /\ UNCHANGED <<torn, flushed>>

(* The process is killed: of either buffer some prefix may have been       *)
(* written, that of the block file ending anywhere.                        *)
Crash ==
  /\ IsOpen
  /\ \E n \in 0 .. unwritten :
       /\ blocks' = blocks + n
       /\ torn' \in BOOLEAN
       /\ torn' => n < unwritten
  /\ \E n \in 0 .. Len(pending) :
       \/ index' = index \o SubSeq(pending, 1, n)
       \/ n < Len(pending) /\ index' = index \o SubSeq(pending, 1, n) \o <<0>>
  /\ unwritten' = 0 /\ pending' = << >>
  /\ head' = -1 /\ strict' = TRUE
  /\ UNCHANGED flushed

(* wipe() with the blocks included, before a resync.                       *)
Wipe ==
  /\ ~ IsOpen
  /\ blocks' = 0 /\ torn' = FALSE /\ index' = << >> /\ flushed' = 0
  /\ UNCHANGED <<unwritten, pending, head, strict>>

Next ==
  \/ Open \/ OpenThrows \/ OpenUnread \/ Append1 \/ SpillBlocks \/ SpillIndex \/ Flush \/ Close \/ Crash
  \/ Restart \/ Wipe

Spec == Init /\ [][Next]_vars

------------------------------------------------------------------------------

(* With two blocks or more, an open log has exactly one entry per block,   *)
(* in order: reads by number find their block and append() never stops at  *)
(* its assertion, whichever prefixes of the two files a crash left.  Left  *)
(* out is the log of one block, whose index construct_index() leaves       *)
(* empty, and the index of less than one entry, which OpenUnread may keep. *)
IndexComplete ==
  IsOpen /\ head >= 2 /\ index # <<0>> => index \o pending = Positions(head)

(* No crash takes back a block that a flush() has written out.             *)
FlushedSurvives == IsOpen => head >= flushed

(* The log is whole again after every open(): nothing that was flushed is  *)
(* missing, whatever a crash left, and its index is complete, but for a    *)
(* log of one block and for an index cut off within its first entry.       *)
LogSurvives ==
  /\ TypeOK
  /\ IndexComplete
  /\ FlushedSurvives
==============================================================================
