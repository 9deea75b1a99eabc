---------------------------- MODULE BlockExchange ----------------------------
(***************************************************************************)
(* How nodes get each other's blocks: the synchronisation and the exchange *)
(* of new blocks in the network layer (node.cpp), for a network of nodes   *)
(* that all run it.  A node's network code is one thread of cooperating    *)
(* fibers.  Its calls of the p2p plugin are direct calls                   *)
(* (INVOKE_AND_COLLECT_STATISTICS) and sending only queues a message, so   *)
(* each handler of a message, each pass of a loop and each task is one     *)
(* step; what is open is their order and everything the other nodes do.    *)
(*                                                                         *)
(* A handler takes the record of its node (node_impl) to the next one.     *)
(* The record of a connection (peer_connection) is in it, and so are the   *)
(* messages that are on their way to the peer, in order.                   *)
(***************************************************************************)
EXTENDS Integers, Sequences, FiniteSets, SequencesExt, FiniteSetsExt

CONSTANTS
  Nodes,
  Links,           \* <<n, p>>: n connects to p
  Blocks, Prev, Num,
  NONE,
  Start,           \* the head each node starts with
  Maker,           \* who produces a block, or NONE
  Limit,           \* block ids in one answer
  MinIdsToPrefetch, MaxBlocksPerPeer, MaxHandled, MaxPrefetched,
  Grace,           \* GRAPHENE_NET_FUTURE_SYNC_BLOCKS_GRACE_PERIOD_SEC, in blocks
  MaxCloses        \* connections that break

VARIABLES node, closes, accused

vars == <<node, closes, accused>>

------------------------------------------------------------------------------
(* The chain, as the network code sees it through the p2p plugin.          *)

PathTo(b) ==
  LET path[c \in Blocks] == IF Prev[c] = NONE THEN <<c>> ELSE Append(path[Prev[c]], c)
  IN IF b = NONE THEN << >> ELSE path[b]

ASSUME BlocksAssumption ==
  /\ NONE \notin Blocks
  /\ Prev \in [Blocks -> Blocks \cup {NONE}]
  /\ \A b \in Blocks : Num[b] = IF Prev[b] = NONE THEN 1 ELSE Num[Prev[b]] + 1
  /\ Start \in [Nodes -> Blocks \cup {NONE}]
  /\ Maker \in [Blocks -> Nodes \cup {NONE}]

ASSUME BoundsAssumption ==
  /\ {Limit, MaxBlocksPerPeer, MaxHandled, MaxPrefetched} \subseteq Nat \ {0}
  /\ {MinIdsToPrefetch, Grace, MaxCloses} \subseteq Nat
  /\ Limit > 1

Height(b) == IF b = NONE THEN 0 ELSE Num[b]

(* push_block(): a block that does not link is refused.                    *)
Linked(s, b) == Prev[b] = NONE \/ Prev[b] \in s.known

Pushed(s, b) ==
  [s EXCEPT !.known = @ \cup {b},
            !.head = IF Num[b] > Height(@) THEN b ELSE @]

(* The numbers a synopsis names from low on, at least one of them, halving *)
(* the way to end.                                                         *)
SynopsisNums(low, high, end) ==
  LET from[n \in Nat] ==
        <<n>> \o (LET next == n + (end - n + 2) \div 2 IN
                    IF next > high THEN << >> ELSE from[next])
  IN from[low]

(* get_blockchain_synopsis() of the p2p plugin, from the first block on.   *)
Summary(s, ref, after) ==
  LET path == PathTo(IF ref = NONE THEN s.head ELSE ref)
      nums == SynopsisNums(1, Len(path), Len(path) + after)
  IN IF path = << >> THEN << >> ELSE [i \in 1 .. Len(nums) |-> path[nums[i]]]

(* get_block_ids() of the p2p plugin: from the last block of the synopsis  *)
(* that is on this node's chain; nothing if there is none.                 *)
BlockIds(s, synopsis) ==
  LET path == PathTo(s.head)
      shared == {Num[b] : b \in Range(synopsis) \cap Range(path)}
      first == IF synopsis = << >> THEN 1 ELSE Max(shared)
  IN IF synopsis # << >> /\ shared = {} THEN << >>
     ELSE SubSeq(path, first, Min({Len(path), first + Limit - 1}))

Remaining(s, ids) == IF ids = << >> THEN 0 ELSE Height(s.head) - Num[Last(ids)]

------------------------------------------------------------------------------

(* peer_connection: a new one.                                             *)
NewConnection ==
  [status |-> "down",        \* or "handshaking", "active", "closing"
   toGet |-> << >>,          \* ids_of_items_to_get
   processing |-> {},        \* ids_of_items_being_processed
   unfetched |-> 0,          \* number_of_unfetched_item_ids
   weNeed |-> TRUE,          \* we_need_sync_items_from_peer
   needsUs |-> TRUE,         \* peer_needs_sync_items_from_us
   lastSeen |-> NONE,        \* last_block_delegate_has_seen
   idsRequested |-> NONE,    \* item_ids_requested_from_peer: the synopsis sent
   syncRequested |-> {},     \* sync_items_requested_from_peer
   requested |-> {},         \* items_requested_from_peer
   theirs |-> {},            \* inventory_peer_advertised_to_us
   ours |-> {}]              \* inventory_advertised_to_peer

Peers(n) == {p \in Nodes : {<<n, p>>, <<p, n>>} \cap Links # {}}

Active(s) == {p \in DOMAIN s.conn : s.conn[p].status = "active"}

Idle(c) == c.requested = {} /\ c.syncRequested = {} /\ c.idsRequested = NONE

Send(s, p, m) == [s EXCEPT !.wire[p] = Append(@, m)]

TriggerFetchSyncItems(s) == [s EXCEPT !.fetchSync = TRUE]
TriggerFetchItems(s) == [s EXCEPT !.fetchItems = TRUE]
TriggerBacklog(s) == [s EXCEPT !.backlog = TRUE]

HaveReceived(s, b) == b \in Range(s.received) \cup Range(s.arrived)

(* broadcast(): from the client and from normal operation.                 *)
Broadcast(s, b) == [s EXCEPT !.recent = @ \cup {b}, !.fresh = @ \cup {b}]

(* create_blockchain_synopsis_for_peer(): what this node has, and then     *)
(* what the peer has said it has.                                          *)
SynopsisFor(s, p) ==
  LET c == s.conn[p]
      own == Summary(s, c.lastSeen, Len(c.toGet))
      first == Num[Head(c.toGet)]
      end == Num[Last(c.toGet)]
      nums == SelectSeq(SynopsisNums(1, end, end), LAMBDA n : n >= first)
  IN IF c.toGet = << >> THEN own
     ELSE own \o [i \in 1 .. Len(nums) |-> c.toGet[nums[i] - first + 1]]

FetchNextBatch(s, p) ==
  LET synopsis == SynopsisFor(s, p) IN
    Send([s EXCEPT !.conn[p].idsRequested = synopsis], p,
         [type |-> "fetch_ids", ids |-> synopsis])

StartSynchronizing(s, p) ==
  FetchNextBatch([s EXCEPT !.conn[p].toGet = << >>,
                           !.conn[p].unfetched = 0,
                           !.conn[p].weNeed = TRUE,
                           !.conn[p].lastSeen = NONE], p)

(* The same for several peers.                                             *)
FetchNextBatches(s, ps) == FoldSet(LAMBDA p, t : FetchNextBatch(t, p), s, ps)
StartSynchronizingAll(s, ps) == FoldSet(LAMBDA p, t : StartSynchronizing(t, p), s, ps)

(* disconnect_from_peer(): the connection is closed later.                 *)
Disconnect(s, p) == [s EXCEPT !.conn[p].status = "closing"]

------------------------------------------------------------------------------
(* Messages.                                                               *)

(* on_fetch_blockchain_item_ids_message()                                  *)
OnFetchIds(s, p, synopsis) ==
  LET ids == BlockIds(s, synopsis)
      inSync == ids = << >> \/ (Len(ids) = 1 /\ ids[1] \in Range(synopsis))
      noted == [s EXCEPT !.conn[p].needsUs = ~ inSync]
      restart == /\ ~ s.conn[p].weNeed
                 /\ synopsis # << >>
                 /\ Last(synopsis) \notin s.known
      synced == IF restart THEN StartSynchronizing(noted, p) ELSE noted
      replied == Send(synced, p,
                      [type |-> "ids", ids |-> ids, remaining |-> Remaining(s, ids)])
  IN IF s.conn[p].status = "handshaking"
     THEN StartSynchronizing([replied EXCEPT !.conn[p].status = "active"], p)
     ELSE replied

(* A valid answer builds on a block of the synopsis.                       *)
ValidIds(c, ids) ==
  ids # << >> =>
    /\ \A i \in 1 .. Len(ids) : Num[ids[i]] = Num[ids[1]] + i - 1
    /\ IF c.idsRequested = << >> THEN Num[ids[1]] = 1 ELSE ids[1] \in Range(c.idsRequested)

(* Mutant: a peer whose last block is known is asked again.               *)
UpToDateEmpty(s, p, m) ==
  /\ m.remaining = 0
  /\ m.ids = << >>
  /\ s.conn[p].toGet = << >>
  /\ s.conn[p].unfetched = 0

(* The peer has nothing that this node lacks.                              *)
UpToDate(s, p, m) ==
  /\ m.remaining = 0
  /\ m.ids = << >> \/ (Len(m.ids) = 1 /\ m.ids[1] \in s.known)
  /\ s.conn[p].toGet = << >>
  /\ s.conn[p].unfetched = 0

(* A first list, without the blocks this node has, unless another peer's   *)
(* list begins with the same block.                                        *)
FirstList(s, p, ids) ==
  LET known[i \in 0 .. Len(ids)] ==     \* the number of known ones in front, from i on
        IF i < Len(ids) /\ ids[i + 1] \in s.known THEN known[i + 1] ELSE i
      k == IF \E q \in Active(s) \ {p} : s.conn[q].toGet # << >> /\ Head(s.conn[q].toGet) = ids[1]
           THEN 0 ELSE known[0]
  IN [s EXCEPT !.conn[p].toGet = SubSeq(ids, k + 1, Len(ids)),
               !.conn[p].lastSeen = IF k = 0 THEN @ ELSE ids[k]]

(* A list that goes on from an earlier one, which may have ended earlier   *)
(* if the peer has switched to another branch.                             *)
NextList(s, p, ids) ==
  LET list == s.conn[p].toGet
      common == {i \in 1 .. Len(list) : list[i] = ids[1]}
  IN IF common = {}
     THEN [s EXCEPT !.conn[p].toGet = Tail(ids), !.conn[p].lastSeen = ids[1]]
     ELSE [s EXCEPT !.conn[p].toGet = SubSeq(list, 1, Max(common) - 1) \o ids]

(* More blocks than can exist by now: a block per interval, and the clocks *)
(* no further than the newest block of all.  The time of no block          *)
(* (get_block_time) is the beginning of time.                              *)
Implausible(s, p) ==
  LET now == Max({Height(node[n].head) : n \in Nodes}) IN
    /\ s.conn[p].lastSeen # NONE
    /\ Num[s.conn[p].lastSeen] + s.conn[p].unfetched > now + Grace

(* on_blockchain_item_ids_inventory_message()                              *)
OnIds(s, p, m) ==
  LET asked == [s EXCEPT !.conn[p].idsRequested = NONE]
      listed == IF m.ids = << >> THEN asked
                ELSE IF s.conn[p].toGet = << >> THEN FirstList(asked, p, m.ids)
                ELSE NextList(asked, p, m.ids)
      t == [listed EXCEPT !.conn[p].unfetched = m.remaining]
  IN IF s.conn[p].idsRequested = NONE THEN s
     ELSE IF ~ ValidIds(s.conn[p], m.ids) THEN Disconnect(s, p)
     ELSE IF UpToDate(s, p, m) THEN [asked EXCEPT !.conn[p].weNeed = FALSE]
     ELSE IF Implausible(t, p) THEN Disconnect(t, p)
     ELSE IF (m.remaining # 0 /\ Len(t.conn[p].toGet) > MinIdsToPrefetch)
             \/ (m.remaining = 0 /\ t.conn[p].toGet # << >>)
     THEN TriggerFetchSyncItems(t)
     ELSE FetchNextBatch(t, p)

(* on_fetch_items_message()                                                *)
OnFetchItems(s, p, ids) ==
  [s EXCEPT !.conn[p].lastSeen = Last(ids),
            !.wire[p] = @ \o [i \in 1 .. Len(ids) |-> [type |-> "block", ids |-> <<ids[i]>>]]]

(* process_block_during_normal_operation(): the client accepts the block   *)
(* and it is advertised, or refuses one that does not link; the exception  *)
(* leaves that one among those being processed.                            *)
NormalBlock(s, p, b) ==
  IF b \notin s.recent /\ ~ Linked(s, b)
  THEN StartSynchronizing([s EXCEPT !.beingProcessed = @ \cup {b}], p)
  ELSE LET pushed == IF b \in s.recent THEN s ELSE Pushed(s, b) IN
    Broadcast([pushed EXCEPT !.conn =
                 [q \in DOMAIN @ |->
                    IF @[q].status = "active" /\ b \in @[q].theirs
                    THEN [@[q] EXCEPT !.lastSeen = b] ELSE @[q]]], b)

(* process_block_message()                                                 *)
OnBlock(s, p, b) ==
  LET c == s.conn[p]
      normal == NormalBlock([s EXCEPT !.conn[p].requested = @ \ {b}], p, b)
      synced == TriggerBacklog([s EXCEPT !.conn[p].syncRequested = @ \ {b},
                                         !.requests = @ \ {b},
                                         !.arrived = Append(@, b)])
      after == synced.conn[p]
  IN IF b \in c.requested
     THEN IF Idle(normal.conn[p]) THEN TriggerFetchItems(normal) ELSE normal
     ELSE IF b \notin c.syncRequested THEN Disconnect(s, p)
     ELSE IF ~ Idle(after) THEN synced
     ELSE IF after.unfetched > 0 /\ Len(after.toGet) < MinIdsToPrefetch
     THEN FetchNextBatch(synced, p)
     ELSE TriggerFetchSyncItems(synced)

(* on_item_ids_inventory_message(), for one block.                         *)
OnAdvertised(s, p, b) ==
  LET listed == [s EXCEPT !.conn[p].theirs = @ \cup {b}] IN
    IF b \in s.beingProcessed \cup s.fresh \/ \E q \in Active(s) : b \in s.conn[q].ours THEN s
    ELSE IF (\E q \in Active(s) : b \in s.conn[q].requested) \/ b \in Range(s.toFetch) THEN listed
    ELSE TriggerFetchItems([listed EXCEPT !.toFetch = Append(@, b)])

OnInventory(s, p, ids) == FoldLeft(LAMBDA t, b : OnAdvertised(t, p, b), s, ids)

(* on_message()                                                            *)
OnMessage(s, p, m) ==
  CASE m.type = "fetch_ids" -> OnFetchIds(s, p, m.ids)
    [] m.type = "ids" -> OnIds(s, p, m)
    [] m.type = "fetch" -> OnFetchItems(s, p, m.ids)
    [] m.type = "block" -> OnBlock(s, p, m.ids[1])
    [] m.type = "inventory" -> OnInventory(s, p, m.ids)

Receive(n, p) ==
  /\ node[p].wire[n] # << >>
  /\ LET s == OnMessage(node[n], p, Head(node[p].wire[n])) IN
       /\ node' = [node EXCEPT ![n] = s, ![p].wire[n] = Tail(@)]
       /\ accused' = accused \cup {q \in Peers(n) : /\ s.conn[q].status = "closing"
                                                    /\ node[n].conn[q].status # "closing"}
  /\ UNCHANGED closes

------------------------------------------------------------------------------
(* Loops and tasks.                                                        *)

(* One peer's share of a pass of fetch_sync_items_loop().                  *)
RequestSyncItems(s, p) ==
  LET c == s.conn[p]
      wanted == SelectSeq(c.toGet, LAMBDA b : ~ HaveReceived(s, b) /\ b \notin s.requests)
      batch == SubSeq(wanted, 1, Min({Len(wanted), MaxBlocksPerPeer}))
  IN IF ~ (c.weNeed /\ Idle(c)) \/ batch = << >> THEN s
     ELSE Send([s EXCEPT !.requests = @ \cup Range(batch),
                         !.conn[p].syncRequested = Range(batch)], p,
               [type |-> "fetch", ids |-> batch])

(* fetch_sync_items_loop(): the peers are in the order of a hash table.    *)
FetchSyncItems(n) ==
  /\ node[n].fetchSync
  /\ LET s == [node[n] EXCEPT !.fetchSync = FALSE] IN
       IF s.suspended THEN node' = [node EXCEPT ![n] = s]
       ELSE \E order \in SetToSeqs(Active(s)) :
              node' = [node EXCEPT ![n] = FoldLeft(RequestSyncItems, s, order)]
  /\ UNCHANGED <<closes, accused>>

(* fetch_items_loop(): an idle peer that has advertised a block is asked   *)
(* for it, one block at a time.                                            *)
FetchItems(n) ==
  /\ node[n].fetchItems
  /\ LET s == [node[n] EXCEPT !.fetchItems = FALSE]
         idle == {p \in Active(s) : Idle(s.conn[p])}
         has(b) == {p \in idle : b \in s.conn[p].theirs}
     IN \E asked \in [idle -> Range(s.toFetch) \cup {NONE}] :
          /\ \A p \in idle : asked[p] # NONE =>
               /\ p \in has(asked[p])
               /\ \A q \in idle \ {p} : asked[q] # asked[p]
          /\ \A i \in 1 .. Len(s.toFetch) :
               s.toFetch[i] \in Range(asked)
               \/ \A p \in has(s.toFetch[i]) : \E j \in 1 .. i - 1 : asked[p] = s.toFetch[j]
          /\ node' = [node EXCEPT ![n] =
               [s EXCEPT
                 !.toFetch = SelectSeq(@, LAMBDA b : b \notin Range(asked)),
                 !.conn = [p \in DOMAIN @ |->
                   IF p \in idle /\ asked[p] # NONE
                   THEN [@[p] EXCEPT !.requested = {asked[p]}] ELSE @[p]],
                 !.wire = [p \in DOMAIN @ |->
                   IF p \in idle /\ asked[p] # NONE
                   THEN Append(@[p], [type |-> "fetch", ids |-> <<asked[p]>>]) ELSE @[p]]]]
  /\ UNCHANGED <<closes, accused>>

(* advertise_inventory_loop(): not to peers that still synchronize.        *)
Advertise(n) ==
  /\ node[n].fresh # {}
  /\ LET s == node[n]
         told == {p \in Active(s) : ~ s.conn[p].needsUs}
         new(p) == s.fresh \ (s.conn[p].ours \cup s.conn[p].theirs)
     IN node' = [node EXCEPT ![n] =
          [s EXCEPT
            !.fresh = {},
            !.conn = [p \in DOMAIN @ |->
              IF p \in told THEN [@[p] EXCEPT !.ours = @ \cup new(p)] ELSE @[p]],
            !.wire = [p \in DOMAIN @ |->
              IF p \in told /\ new(p) # {}
              THEN Append(@[p], [type |-> "inventory", ids |-> SetToSeq(new(p))]) ELSE @[p]]]]
  /\ UNCHANGED <<closes, accused>>

(* A pass of process_backlog_of_sync_blocks() over the blocks that have    *)
(* arrived: the first of them that is next for some peer.                  *)
IsNext(s, b) == \E p \in Active(s) : s.conn[p].toGet # << >> /\ Head(s.conn[p].toGet) = b

NextReceived(s) == {i \in 1 .. Len(s.received) : IsNext(s, s.received[i])}

(* It is taken off all lists that begin with it, and goes to the client.   *)
TakeNext(s, b) ==
  [s EXCEPT !.conn = [p \in DOMAIN @ |->
     IF @[p].status = "active" /\ @[p].toGet # << >> /\ Head(@[p].toGet) = b
     THEN [@[p] EXCEPT !.toGet = Tail(@), !.processing = @ \cup {b}] ELSE @[p]]]

(* Nothing is left of the peer's list: time to ask it for more.            *)
ListDone(c) == c.toGet = << >> /\ c.unfetched = 0 /\ c.processing = {}


(* A block that has been accepted counts as processed.                     *)
Processed(s, b, seen) ==
  LET ps == {p \in Active(s) : b \in s.conn[p].processing}
      t == [s EXCEPT !.conn = [p \in DOMAIN @ |->
              IF p \in ps THEN [@[p] EXCEPT !.processing = @ \ {b},
                                            !.lastSeen = IF seen THEN b ELSE @] ELSE @[p]]]
  IN FetchNextBatches(t, {p \in ps : ListDone(t.conn[p])})

(* The pass stops at a block that is known, and when enough are handled.   *)
BacklogPass(s) ==
  IF NextReceived(s) = {} THEN [s EXCEPT !.backlog = FALSE]
  ELSE LET i == Min(NextReceived(s))
           b == s.received[i]
           t == TakeNext(s, b)
       IN IF b \in s.recent THEN [Processed(t, b, FALSE) EXCEPT !.backlog = FALSE]
          ELSE [t EXCEPT !.received = RemoveAt(@, i),
                         !.handling = Append(@, b),
                         !.backlog = Len(t.handling) + 1 < MaxHandled]

(* process_backlog_of_sync_blocks()                                        *)
Backlog(n) ==
  /\ node[n].backlog
  /\ LET s == [node[n] EXCEPT !.received = node[n].arrived \o @, !.arrived = << >>,
                              !.suspended = FALSE]
         pass[i \in Nat] == IF i = 0 THEN s
                            ELSE IF pass[i - 1].backlog THEN BacklogPass(pass[i - 1])
                            ELSE pass[i - 1]
         t == pass[Len(s.received) + 1]
         full == Len(t.handling) >= MaxHandled /\ Len(t.received) >= MaxPrefetched
     IN node' = [node EXCEPT ![n] =
          IF Len(@.handling) >= MaxHandled THEN [@ EXCEPT !.backlog = FALSE]
          ELSE IF full THEN [t EXCEPT !.suspended = TRUE]
          ELSE TriggerFetchSyncItems(t)]
  /\ UNCHANGED <<closes, accused>>

(* send_sync_block_to_node_delegate(): the peers that have nothing more    *)
(* listed are asked again; those in sync are told by a synchronisation.    *)
HandleBlock(n) ==
  /\ node[n].handling # << >>
  /\ LET b == Head(node[n].handling)
         s == TriggerBacklog([node[n] EXCEPT !.handling = Tail(@)])
         accepted == [Pushed(s, b) EXCEPT !.recent = @ \cup {b}]
         inSync == {p \in Active(s) : LET c == s.conn[p] IN
                      /\ c.toGet = << >> /\ c.processing = {}
                      /\ ~ c.needsUs /\ ~ c.weNeed}
         offered == {p \in Active(s) : b \in s.conn[p].processing}
     IN IF Linked(s, b)
        THEN /\ node' = [node EXCEPT ![n] =
                  StartSynchronizingAll(Processed(accepted, b, TRUE), inSync)]
             /\ UNCHANGED accused
        ELSE /\ node' = [node EXCEPT ![n] =
                  FoldSet(LAMBDA p, t : Disconnect(t, p), s, offered)]
             /\ accused' = accused \cup offered
  /\ UNCHANGED closes

------------------------------------------------------------------------------
(* Connections, and new blocks.                                            *)

(* The handshake: the one who connects starts to synchronize, the other    *)
(* one does so when it is asked for ids (new_peer_just_added).             *)
Connect(n, p) ==
  /\ <<n, p>> \in Links
  /\ node[n].conn[p].status = "down" /\ node[p].conn[n].status = "down"
  /\ node' = [node EXCEPT
       ![n] = StartSynchronizing([@ EXCEPT !.conn[p].status = "active"], p),
       ![p].conn[n].status = "handshaking"]
  /\ UNCHANGED <<closes, accused>>

(* Mutant: what was asked of the peer still counts as requested.           *)
ClosedKeepsRequests(s, p) ==
  [s EXCEPT !.conn[p] = NewConnection, !.wire[p] = << >>,
            !.fetchSync = @ \/ s.conn[p].syncRequested # {}]

(* on_connection_closed(): what was asked of the peer is asked of another. *)
OnConnectionClosed(s, p) ==
  LET c == s.conn[p]
      t == [s EXCEPT !.conn[p] = NewConnection, !.wire[p] = << >>,
                     !.requests = @ \ c.syncRequested,
                     !.fetchSync = @ \/ c.syncRequested # {},
                     !.fetchItems = @ \/ c.requested # {}]
      again == {b \in c.requested : \E q \in Active(t) : b \in t.conn[q].theirs}
  IN [t EXCEPT !.toFetch = @ \o SetToSeq(again)]

(* A connection ends because it breaks, because a request has had no       *)
(* answer in time or because it has been closed                            *)
(* (terminate_inactive_connections_loop).                                  *)
Close(n, p) ==
  /\ node[n].conn[p].status # "down"
  /\ IF "closing" \in {node[n].conn[p].status, node[p].conn[n].status} THEN UNCHANGED closes
     ELSE closes < MaxCloses /\ closes' = closes + 1
  /\ node' = [node EXCEPT ![n] = OnConnectionClosed(@, p), ![p] = OnConnectionClosed(@, n)]
  /\ UNCHANGED accused

(* generate_block(), and then broadcast_block() of the p2p plugin.         *)
Produce(n, b) ==
  /\ Maker[b] = n
  /\ b \notin node[n].known
  /\ Prev[b] = node[n].head
  /\ node' = [node EXCEPT ![n] = [Pushed(@, b) EXCEPT !.made = @ \cup {b}]]
  /\ UNCHANGED <<closes, accused>>

BroadcastBlock(n, b) ==
  /\ b \in node[n].made
  /\ node' = [node EXCEPT ![n] = [Broadcast(@, b) EXCEPT !.made = @ \ {b}]]
  /\ UNCHANGED <<closes, accused>>

------------------------------------------------------------------------------

Init ==
  /\ node = [n \in Nodes |->
       [known |-> Range(PathTo(Start[n])), head |-> Start[n],
        conn |-> [p \in Peers(n) |-> NewConnection],
        wire |-> [p \in Peers(n) |-> << >>],
        requests |-> {},               \* _active_sync_requests
        arrived |-> << >>,             \* _new_received_sync_items, oldest first
        received |-> << >>,            \* _received_sync_items
        handling |-> << >>,            \* blocks of _handle_message_calls_in_progress
        recent |-> {Start[n]},         \* _most_recent_blocks_accepted
        toFetch |-> << >>,             \* _items_to_fetch
        beingProcessed |-> {},         \* _message_ids_currently_being_processed
        fresh |-> {},                  \* _new_inventory
        made |-> {},                   \* produced and not yet broadcast
        suspended |-> FALSE,           \* _suspend_fetching_sync_blocks
        fetchSync |-> FALSE, fetchItems |-> FALSE, backlog |-> FALSE]]
  /\ closes = 0
  /\ accused = {}

Run(n) ==
  \/ FetchSyncItems(n) \/ FetchItems(n) \/ Advertise(n) \/ Backlog(n) \/ HandleBlock(n)
  \/ \E p \in Peers(n) : Receive(n, p)

Next ==
  \E n \in Nodes :
    \/ Run(n)
    \/ \E p \in Peers(n) : Connect(n, p) \/ Close(n, p)
    \/ \E b \in Blocks : Produce(n, b) \/ BroadcastBlock(n, b)

Spec == Init /\ [][Next]_vars

------------------------------------------------------------------------------

(* Properties. *)

Ids == Seq(Blocks)

TypeOK ==
  /\ closes \in 0 .. MaxCloses /\ accused \subseteq Nodes
  /\ \A n \in Nodes : LET s == node[n] IN
       /\ s.known \subseteq Blocks /\ s.head \in s.known \cup {NONE}
       /\ {s.requests, s.fresh, s.made, s.beingProcessed} \subseteq SUBSET Blocks
       /\ {s.arrived, s.received, s.handling, s.toFetch} \subseteq Ids
       /\ {s.suspended, s.fetchSync, s.fetchItems, s.backlog} \subseteq BOOLEAN
       /\ \A p \in Peers(n) : LET c == s.conn[p] IN
            /\ c.status \in {"down", "handshaking", "active", "closing"}
            /\ c.toGet \in Ids /\ c.unfetched \in Nat /\ c.idsRequested \in Ids \cup {NONE}
            /\ {c.processing, c.syncRequested, c.requested, c.theirs, c.ours} \subseteq SUBSET Blocks
            /\ c.lastSeen \in Blocks \cup {NONE}
            /\ {c.weNeed, c.needsUs} \subseteq BOOLEAN
            /\ \A i \in 1 .. Len(s.wire[p]) : s.wire[p][i].ids \in Ids

(* The requests for blocks the node believes to be under way               *)
(* (_active_sync_requests) are those its connections wait for, each of one *)
(* of them, also after connections broke: a block listed as requested that *)
(* nobody has been asked for would never be fetched.                       *)
AskedOnce ==
  \A n \in Nodes : LET c == node[n].conn IN
    /\ UNION {c[p].syncRequested : p \in Peers(n)} = node[n].requests
    /\ \A p, q \in Peers(n) : p # q => c[p].syncRequested \cap c[q].syncRequested = {}

(* Nodes that follow the protocol on one chain do not accuse each other in *)
(* their handlers: no answer is taken for an invalid one or for more       *)
(* blocks than can exist, no block for one that was not asked for or       *)
(* cannot be applied.  A connection that is closed because a request timed *)
(* out or synchronisation looks stalled is Close, and no accusation.       *)
HonestKept == accused = {}

(* The bookkeeping of the exchange is right.                               *)
ExchangeSound == TypeOK /\ AskedOnce /\ HonestKept

(* "A state we should never get into in the first place"                   *)
(* (terminate_inactive_connections_loop(), which closes the connection     *)
(* then): the node needs blocks of a peer, knows of none to get and has    *)
(* not asked for more.  The code does get into it, but only while it       *)
(* applies the last blocks of the list, and asks for more after them.      *)
StalledOnlyApplying ==
  \A n \in Nodes : \A p \in Active(node[n]) :
    LET c == node[n].conn[p] IN
      c.weNeed /\ c.idsRequested = NONE /\ c.toGet = << >> => c.processing # {}

(* Nothing is under way and no loop has been woken.                        *)
Quiet ==
  \A n \in Nodes : LET s == node[n] IN
    /\ \A p \in Peers(n) : s.wire[p] = << >>
    /\ s.handling = << >> /\ s.fresh = {}
    /\ ~ s.fetchSync /\ ~ s.fetchItems /\ ~ s.backlog

Up(n, p) == node[n].conn[p].status = "active" /\ node[p].conn[n].status = "active"

(* When all is quiet, a node that is not told of new blocks because it is  *)
(* thought to be catching up believes so itself ...                        *)
NotIgnored ==
  Quiet => \A n \in Nodes : \A p \in Peers(n) :
    Up(n, p) /\ node[n].conn[p].needsUs => node[p].conn[n].weNeed

(* ... and one that still waits for blocks a peer has listed has received  *)
(* them, the next one to apply among them: what it lacks is that its       *)
(* backlog is woken, as every arriving block does.  That happens in two    *)
(* ways: the backlog stopped at a block that had come the other way too    *)
(* and stays in it, or it ran when the connection that listed the blocks   *)
(* was gone, and they are not asked for again.                             *)
StopsOnlyInBacklog ==
  Quiet => \A n \in Nodes : \A p \in Peers(n) :
    LET s == node[n]
        missing == Range(s.conn[p].toGet) \ s.known
    IN Up(n, p) /\ s.conn[p].weNeed /\ missing # {} =>
         /\ missing \subseteq Range(s.received)
         /\ NextReceived(s) # {}
         /\ Range(s.received) \cap s.recent # {} \/ closes > 0


(* Nodes do not keep each other busy for ever: if steps go on, all becomes *)
(* quiet again and again, although a handler answers a request for ids     *)
(* with one of its own, and every accepted block starts synchronisations.  *)
ExchangeEnds == []<><<TRUE>>_vars => []<>Quiet
==============================================================================
