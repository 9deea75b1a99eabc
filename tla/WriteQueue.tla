----------------------------- MODULE WriteQueue ------------------------------
(***************************************************************************)
(* The write queue of the chain plugin (chain_plugin.cpp) with the threads *)
(* that use it: the p2p thread, the web server's pool, the main thread     *)
(* that produces blocks, and the one writer thread.  A caller puts a       *)
(* pointer to a context on its own stack into the queue and waits for the  *)
(* promise in it.  Handlers also read the database, under the read lock of *)
(* chainbase (chainbase.hpp), and the writer thread writes under its write *)
(* lock.  At the end the application shuts its plugins down in the reverse *)
(* of the order in which they were started.                                *)
(*                                                                         *)
(* A writer that has waited for a second for a lock that is being read     *)
(* under moves on to the next lock of a ring.  All locks but the current   *)
(* one are alike, since nobody writes under them: a lock is "now" or       *)
(* "past".  The next lock is made current first and constructed anew after *)
(* that: a read that takes it in between is "lost" to it, and counted down *)
(* when it ends although it is not counted any more.  That the ring comes  *)
(* round to a lock still read under is left out.                           *)
(***************************************************************************)
EXTENDS Integers, Sequences, FiniteSets, SequencesExt

CONSTANTS
  Pool,       \* threads of the web server
  P2p, Main,  \* the p2p thread, the main thread
  Nobody,     \* no context
  WebFirst    \* TRUE: the web server was started before the chain plugin, as
              \* in configurations that list it first; FALSE: after it

Callers == Pool \cup {P2p, Main}

ASSUME ThreadAssumption ==
  /\ IsFiniteSet(Pool)
  /\ P2p # Main /\ {P2p, Main} \cap Pool = {}
  /\ Nobody \notin Callers
  /\ WebFirst \in BOOLEAN

VARIABLES
  caller,    \* caller[c]: "idle", "handling" a message, request or slot,
             \* "reading", "nesting" a second read in it, "ready" with its
             \* read, "waiting" for the promise
  asks,      \* asks[c]: the lock it waits for to read, or "none"
  reads,     \* reads[c]: the locks it reads under, the outermost first
  gone,      \* how many reads lost to the current lock it has counted down
  queue,     \* write_queue: whose contexts
  stored,    \* contexts in which the outcome is stored
  answered,  \* contexts whose promise is fulfilled
  writer,    \* "top" of the loop, "lock" about to ask for the lock, "blocked"
             \* waiting for it, "renew" about to construct the next one,
             \* "visit", "answer", "next" in the inner loop, "ended"
  current,   \* cxt: nobody's until the first pop
  syncing,   \* is_syncing
  running,   \* running
  open,      \* the database is open
  stage,     \* 0 while the application runs, then which plugin is next
  asked      \* that plugin has told its threads to end and waits for them

locks == <<asks, reads, gone>>

vars == <<caller, queue, stored, answered, writer, current, syncing, running,
          open, stage, asked, locks>>

Order == IF WebFirst THEN <<"p2p", "chain", "web">> ELSE <<"web", "p2p", "chain">>

TypeOK ==
  /\ caller \in [Callers -> {"idle", "handling", "reading", "nesting", "ready", "waiting"}]
  /\ asks \in [Callers -> {"none", "now", "past"}]
  /\ reads \in [Callers -> SeqOf({"now", "past", "lost"}, 2)]
  /\ gone \in Nat
  /\ queue \in Seq(Callers) /\ Len(queue) <= Cardinality(Callers)
  /\ stored \subseteq Callers /\ answered \subseteq Callers
  /\ writer \in {"top", "lock", "blocked", "renew", "visit", "answer", "next", "ended"}
  /\ current \in Callers \cup {Nobody}
  /\ {syncing, running, open, asked} \subseteq BOOLEAN
  /\ stage \in 0 .. Len(Order) + 1

Init ==
  /\ caller = [c \in Callers |-> "idle"]
  /\ asks = [c \in Callers |-> "none"] /\ reads = [c \in Callers |-> << >>]
  /\ gone = 0
  /\ queue = << >> /\ stored = {} /\ answered = {}
  /\ writer = "top" /\ current = Nobody /\ syncing = TRUE
  /\ running = TRUE /\ open = TRUE /\ stage = 0 /\ asked = FALSE

------------------------------------------------------------------------------

(* The plugin p has told its threads to end, or is down already.           *)
Ending(p) ==
  \E i \in 1 .. Len(Order) : 
    /\ Order[i] = p
    /\ stage > i \/ (stage = i /\ asked)

(* A p2p handler begins while that plugin's running is set, a pool thread  *)
(* while its io_service is not stopped, the production loop while the main *)
(* thread is in the application's io_service.                              *)
Serves(c) ==
  \/ c = P2p /\ ~ Ending("p2p")
  \/ c \in Pool /\ ~ Ending("web")
  \/ c = Main /\ stage = 0

Handle(c) ==
  /\ caller[c] = "idle"
  /\ Serves(c)
  /\ caller' = [caller EXCEPT ![c] = "handling"]
  /\ UNCHANGED <<queue, stored, answered, writer, current, syncing, running,
                 open, stage, asked, locks>>

(* accept_block(), accept_transaction(), generate_block(): push, then wait. *)
Accept(c) ==
  /\ caller[c] \in {"handling", "ready"}
  /\ caller' = [caller EXCEPT ![c] = "waiting"]
  /\ queue' = Append(queue, c)
  /\ UNCHANGED <<stored, answered, writer, current, syncing, running, open,
                 stage, asked, locks>>

(* The handler ends without a write: the block is from the future, or the  *)
(* request only reads.                                                     *)
Refuse(c) ==
  /\ caller[c] \in {"handling", "ready"}
  /\ caller' = [caller EXCEPT ![c] = "idle"]
  /\ UNCHANGED <<queue, stored, answered, writer, current, syncing, running,
                 open, stage, asked, locks>>

(* The promise is fulfilled: the context goes with the caller's frame.     *)
Return(c) ==
  /\ caller[c] = "waiting"
  /\ c \in answered
  /\ caller' = [caller EXCEPT ![c] = "idle"]
  /\ stored' = stored \ {c} /\ answered' = answered \ {c}
  /\ UNCHANGED <<queue, writer, current, syncing, running, open, stage, asked, locks>>

------------------------------------------------------------------------------

Writing == writer \in {"visit", "answer", "next"}

unlocked == <<queue, stored, answered, writer, current, syncing, running, open,
              stage, asked>>

(* with_read_lock() asks for the lock that is current.                     *)
BeginRead(c) ==
  /\ c # Main
  /\ caller[c] = "handling"
  /\ caller' = [caller EXCEPT ![c] = "reading"]
  /\ asks' = [asks EXCEPT ![c] = "now"]
  /\ UNCHANGED <<unlocked, reads, gone>>

(* get_block_ids() and get_blockchain_synopsis() call is_included_block(), *)
(* which asks for the lock once more.                                      *)
NestRead(c) ==
  /\ c = P2p
  /\ caller[c] = "reading" /\ asks[c] = "none"
  /\ caller' = [caller EXCEPT ![c] = "nesting"]
  /\ asks' = [asks EXCEPT ![c] = "now"]
  /\ UNCHANGED <<unlocked, reads, gone>>

(* The reads under a lock, each as its reader and how deep it is.          *)
Under(m) ==
  {x \in Callers \X {1, 2} : x[2] <= Len(reads[x[1]]) /\ reads[x[1]][x[2]] = m}

(* num_shared of the current lock, which wraps below 0.                    *)
Shared == Cardinality(Under("now")) - gone

(* A read is kept waiting by a writer, also by one that only waits, and by *)
(* a count of readers that has gone from 0 to its limit.                   *)
Blocked(c) == asks[c] = "now" /\ (Writing \/ writer = "blocked" \/ Shared = -1)

EnterRead(c) ==
  /\ asks[c] # "none" /\ ~ Blocked(c)
  /\ reads' = [reads EXCEPT ![c] = Append(@, asks[c])]
  /\ asks' = [asks EXCEPT ![c] = "none"]
  /\ UNCHANGED <<caller, gone, unlocked>>

(* Mutant: a read waits without a limit.                                   *)
ReadWaits(c) == FALSE /\ UNCHANGED vars

(* The read has waited for a second: lock_exception ends the handler and   *)
(* the read around it.                                                     *)
ReadTimesOut(c) ==
  /\ Blocked(c)
  /\ reads' = [reads EXCEPT ![c] = << >>]
  /\ gone' = gone + Cardinality({i \in DOMAIN reads[c] : reads[c][i] = "lost"})
  /\ asks' = [asks EXCEPT ![c] = "none"]
  /\ caller' = [caller EXCEPT ![c] = "idle"]
  /\ UNCHANGED unlocked

EndRead(c) ==
  /\ reads[c] # << >> /\ asks[c] = "none"
  /\ reads' = [reads EXCEPT ![c] = Front(@)]
  /\ gone' = IF Last(reads[c]) = "lost" THEN gone + 1 ELSE gone
  /\ caller' = [caller EXCEPT ![c] = IF Len(reads[c]) = 1 THEN "ready" ELSE @]
  /\ UNCHANGED <<asks, unlocked>>

Read(c) == NestRead(c) \/ EnterRead(c) \/ ReadTimesOut(c) \/ EndRead(c)

------------------------------------------------------------------------------

Pop ==
  /\ queue # << >>
  /\ current' = Head(queue) /\ queue' = Tail(queue)

(* The outer loop: running is read once per round.                         *)
Take ==
  /\ writer = "top" /\ running
  /\ Pop
  /\ writer' = "lock"
  /\ UNCHANGED <<caller, stored, answered, syncing, running, open, stage, asked, locks>>

Quit ==
  /\ writer = "top" /\ ~ running
  /\ writer' = "ended"
  /\ UNCHANGED <<caller, queue, stored, answered, current, syncing, running,
                 open, stage, asked, locks>>

unwritten == <<caller, queue, stored, answered, current, syncing, running, open,
               stage, asked>>

(* with_write_lock(): the lock is had at once, or after waiting for it.    *)
Lock ==
  /\ writer \in {"lock", "blocked"}
  /\ Shared = 0
  /\ writer' = "visit"
  /\ UNCHANGED <<unwritten, locks>>

Block ==
  /\ writer = "lock"
  /\ Shared # 0
  /\ writer' = "blocked"
  /\ UNCHANGED <<unwritten, locks>>

(* Mutant: when the time is up the writer goes on without a lock.          *)
WriteAnyway ==
  /\ writer = "blocked"
  /\ Shared # 0
  /\ writer' = "visit"
  /\ UNCHANGED <<unwritten, locks>>

(* The time is up: next_lock() makes another lock the current one ...      *)
NextLock ==
  /\ writer = "blocked"
  /\ Shared # 0
  /\ writer' = "renew"
  /\ asks' = [c \in Callers |-> IF asks[c] = "now" THEN "past" ELSE asks[c]]
  /\ reads' = [c \in Callers |-> [i \in DOMAIN reads[c] |-> "past"]]
  /\ gone' = 0
  /\ UNCHANGED unwritten

(* ... and constructs it anew, with nobody under it.                       *)
RenewLock ==
  /\ writer = "renew"
  /\ writer' = "lock"
  /\ reads' = [c \in Callers |->
                [i \in DOMAIN reads[c] |-> IF reads[c][i] = "now" THEN "lost" ELSE reads[c][i]]]
  /\ UNCHANGED <<asks, gone, unwritten>>

(* The request's outcome or exception goes into the context.               *)
Visit ==
  /\ writer = "visit"
  /\ stored' = stored \cup {current}
  /\ writer' = "answer"
  /\ UNCHANGED <<caller, queue, answered, current, syncing, running, open, stage,
                 asked, locks>>

(* The promise is fulfilled; the head block may now be recent enough for   *)
(* live mode.                                                              *)
Answer ==
  /\ writer = "answer"
  /\ answered' = answered \cup {current}
  /\ writer' = "next"
  /\ syncing' \in {syncing, FALSE}
  /\ UNCHANGED <<caller, queue, stored, current, running, open, stage, asked, locks>>

(* Mutant: the next context is popped before the time is looked at.        *)
ReleasePopped ==
  /\ writer = "next"
  /\ \/ ~ syncing /\ queue # << >> /\ queue' = Tail(queue)
     \/ queue = << >> /\ UNCHANGED queue
  /\ writer' = "top"
  /\ UNCHANGED <<caller, stored, answered, current, syncing, running, open,
                 stage, asked, locks>>

(* The inner loop gives the lock back: in live mode when its time is up,   *)
(* and when the queue is empty.                                            *)
Release ==
  /\ writer = "next"
  /\ ~ syncing \/ queue = << >>
  /\ writer' = "top"
  /\ UNCHANGED <<caller, queue, stored, answered, current, syncing, running,
                 open, stage, asked, locks>>

TakeNext ==
  /\ writer = "next"
  /\ Pop
  /\ writer' = "visit"
  /\ UNCHANGED <<caller, stored, answered, syncing, running, open, stage, asked, locks>>

------------------------------------------------------------------------------

(* exec() leaves the io_service, then shutdown() begins.                   *)
Shutdown ==
  /\ stage = 0
  /\ caller[Main] = "idle"
  /\ stage' = 1
  /\ UNCHANGED <<caller, queue, stored, answered, writer, current, syncing,
                 running, open, asked, locks>>

(* Mutant: the writer thread is not told to end.                           *)
AskNot ==
  /\ stage \in 1 .. Len(Order) /\ ~ asked
  /\ asked' = TRUE
  /\ UNCHANGED <<caller, queue, stored, answered, writer, current, syncing,
                 running, open, stage, locks>>

(* plugin_shutdown() of the next plugin tells its threads to end.  The     *)
(* p2p plugin's wait for active handlers leaves at once unless a block and *)
(* a transaction are being handled, which one thread never does.           *)
Ask ==
  /\ stage \in 1 .. Len(Order) /\ ~ asked
  /\ asked' = TRUE
  /\ running' = (running /\ Order[stage] # "chain")
  /\ UNCHANGED <<caller, queue, stored, answered, writer, current, syncing,
                 open, stage, locks>>

Ended(p) ==
  \/ p = "p2p" /\ caller[P2p] = "idle"
  \/ p = "web" /\ \A c \in Pool : caller[c] = "idle"
  \/ p = "chain" /\ writer = "ended"

(* It waits for them; the chain plugin closes the database.                *)
Join ==
  /\ stage \in 1 .. Len(Order) /\ asked
  /\ Ended(Order[stage])
  /\ open' = (open /\ Order[stage] # "chain")
  /\ stage' = stage + 1 /\ asked' = FALSE
  /\ UNCHANGED <<caller, queue, stored, answered, writer, current, syncing,
                 running, locks>>

Write ==
  \/ Take \/ Quit \/ Visit \/ Answer \/ Release \/ TakeNext
  \/ Lock \/ Block \/ NextLock \/ RenewLock

Next ==
  \/ \E c \in Callers :
       \/ Handle(c) \/ Accept(c) \/ Refuse(c) \/ Return(c)
       \/ BeginRead(c) \/ Read(c)
  \/ Write
  \/ Shutdown \/ Ask \/ Join

(* Threads that have work run on; when messages come in and when the node  *)
(* is stopped is left open.  Between next_lock() and asking for that lock  *)
(* are a few instructions, and a second before that: no reader gets in     *)
(* there every time.                                                       *)
Spec ==
  /\ Init /\ [][Next]_vars
  /\ WF_vars(Write) /\ SF_vars(Lock)
  /\ \A c \in Callers : WF_vars(Accept(c) \/ Refuse(c) \/ Return(c) \/ Read(c))
  /\ WF_vars(Ask \/ Join)

------------------------------------------------------------------------------

(* The writer never follows a pointer into a frame that is gone: whatever  *)
(* is queued or being worked on belongs to a caller that still waits for   *)
(* it, and is there once.                                                  *)
ContextsAlive ==
  /\ IsInjective(queue)
  /\ \A c \in Range(queue) : caller[c] = "waiting" /\ c \notin stored
  /\ writer \in {"visit", "answer"} =>
       caller[current] = "waiting" /\ current \notin Range(queue)

(* A caller that is let go finds the outcome of its own request.           *)
OutcomeStored == answered \subseteq stored

(* Nothing is written to the database after close(), and no caller is left *)
(* whose request could still be.                                           *)
ClosedIsQuiet ==
  ~ open => writer = "ended" /\ queue = << >> /\ \A c \in Callers : caller[c] = "idle"

(* A write goes on beside a read under the lock that is current only when  *)
(* that lock was wiped under some reader: each read that took the lock in  *)
(* the middle of next_lock() gives back a lock it no longer has, and lets  *)
(* at most one more read be overrun.  Reads that asked before the writer   *)
(* moved on, and lost ones, see a write half done.                         *)
WriteAlone == Writing => Cardinality(Under("now")) <= gone

(* The queue hands nothing to the writer that is gone, lets nobody go      *)
(* before the outcome is stored, keeps writes apart from the reads under a *)
(* lock that was whole, and is empty when the database is closed.          *)
QueueSound ==
  /\ TypeOK
  /\ ContextsAlive
  /\ OutcomeStored
  /\ ClosedIsQuiet
  /\ WriteAlone

(* Every read ends, by its own end or by lock_exception, be there a write  *)
(* that never gives the lock back because the node syncs, or a writer that *)
(* waits for the very thread that asks for the lock once more.             *)
ReadsEnd == \A c \in Callers : caller[c] \in {"reading", "nesting"} ~> caller[c] \in {"ready", "idle"}

(* Every caller learns the outcome of its request.                         *)
CallersAnswered == \A c \in Callers : caller[c] = "waiting" ~> caller[c] = "idle"

(* A shutdown that has begun ends.                                         *)
ShutdownEnds == stage = 1 ~> stage = Len(Order) + 1
==============================================================================
