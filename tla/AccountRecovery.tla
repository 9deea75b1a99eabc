--------------------------- MODULE AccountRecovery ---------------------------
(***************************************************************************)
(* How the owner authority of an account is replaced and how a stolen      *)
(* account is taken back: account_update, request_account_recovery,        *)
(* recover_account, change_recovery_account and                            *)
(* account_recovery_processing() at the end of a block.                    *)
(*                                                                         *)
(* One account; the objects of different accounts do not meet.  Who signs  *)
(* is left open: the holder and whoever stole a key can do the same        *)
(* things, so the properties are about what any sequence of operations     *)
(* can do.  The first block, which keeps no history, is over.              *)
(***************************************************************************)
EXTENDS Integers, Sequences, FiniteSets, SequencesExt

CONSTANTS
  Key,            \* owner authorities that are neither open nor impossible
  Open,           \* the open authority, of weight_threshold 0
  Account,        \* accounts that may be the recovery account
  NONE,           \* no account, no request
  RecoveryPeriod, \* ZATTERA_OWNER_AUTH_RECOVERY_PERIOD
  RequestPeriod,  \* ZATTERA_ACCOUNT_RECOVERY_REQUEST_EXPIRATION_PERIOD
  UpdateLimit,    \* ZATTERA_OWNER_UPDATE_LIMIT
  MaxTime         \* bound: blocks

ASSUME RecoveryAssumption ==
  /\ Open \notin Key /\ NONE \notin Account
  /\ {RecoveryPeriod, RequestPeriod, MaxTime} \subseteq Nat \ {0}
  /\ UpdateLimit \in Nat

VARIABLES
  now,           \* head_block_time()
  owner,         \* the owner authority
  updated,       \* last_owner_update
  recovered,     \* last_account_recovery
  history,       \* the owner_authority_history_objects, by id: the
                 \* previous authority and last_valid_time
  recovery,      \* recovery_account
  top,           \* the witness with the most votes
  request,       \* the account_recovery_request_object
  change,        \* the change_recovery_account_request_object
  losses,        \* history variable: the losses of ownership, with the
                 \* key, the time and the recovery account, that happened
                 \* while no change of the recovery account was pending
  announced,     \* history variable: when and for whom the last
                 \* change_recovery_account was
  endorsed       \* history variable: the recovery account has endorsed an
                 \* authority since the last recovery

vars == <<now, owner, updated, recovered, history, recovery, top, request, change,
          losses, announced, endorsed>>

TypeOK ==
  /\ now \in 0 .. MaxTime
  /\ owner \in Key
  /\ updated \in Int /\ recovered \in Int
  /\ history \in Seq([key : Key, time : Nat])
  /\ recovery \in Account \cup {NONE} /\ top \in Account
  /\ request \in [key : Key, expires : Nat] \cup {NONE}
  /\ change \in [account : Account, on : Nat] \cup {NONE}

(* An account as create_account leaves it: created by an ordinary account  *)
(* or, without a recovery account, by the one anybody can use.             *)
Init ==
  /\ now = 0
  /\ owner \in Key
  /\ updated = -UpdateLimit - 1 /\ recovered = -UpdateLimit - 1
  /\ history = <<>>
  /\ recovery \in Account \cup {NONE} /\ top \in Account
  /\ request = NONE /\ change = NONE
  /\ losses = {} /\ announced = NONE
  /\ endorsed = FALSE

------------------------------------------------------------------------------

(* update_owner_authority(). *)
UpdateOwner(k) ==
  /\ history' = Append(history, [key |-> owner, time |-> now])
  /\ owner' = k
  /\ updated' = now
  /\ losses' = losses \cup (IF change = NONE
                            THEN {[key |-> owner, time |-> now, recovery |-> recovery]}
                            ELSE {})

(* account_update with a new owner authority. *)
AccountUpdate(k) ==
  /\ now - updated > UpdateLimit
  /\ UpdateOwner(k)
  /\ UNCHANGED <<now, recovered, recovery, top, request, change, announced,
                 endorsed>>

(* request_account_recovery by account a. *)
RequestRecovery(a, k) ==
  /\ a = IF recovery = NONE THEN top ELSE recovery
  /\ request = NONE => k # Open
  /\ IF k = Open
     THEN request' = NONE /\ endorsed' = FALSE
     ELSE /\ request' = [key |-> k, expires |-> now + RequestPeriod]
          /\ endorsed' = TRUE
  /\ UNCHANGED <<now, owner, updated, recovered, history, recovery, top, change,
                 losses, announced>>

(* Mutant: the request stays. *)
RecoverAccountAgain(k, recent) ==
  /\ now - recovered > UpdateLimit
  /\ request # NONE /\ request.key = k
  /\ k # recent /\ \E i \in DOMAIN history : history[i].key = recent
  /\ UpdateOwner(k)
  /\ recovered' = now
  /\ endorsed' = FALSE
  /\ UNCHANGED <<now, recovery, top, request, change, announced>>

(* recover_account, signed with the new and a recent authority. *)
RecoverAccount(k, recent) ==
  /\ now - recovered > UpdateLimit
  /\ request # NONE /\ request.key = k
  /\ k # recent /\ \E i \in DOMAIN history : history[i].key = recent
  /\ request' = NONE
  /\ UpdateOwner(k)
  /\ recovered' = now
  /\ endorsed' = FALSE
  /\ UNCHANGED <<now, recovery, top, change, announced>>

(* Mutant: a change of a request does not start its time again. *)
ChangeRecoveryKeepsDate(a) ==
  /\ change' = IF change = NONE THEN [account |-> a, on |-> now + RecoveryPeriod]
               ELSE IF a # recovery THEN [change EXCEPT !.account = a] ELSE NONE
  /\ announced' = [account |-> a, time |-> now]
  /\ UNCHANGED <<now, owner, updated, recovered, history, recovery, top, request,
                 losses, endorsed>>

(* change_recovery_account: a new request, a change of it, or, back to the *)
(* present recovery account, its end.                                      *)
ChangeRecovery(a) ==
  /\ change' = IF change = NONE \/ a # recovery
               THEN [account |-> a, on |-> now + RecoveryPeriod]
               ELSE NONE
  /\ announced' = [account |-> a, time |-> now]
  /\ UNCHANGED <<now, owner, updated, recovered, history, recovery, top, request,
                 losses, endorsed>>

(* Mutant: an authority is forgotten when the period is over, not after.   *)
ForgottenEarly(h, t) == h.time + RecoveryPeriod <= t

(* The test by which old authorities are removed from the history. *)
Forgotten(h, t) == h.time + RecoveryPeriod < t

(* Removes from the front, until one stays. *)
Remembered(t) ==
  LET stays == {i \in DOMAIN history : ~Forgotten(history[i], t)}
  IN  IF stays = {} THEN <<>>
      ELSE SubSeq(history, CHOOSE i \in stays : \A j \in stays : i <= j, Len(history))

StillOpen(t) == request # NONE /\ request.expires > t

(* A block; account_recovery_processing() at its end.  The votes for       *)
(* witnesses change.                                                       *)
Block ==
  /\ now < MaxTime
  /\ now' = now + 1
  /\ top' \in Account
  /\ request' = IF StillOpen(now') THEN request ELSE NONE
  /\ history' = Remembered(now')
  /\ IF change # NONE /\ change.on <= now'
     THEN recovery' = change.account /\ change' = NONE
     ELSE UNCHANGED <<recovery, change>>
  /\ losses' = {l \in losses : l.time + RecoveryPeriod >= now'}
  /\ UNCHANGED <<owner, updated, recovered, announced, endorsed>>

Next ==
  \/ \E k \in Key : AccountUpdate(k)
  \/ \E a \in Account, k \in Key \cup {Open} : RequestRecovery(a, k)
  \/ \E k, recent \in Key : RecoverAccount(k, recent)
  \/ \E a \in Account : ChangeRecovery(a)
  \/ Block

Spec == Init /\ [][Next]_vars

------------------------------------------------------------------------------

(* Whoever loses the owner authority while no change of the recovery       *)
(* account is pending can come back for a whole recovery period, whatever  *)
(* the new owner does: the old authority still counts, and the recovery    *)
(* account is the one it was.  At the end of the period the authority      *)
(* still counts, but a change requested at the time of the loss is in      *)
(* force by then.                                                          *)
HolderCanReturn ==
  \A l \in losses :
    /\ \E i \in DOMAIN history : history[i].key = l.key
    /\ now < l.time + RecoveryPeriod => recovery = l.recovery

(* The recovery account only changes to one that was announced a whole     *)
(* period before, in the last change that was asked for.                   *)
ChangesAnnounced ==
  [][recovery' # recovery =>
       /\ announced.account = recovery'
       /\ announced.time + RecoveryPeriod <= now']_vars

(* An endorsement by the recovery account serves one recovery: what is     *)
(* left to be used was endorsed after the last one and not withdrawn.      *)
EndorsedOnce == request # NONE => endorsed

(* Nothing is left that is over: a request that expired, a change that is  *)
(* due, an authority from before the recovery period.                      *)
NothingStale ==
  /\ request # NONE => request.expires > now
  /\ change # NONE => change.on > now
  /\ \A i \in DOMAIN history : history[i].time + RecoveryPeriod >= now

(* Requests, changes and old authorities are there only while they may be  *)
(* used, and a request only as long as its endorsement was not used.       *)
NothingLeftOver ==
  /\ TypeOK
  /\ EndorsedOnce
  /\ NothingStale
==============================================================================
