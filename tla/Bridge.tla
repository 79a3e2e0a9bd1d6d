------------------------------- MODULE Bridge -------------------------------
(***************************************************************************)
(* The SPEX bridge: the HTTP server of crates/spex-bridge that stores      *)
(* contact cards, slots and inbox items in one SQLite database.            *)
(*                                                                         *)
(* A PUT handler is an async function that runs several database tasks     *)
(* one after the other.  Nothing holds a transaction across two of them,   *)
(* so every SQL statement is a step of its own and the steps of concurrent *)
(* handlers interleave.  A handler may stop between any two steps: a       *)
(* storage error, a client that disconnects, or a crash of the process.    *)
(*                                                                         *)
(* Hashes are ideal (HashOf is injective), a signature or a puzzle output  *)
(* either verifies or not, and the proof of work a request carries is the  *)
(* number of difficulty steps its parameters reach above the base.         *)
(***************************************************************************)
EXTENDS Integers, FiniteSets, Sequences

CONSTANTS
    Handlers,       \* concurrent PUT handlers
    Users,          \* identities derived from a well-formed grant user_id
    Unknown,        \* the identity "unknown" of put_slot
    Keys,           \* card hashes, slot ids and inbox keys of request paths
    Data,           \* request bodies
    Size,           \* Size[d]: length of d in bytes
    HashOf,         \* HashOf[d]: hex SHA-256 of d
    Requests,       \* the PUT requests clients may send
    None,           \* an absent option, an empty table cell
    Malformed       \* a field that does not decode

CONSTANTS           \* RateLimitConfig and the other limits of the bridge
    Window, MaxRequests, MaxBytes, StepRequests, StepBytes, RepStep,
    MaxScore, MaxDebt, DefaultTtl, MaxTtl, MaxItemBytes,
    MaxBody         \* the largest body the HTTP server passes on

CONSTANTS           \* bounds of the model
    MaxTime, MaxLogs, MaxItems

Kinds == {"card", "slot", "inbox"}

Tables == {"card", "slot"}

Identities == Users \cup {Unknown}

Outcomes == {"accepted", "rejected"}

(* StorageRequest and InboxStoreRequest; user, expires_at and signed are   *)
(* the grant, work and solved the puzzle.                                  *)
RequestSet ==
    [kind: Kinds, key: Keys, data: Data \cup {Malformed},
     user: Users \cup {Malformed}, expires_at: Nat \cup {None},
     signed: BOOLEAN, work: Int, solved: BOOLEAN, ttl: Nat \cup {None}]

ASSUME BridgeAssumption ==
    /\ IsFiniteSet(Handlers)
    /\ Unknown \notin Users
    /\ Malformed \notin Users \cup Data
    /\ None \notin Data \cup Nat \cup Requests \cup Outcomes
    /\ Size \in [Data -> 0 .. MaxBody]
    /\ HashOf \in [Data -> Keys]
    /\ \A d, e \in Data : HashOf[d] = HashOf[e] => d = e
    /\ Requests \subseteq RequestSet

ASSUME LimitAssumption ==
    /\ {Window, MaxBytes, MaxTtl, DefaultTtl, MaxItemBytes, MaxBody} \subseteq Nat
    /\ {MaxRequests, StepRequests, StepBytes, RepStep} \subseteq Nat \ {0}
    /\ {MaxScore, MaxDebt} \subseteq Nat
    /\ {MaxTime, MaxLogs, MaxItems} \subseteq Nat

VARIABLES
    clock,          \* state.clock.now()
    entries,        \* tables cards and slots: entries[table][key]
    inbox_keys,     \* table inbox_keys
    inbox_items,    \* table inbox_items, a row's id is its position
    request_logs,   \* table request_logs, in insertion order
    reputation,     \* table identity_reputation, 0 where there is no row
    pc,             \* the next step of each handler
    req,            \* the request it serves
    now,            \* its local variable now
    snapshot,       \* its RateLimitSnapshot
    outcome,        \* the RequestOutcome it is about to record
    current,        \* the score update_reputation has read
    acked           \* requests some client saw answered with 204

db == <<entries, inbox_keys, inbox_items, request_logs, reputation>>

locals == <<req, now, snapshot, outcome, current>>

vars == <<clock, entries, inbox_keys, inbox_items, request_logs, reputation,
          pc, req, now, snapshot, outcome, current, acked>>

Resting == {"idle", "answered"}

Steps == {"volume", "standing", "validate", "store", "store_item", "log",
          "read_score", "write_score"}

NoSnapshot == [recent_requests |-> 0, recent_bytes |-> 0, reputation_score |-> 0]

Init ==
    /\ clock = 0
    /\ entries = [t \in Tables |-> [k \in Keys |-> None]]
    /\ inbox_keys = {}
    /\ inbox_items = <<>>
    /\ request_logs = <<>>
    /\ reputation = [i \in Identities |-> 0]
    /\ pc = [h \in Handlers |-> "idle"]
    /\ req = [h \in Handlers |-> None]
    /\ now = [h \in Handlers |-> 0]
    /\ snapshot = [h \in Handlers |-> NoSnapshot]
    /\ outcome = [h \in Handlers |-> None]
    /\ current = [h \in Handlers |-> 0]
    /\ acked = {}

-----------------------------------------------------------------------------
(* Validation.                                                             *)

(* identity_from_grant, with the fallback put_slot gives it.               *)
Identity(r) == IF r.user = Malformed THEN Unknown ELSE r.user

(* validate_grant: well formed, not expired at time t, signed.             *)
GrantValid(r, t) ==
    /\ r.user # Malformed
    /\ r.expires_at = None \/ r.expires_at > t
    /\ r.signed

(* Rows of the identity that fall in the window ending at time t.          *)
Recent(i, t) ==
    LET start == IF t >= Window THEN t - Window ELSE 0
    IN  {n \in DOMAIN request_logs :
            /\ request_logs[n].identity = i
            /\ request_logs[n].timestamp >= start}

(* SUM(bytes) over rows, as the size of the disjoint union of their bytes. *)
ByteSet(rows) == {p \in rows \X (1 .. MaxBody) : p[2] <= request_logs[p[1]].bytes}

TotalBytes(rows) == Cardinality(ByteSet(rows))

(* Variants of this name, here and below, each hold one mistake the        *)
(* properties must detect: a comparison off by one, a body not counted.    *)
WithinLimits_OffByOne(s, bytes) ==
    /\ s.recent_requests <= MaxRequests
    /\ s.recent_bytes + bytes <= MaxBytes

WithinLimits_BodyNotCounted(s, bytes) ==
    /\ s.recent_requests + 1 <= MaxRequests
    /\ s.recent_bytes <= MaxBytes

(* enforce_rate_limits.                                                    *)
WithinLimits(s, bytes) ==
    /\ s.recent_requests + 1 <= MaxRequests
    /\ s.recent_bytes + bytes <= MaxBytes

RequiredWork_BytesOnly(s) ==
    LET volume == s.recent_bytes \div StepBytes
        bonus == IF s.reputation_score > 0 THEN s.reputation_score \div RepStep ELSE 0
    IN  IF volume > bonus THEN volume - bonus ELSE 0

(* required_pow_params: difficulty steps above the base parameters.        *)
RequiredWork(s) ==
    LET volume == IF s.recent_requests \div StepRequests >= s.recent_bytes \div StepBytes
                  THEN s.recent_requests \div StepRequests
                  ELSE s.recent_bytes \div StepBytes
        bonus == IF s.reputation_score > 0 THEN s.reputation_score \div RepStep ELSE 0
    IN  IF volume > bonus THEN volume - bonus ELSE 0

(* validate_puzzle.                                                        *)
PuzzleValid(r, s) == r.work >= RequiredWork(s) /\ r.solved

Ttl(r) == IF r.ttl = None THEN DefaultTtl ELSE r.ttl

Passes_HashNotChecked(r, s, t) ==
    /\ WithinLimits(s, Size[r.data])
    /\ r.kind = "slot" \/ GrantValid(r, t)
    /\ PuzzleValid(r, s)
    /\ r.kind = "inbox" => Size[r.data] <= MaxItemBytes /\ Ttl(r) \in 1 .. MaxTtl

(* The closure each handler runs in spawn_blocking.  put_slot has checked  *)
(* the grant before; put_inbox checks size and ttl and not the hash.       *)
Passes(r, s, t) ==
    /\ WithinLimits(s, Size[r.data])
    /\ r.kind = "slot" \/ GrantValid(r, t)
    /\ PuzzleValid(r, s)
    /\ IF r.kind = "inbox"
       THEN Size[r.data] <= MaxItemBytes /\ Ttl(r) \in 1 .. MaxTtl
       ELSE HashOf[r.data] = r.key

-----------------------------------------------------------------------------
(* The handlers put_card, put_slot and put_inbox.                          *)

(* A handler that ends drops its locals.                                   *)
Release(h) ==
    /\ pc' = [pc EXCEPT ![h] = "answered"]
    /\ req' = [req EXCEPT ![h] = None]
    /\ now' = [now EXCEPT ![h] = 0]
    /\ snapshot' = [snapshot EXCEPT ![h] = NoSnapshot]
    /\ outcome' = [outcome EXCEPT ![h] = None]
    /\ current' = [current EXCEPT ![h] = 0]

(* The request is dropped before anything is read or written.              *)
RefuseUnparsed(h, r) ==
    /\ r.data = Malformed \/ (r.user = Malformed /\ r.kind # "slot")
    /\ pc' = [pc EXCEPT ![h] = "answered"]
    /\ UNCHANGED <<req, now, outcome>>

(* put_card and put_inbox start with the rate-limit snapshot.              *)
StartPut(h, r) ==
    /\ r.data # Malformed /\ r.user # Malformed /\ r.kind # "slot"
    /\ pc' = [pc EXCEPT ![h] = "volume"]
    /\ req' = [req EXCEPT ![h] = r]
    /\ now' = [now EXCEPT ![h] = clock]
    /\ UNCHANGED outcome

StartSlot_GrantNotChecked(h, r) ==
    /\ r.data # Malformed /\ r.kind = "slot"
    /\ req' = [req EXCEPT ![h] = r]
    /\ now' = [now EXCEPT ![h] = clock]
    /\ pc' = [pc EXCEPT ![h] = "volume"]
    /\ UNCHANGED outcome

(* put_slot checks the grant first and records a refusal at once.          *)
StartSlot(h, r) ==
    /\ r.data # Malformed /\ r.kind = "slot"
    /\ req' = [req EXCEPT ![h] = r]
    /\ now' = [now EXCEPT ![h] = clock]
    /\ IF GrantValid(r, clock)
       THEN pc' = [pc EXCEPT ![h] = "volume"] /\ UNCHANGED outcome
       ELSE pc' = [pc EXCEPT ![h] = "log"] /\ outcome' = [outcome EXCEPT ![h] = "rejected"]

Receive(h) ==
    /\ pc[h] \in Resting
    /\ Len(request_logs) < MaxLogs /\ Len(inbox_items) < MaxItems
    /\ \E r \in Requests : RefuseUnparsed(h, r) \/ StartPut(h, r) \/ StartSlot(h, r)
    /\ UNCHANGED <<clock, db, snapshot, current, acked>>

(* load_rate_limit_snapshot, its first SELECT.                             *)
LoadVolume(h) ==
    /\ pc[h] = "volume"
    /\ LET rows == Recent(Identity(req[h]), now[h])
       IN  snapshot' = [snapshot EXCEPT
               ![h] = [recent_requests |-> Cardinality(rows),
                       recent_bytes |-> TotalBytes(rows),
                       reputation_score |-> 0]]
    /\ pc' = [pc EXCEPT ![h] = "standing"]
    /\ UNCHANGED <<clock, db, req, now, outcome, current, acked>>

(* load_rate_limit_snapshot, its second SELECT.                            *)
LoadStanding(h) ==
    /\ pc[h] = "standing"
    /\ snapshot' = [snapshot EXCEPT ![h].reputation_score = reputation[Identity(req[h])]]
    /\ pc' = [pc EXCEPT ![h] = "validate"]
    /\ UNCHANGED <<clock, db, req, now, outcome, current, acked>>

Validate_StoreSkipped(h) ==
    /\ pc[h] = "validate"
    /\ outcome' = [outcome EXCEPT
                     ![h] = IF Passes(req[h], snapshot[h], clock) THEN "accepted" ELSE "rejected"]
    /\ pc' = [pc EXCEPT ![h] = "log"]
    /\ snapshot' = [snapshot EXCEPT ![h] = NoSnapshot]
    /\ UNCHANGED <<clock, db, req, now, current, acked>>

(* The blocking validation; the clock is read again for the grant, and the *)
(* snapshot is dropped with the closure it was moved into.                 *)
Validate(h) ==
    /\ pc[h] = "validate"
    /\ IF Passes(req[h], snapshot[h], clock)
       THEN /\ outcome' = [outcome EXCEPT ![h] = "accepted"]
            /\ pc' = [pc EXCEPT ![h] = "store"]
       ELSE /\ outcome' = [outcome EXCEPT ![h] = "rejected"]
            /\ pc' = [pc EXCEPT ![h] = "log"]
    /\ snapshot' = [snapshot EXCEPT ![h] = NoSnapshot]
    /\ UNCHANGED <<clock, db, req, now, current, acked>>

(* store_entry: upsert into cards or slots.                                *)
StoreEntry(h) ==
    /\ pc[h] = "store" /\ req[h].kind \in Tables
    /\ entries' = [entries EXCEPT ![req[h].kind][req[h].key] = req[h].data]
    /\ pc' = [pc EXCEPT ![h] = "log"]
    /\ UNCHANGED <<clock, inbox_keys, inbox_items, request_logs, reputation, locals, acked>>

StoreInboxKey_Omitted(h) ==
    /\ pc[h] = "store" /\ req[h].kind = "inbox"
    /\ pc' = [pc EXCEPT ![h] = "store_item"]
    /\ UNCHANGED <<clock, db, locals, acked>>

(* store_inbox_item, INSERT OR IGNORE INTO inbox_keys.                     *)
StoreInboxKey(h) ==
    /\ pc[h] = "store" /\ req[h].kind = "inbox"
    /\ inbox_keys' = inbox_keys \cup {req[h].key}
    /\ pc' = [pc EXCEPT ![h] = "store_item"]
    /\ UNCHANGED <<clock, entries, inbox_items, request_logs, reputation, locals, acked>>

(* store_inbox_item, INSERT INTO inbox_items.                              *)
StoreInboxItem(h) ==
    /\ pc[h] = "store_item"
    /\ inbox_items' = Append(inbox_items,
                             [inbox_key |-> req[h].key, item |-> req[h].data,
                              expires_at |-> now[h] + Ttl(req[h])])
    /\ pc' = [pc EXCEPT ![h] = "log"]
    /\ UNCHANGED <<clock, entries, inbox_keys, request_logs, reputation, locals, acked>>

(* The request_logs row of a handler.  work is not a column: it is kept    *)
(* for the property on the adaptive difficulty.                            *)
LogRow(h) ==
    [timestamp |-> now[h], identity |-> Identity(req[h]),
     slot_id |-> IF req[h].kind = "slot" THEN req[h].key ELSE None,
     bytes |-> Size[req[h].data], request_kind |-> req[h].kind,
     outcome |-> outcome[h], work |-> req[h].work]

RecordLog(h) ==
    /\ pc[h] = "log"
    /\ request_logs' = Append(request_logs, LogRow(h))
    /\ pc' = [pc EXCEPT ![h] = "read_score"]
    /\ UNCHANGED <<clock, entries, inbox_keys, inbox_items, reputation, locals, acked>>

(* update_reputation, its SELECT.                                          *)
ReadScore(h) ==
    /\ pc[h] = "read_score"
    /\ current' = [current EXCEPT ![h] = reputation[Identity(req[h])]]
    /\ pc' = [pc EXCEPT ![h] = "write_score"]
    /\ UNCHANGED <<clock, db, req, now, snapshot, outcome, acked>>

NextScore_Swapped(score, result) ==
    IF result = "rejected"
    THEN IF score + 1 <= MaxScore THEN score + 1 ELSE MaxScore
    ELSE IF score - 1 >= -MaxDebt THEN score - 1 ELSE -MaxDebt

NextScore(score, result) ==
    IF result = "accepted"
    THEN IF score + 1 <= MaxScore THEN score + 1 ELSE MaxScore
    ELSE IF score - 1 >= -MaxDebt THEN score - 1 ELSE -MaxDebt

(* update_reputation, its upsert; then the answer: 204 or the error.       *)
WriteScore(h) ==
    /\ pc[h] = "write_score"
    /\ reputation' = [reputation EXCEPT
                        ![Identity(req[h])] = NextScore(current[h], outcome[h])]
    /\ acked' = IF outcome[h] = "accepted" THEN acked \cup {req[h]} ELSE acked
    /\ Release(h)
    /\ UNCHANGED <<clock, entries, inbox_keys, inbox_items, request_logs>>

(* A storage error (answered with 500) or a client that disconnected.      *)
Abort(h) ==
    /\ pc[h] \in Steps
    /\ Release(h)
    /\ UNCHANGED <<clock, db, acked>>

(* The process stops and is started again on the same database.            *)
Restart ==
    /\ pc' = [h \in Handlers |-> "idle"]
    /\ req' = [h \in Handlers |-> None]
    /\ now' = [h \in Handlers |-> 0]
    /\ snapshot' = [h \in Handlers |-> NoSnapshot]
    /\ outcome' = [h \in Handlers |-> None]
    /\ current' = [h \in Handlers |-> 0]
    /\ UNCHANGED <<clock, db, acked>>

Tick ==
    /\ clock < MaxTime
    /\ clock' = clock + 1
    /\ UNCHANGED <<db, pc, locals, acked>>

HandlerStep(h) ==
    \/ LoadVolume(h) \/ LoadStanding(h) \/ Validate(h)
    \/ StoreEntry(h) \/ StoreInboxKey(h) \/ StoreInboxItem(h)
    \/ RecordLog(h) \/ ReadScore(h) \/ WriteScore(h)

Next ==
    \/ \E h \in Handlers : Receive(h) \/ HandlerStep(h) \/ Abort(h)
    \/ Restart
    \/ Tick

Spec == Init /\ [][Next]_vars

-----------------------------------------------------------------------------
(* What the bridge guarantees.                                             *)

SnapshotSet == [recent_requests: Nat, recent_bytes: Nat, reputation_score: Int]

RowSet ==
    [timestamp: Nat, identity: Identities, slot_id: Keys \cup {None}, bytes: Nat,
     request_kind: Kinds, outcome: Outcomes, work: Int]

ItemSet == [inbox_key: Keys, item: Data, expires_at: Nat]

(* Every table and every local variable holds values of its column or      *)
(* type, and a handler at work serves a decoded request.                   *)
TypeOK ==
    /\ clock \in Nat
    /\ entries \in [Tables -> [Keys -> Data \cup {None}]]
    /\ inbox_keys \subseteq Keys
    /\ inbox_items \in Seq(ItemSet)
    /\ request_logs \in Seq(RowSet)
    /\ reputation \in [Identities -> Int]
    /\ pc \in [Handlers -> Resting \cup Steps]
    /\ req \in [Handlers -> Requests \cup {None}]
    /\ now \in [Handlers -> Nat]
    /\ snapshot \in [Handlers -> SnapshotSet]
    /\ outcome \in [Handlers -> Outcomes \cup {None}]
    /\ current \in [Handlers -> Int]
    /\ acked \subseteq Requests
    /\ \A h \in Handlers : pc[h] \in Steps => req[h] \in Requests /\ req[h].data \in Data
    /\ \A h \in Handlers : pc[h] \in {"log", "read_score", "write_score"} => outcome[h] \in Outcomes
    /\ \A h \in Handlers : pc[h] \in {"store", "store_item"} => outcome[h] = "accepted"
    /\ \A h \in Handlers : pc[h] = "store_item" => req[h].kind = "inbox"

(* Accepted rows of identity i whose timestamps lie within one window.     *)
AcceptedIn(i, start) ==
    {n \in DOMAIN request_logs :
        /\ request_logs[n].identity = i
        /\ request_logs[n].outcome = "accepted"
        /\ request_logs[n].timestamp \in start .. start + Window}

(* load_rate_limit_snapshot and enforce_rate_limits are not atomic: several *)
(* handlers may pass on the same count.  The overshoot is still bounded:   *)
(* in no window are more than max_requests - 1 requests of an identity     *)
(* accepted beyond one per concurrent handler.                             *)
RequestOvershootBounded ==
    \A i \in Identities : \A start \in 0 .. MaxTime :
        Cardinality(AcceptedIn(i, start)) <= MaxRequests - 1 + Cardinality(Handlers)

(* The same race on SUM(bytes): in no window does an identity store more   *)
(* than max_bytes and one body per further concurrent handler.             *)
ByteOvershootBounded ==
    \A i \in Identities : \A start \in 0 .. MaxTime :
        TotalBytes(AcceptedIn(i, start)) <= MaxBytes + (Cardinality(Handlers) - 1) * MaxBody

(* required_pow_params makes volume expensive: in no window does an        *)
(* identity get more than one difficulty step of requests through per unit *)
(* of work it is prepared to do and per unit of reputation bonus, beyond   *)
(* one per concurrent handler.                                             *)
CheapRequestsBounded ==
    \A i \in Identities : \A start \in 0 .. MaxTime : \A level \in {r.work + 1 : r \in Requests} :
        level > 0 =>
            Cardinality({n \in AcceptedIn(i, start) : request_logs[n].work < level})
                <= StepRequests * (level + MaxScore \div RepStep) - 1 + Cardinality(Handlers)

(* update_reputation reads and writes in two statements and may lose       *)
(* updates; a score is nevertheless always earned: it never exceeds the    *)
(* accepted rows of the identity, nor falls below minus its rejected rows. *)
Outcome(i, result) ==
    {n \in DOMAIN request_logs :
        request_logs[n].identity = i /\ request_logs[n].outcome = result}

ReputationEarned ==
    \A i \in Identities :
        /\ reputation[i] <= Cardinality(Outcome(i, "accepted"))
        /\ -reputation[i] <= Cardinality(Outcome(i, "rejected"))

(* Although store_entry is an upsert and requests race for a key, a stored *)
(* card or slot never changes and never disappears: validate_hash lets     *)
(* only one content through for a key.                                     *)
StoredEntriesImmutable ==
    [][\A t \in Tables : \A k \in Keys :
          entries[t][k] # None => entries'[t][k] = entries[t][k]]_vars

(* A 204 is only sent for data that is in its table, for an inbox item     *)
(* whose inbox get_inbox knows, and for a request that has its accepted    *)
(* row, and all are still there after aborts of other handlers and         *)
(* restarts of the bridge.                                                 *)
AcknowledgedIsDurable ==
    \A r \in acked :
        /\ IF r.kind = "inbox"
           THEN /\ r.key \in inbox_keys
                /\ \E n \in DOMAIN inbox_items :
                      inbox_items[n].inbox_key = r.key /\ inbox_items[n].item = r.data
           ELSE entries[r.kind][r.key] = r.data
        /\ \E n \in DOMAIN request_logs :
               /\ request_logs[n].identity = Identity(r)
               /\ request_logs[n].request_kind = r.kind
               /\ request_logs[n].outcome = "accepted"

(* The audit log never claims a store that did not happen: an accepted row *)
(* of a slot names a stored slot, and accepted rows of inbox requests do   *)
(* not outnumber inbox items.                                              *)
AuditedIsStored ==
    /\ \A n \in DOMAIN request_logs :
          LET row == request_logs[n]
          IN  row.outcome = "accepted" /\ row.request_kind = "slot"
                  => entries["slot"][row.slot_id] # None
    /\ Cardinality({n \in DOMAIN request_logs :
                       /\ request_logs[n].outcome = "accepted"
                       /\ request_logs[n].request_kind = "inbox"}) <= Len(inbox_items)

(* Whichever path checked it, the grant of a request that is being stored  *)
(* or recorded as accepted was signed and had not expired at the timestamp *)
(* the log row carries.                                                    *)
AcceptedUnderLiveGrant ==
    \A h \in Handlers : outcome[h] = "accepted" => GrantValid(req[h], now[h])
=============================================================================
