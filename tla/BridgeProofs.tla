---------------------------- MODULE BridgeProofs ----------------------------
(* Proofs about Bridge, for any number of handlers, identities, keys and   *)
(* requests, and any limits.                                               *)
EXTENDS Bridge, FiniteSetTheorems, TLAPS

(* Every limit is a number.                                                *)
LEMMA Limits ==
    /\ Window \in Nat /\ MaxBytes \in Nat /\ MaxTtl \in Nat /\ DefaultTtl \in Nat
    /\ MaxItemBytes \in Nat /\ MaxBody \in Nat
    /\ MaxRequests \in Nat \ {0} /\ StepRequests \in Nat \ {0}
    /\ StepBytes \in Nat \ {0} /\ RepStep \in Nat \ {0}
    /\ MaxScore \in Nat /\ MaxDebt \in Nat
    /\ MaxTime \in Nat /\ MaxLogs \in Nat /\ MaxItems \in Nat
BY LimitAssumption

(* The rows a query selects are a finite set of row ids, and so are the    *)
(* bytes it sums up.                                                       *)
LEMMA RowsFinite ==
    ASSUME TypeOK, NEW rows \in SUBSET DOMAIN request_logs
    PROVE  /\ IsFiniteSet(rows) /\ Cardinality(rows) \in Nat
           /\ IsFiniteSet(ByteSet(rows)) /\ TotalBytes(rows) \in Nat
<1>1. DOMAIN request_logs = 1 .. Len(request_logs) /\ Len(request_logs) \in Nat
  BY DEF TypeOK
<1>2. IsFiniteSet(rows)
  <2>1. IsFiniteSet(1 .. Len(request_logs))
    BY <1>1, FS_Interval
  <2> QED
    BY <1>1, <2>1, FS_Subset
<1>3. IsFiniteSet(rows \X (1 .. MaxBody))
  <2>1. IsFiniteSet(1 .. MaxBody)
    BY FS_Interval, Limits
  <2> QED
    BY <1>2, <2>1, FS_Product
<1>4. IsFiniteSet(ByteSet(rows))
  BY <1>3, FS_Subset DEF ByteSet
<1> QED
  BY <1>2, <1>4, FS_CardinalityType DEF TotalBytes

(* The identity a row is attributed to is one of the table's identities.   *)
LEMMA IdentityType ==
    ASSUME NEW r \in Requests
    PROVE  Identity(r) \in Identities
BY BridgeAssumption DEF Identity, Identities, RequestSet

(* A bridge over empty tables with every handler idle is well typed.        *)
LEMMA TypeInit == Init => TypeOK
BY Limits
   DEF Init, TypeOK, NoSnapshot, SnapshotSet, Resting, Steps, Identities

(* Every action of a handler, Restart and Tick preserve the types.         *)
LEMMA TypeNext == TypeOK /\ [Next]_vars => TypeOK'
<1> SUFFICES ASSUME TypeOK, [Next]_vars PROVE TypeOK'
  OBVIOUS
<1> USE DEF Resting, Steps
<1>1. ASSUME NEW h \in Handlers, Receive(h) PROVE TypeOK'
  <2>1. PICK r \in Requests : RefuseUnparsed(h, r) \/ StartPut(h, r) \/ StartSlot(h, r)
    BY <1>1 DEF Receive
  <2>2. r \in RequestSet
    BY BridgeAssumption
  <2>3. CASE RefuseUnparsed(h, r)
    BY <1>1, <2>3 DEF Receive, RefuseUnparsed, TypeOK, db
  <2>4. CASE StartPut(h, r)
    BY <1>1, <2>2, <2>4 DEF Receive, StartPut, TypeOK, db, RequestSet
  <2>5. CASE StartSlot(h, r)
    <3>1. \/ pc' = [pc EXCEPT ![h] = "volume"] /\ UNCHANGED outcome
          \/ pc' = [pc EXCEPT ![h] = "log"] /\ outcome' = [outcome EXCEPT ![h] = "rejected"]
      BY <2>5 DEF StartSlot
    <3>2. req' = [req EXCEPT ![h] = r] /\ now' = [now EXCEPT ![h] = clock] /\ r.data \in Data
      BY <2>2, <2>5 DEF StartSlot, RequestSet
    <3>3. UNCHANGED <<clock, db, snapshot, current, acked>>
      BY <1>1 DEF Receive
    <3>4. CASE pc' = [pc EXCEPT ![h] = "volume"] /\ UNCHANGED outcome
      BY <3>2, <3>3, <3>4 DEF TypeOK, db
    <3>5. CASE pc' = [pc EXCEPT ![h] = "log"] /\ outcome' = [outcome EXCEPT ![h] = "rejected"]
      BY <3>2, <3>3, <3>5 DEF TypeOK, db, Outcomes
    <3> QED
      BY <3>1, <3>4, <3>5
  <2> QED
    BY <2>1, <2>3, <2>4, <2>5
<1>2. ASSUME NEW h \in Handlers, LoadVolume(h) PROVE TypeOK'
  <2> DEFINE rows == Recent(Identity(req[h]), now[h])
  <2>1. Cardinality(rows) \in Nat /\ TotalBytes(rows) \in Nat
    BY RowsFinite DEF Recent
  <2>2. snapshot' \in [Handlers -> SnapshotSet]
    <3> DEFINE v == [recent_requests |-> Cardinality(rows), recent_bytes |-> TotalBytes(rows),
                     reputation_score |-> 0]
    <3>1. v \in SnapshotSet
      BY <2>1 DEF SnapshotSet
    <3>2. snapshot' = [snapshot EXCEPT ![h] = v]
      BY <1>2 DEF LoadVolume
    <3> HIDE DEF v
    <3> QED
      BY <3>1, <3>2 DEF TypeOK
  <2>3. /\ pc[h] = "volume" /\ pc' = [pc EXCEPT ![h] = "standing"]
        /\ UNCHANGED <<clock, db, req, now, outcome, current, acked>>
    BY <1>2 DEF LoadVolume
  <2> QED
    BY <2>2, <2>3 DEF TypeOK, db
<1>3. ASSUME NEW h \in Handlers, LoadStanding(h) PROVE TypeOK'
  BY <1>3, IdentityType DEF LoadStanding, TypeOK, db, SnapshotSet
<1>4. ASSUME NEW h \in Handlers, Validate(h) PROVE TypeOK'
  <2>1. \/ /\ outcome' = [outcome EXCEPT ![h] = "accepted"]
           /\ pc' = [pc EXCEPT ![h] = "store"]
        \/ /\ outcome' = [outcome EXCEPT ![h] = "rejected"]
           /\ pc' = [pc EXCEPT ![h] = "log"]
    BY <1>4 DEF Validate
  <2>2. snapshot' \in [Handlers -> SnapshotSet]
    BY <1>4 DEF Validate, TypeOK, NoSnapshot, SnapshotSet
  <2>3. pc[h] = "validate" /\ UNCHANGED <<clock, db, req, now, current, acked>>
    BY <1>4 DEF Validate
  <2>4. CASE /\ outcome' = [outcome EXCEPT ![h] = "accepted"]
             /\ pc' = [pc EXCEPT ![h] = "store"]
    BY <2>2, <2>3, <2>4 DEF TypeOK, db, Outcomes
  <2>5. CASE /\ outcome' = [outcome EXCEPT ![h] = "rejected"]
             /\ pc' = [pc EXCEPT ![h] = "log"]
    BY <2>2, <2>3, <2>5 DEF TypeOK, db, Outcomes
  <2> QED
    BY <2>1, <2>4, <2>5
<1>5. ASSUME NEW h \in Handlers, StoreEntry(h) PROVE TypeOK'
  <2>1. req[h].kind \in Tables /\ req[h].key \in Keys /\ req[h].data \in Data
    BY <1>5, BridgeAssumption DEF StoreEntry, TypeOK, RequestSet
  <2> QED
    BY <1>5, <2>1 DEF StoreEntry, TypeOK, locals, Outcomes
<1>6. ASSUME NEW h \in Handlers, StoreInboxKey(h) PROVE TypeOK'
  <2>1. req[h].key \in Keys
    BY <1>6, BridgeAssumption DEF StoreInboxKey, TypeOK, RequestSet
  <2> QED
    BY <1>6, <2>1 DEF StoreInboxKey, TypeOK, locals, Outcomes
<1>7. ASSUME NEW h \in Handlers, StoreInboxItem(h) PROVE TypeOK'
  <2>0. req[h] \in RequestSet /\ DefaultTtl \in Nat
    BY <1>7, BridgeAssumption, Limits DEF StoreInboxItem, TypeOK
  <2>1. req[h].key \in Keys /\ req[h].data \in Data /\ now[h] + Ttl(req[h]) \in Nat
    BY <1>7, <2>0 DEF StoreInboxItem, TypeOK, RequestSet, Ttl
  <2> QED
    BY <1>7, <2>1 DEF StoreInboxItem, TypeOK, locals, ItemSet, Outcomes
<1>8. ASSUME NEW h \in Handlers, RecordLog(h) PROVE TypeOK'
  <2>0. /\ req[h] \in RequestSet /\ req[h].data \in Data /\ outcome[h] \in Outcomes
        /\ now[h] \in Nat /\ Identity(req[h]) \in Identities
    BY <1>8, IdentityType, BridgeAssumption DEF RecordLog, TypeOK
  <2>1. Size[req[h].data] \in Nat
    BY <2>0, BridgeAssumption, Limits
  <2>2. LogRow(h) \in RowSet
    BY <2>0, <2>1 DEF LogRow, RowSet, RequestSet
  <2> QED
    BY <1>8, <2>2 DEF RecordLog, TypeOK, locals
<1>9. ASSUME NEW h \in Handlers, ReadScore(h) PROVE TypeOK'
  BY <1>9, IdentityType DEF ReadScore, TypeOK, db
<1>10. ASSUME NEW h \in Handlers, WriteScore(h) PROVE TypeOK'
  <2>0. MaxScore \in Nat /\ MaxDebt \in Nat /\ current[h] \in Int /\ req[h] \in Requests
    BY <1>10, Limits DEF WriteScore, TypeOK
  <2>1. NextScore(current[h], outcome[h]) \in Int
    BY <2>0 DEF NextScore
  <2>2. reputation' \in [Identities -> Int] /\ acked' \subseteq Requests
    BY <1>10, <2>0, <2>1 DEF WriteScore, TypeOK
  <2>3. Release(h) /\ UNCHANGED <<clock, entries, inbox_keys, inbox_items, request_logs>>
    BY <1>10 DEF WriteScore
  <2>4. snapshot' \in [Handlers -> SnapshotSet]
    BY <2>3 DEF Release, TypeOK, NoSnapshot, SnapshotSet
  <2> QED
    BY <2>2, <2>3, <2>4 DEF Release, TypeOK
<1>11. ASSUME NEW h \in Handlers, Abort(h) PROVE TypeOK'
  BY <1>11 DEF Abort, Release, TypeOK, db, NoSnapshot, SnapshotSet
<1>12. CASE Restart
  BY <1>12 DEF Restart, TypeOK, db, NoSnapshot, SnapshotSet
<1>13. CASE Tick
  BY <1>13 DEF Tick, TypeOK, db, locals
<1>14. CASE UNCHANGED vars
  BY <1>14 DEF TypeOK, vars
<1> QED
  BY <1>1, <1>2, <1>3, <1>4, <1>5, <1>6, <1>7, <1>8, <1>9, <1>10, <1>11, <1>12, <1>13, <1>14
  DEF Next, HandlerStep

(* Every reachable state is well typed: the handlers never read a cell of  *)
(* the wrong type, whatever the interleaving.                              *)
THEOREM TypeCorrect == Spec => []TypeOK
BY TypeInit, TypeNext, PTL DEF Spec

(* Every handler has its locals.                                           *)
LEMMA LocalsOfHandlers ==
    TypeOK => /\ DOMAIN pc = Handlers /\ DOMAIN req = Handlers /\ DOMAIN now = Handlers
              /\ DOMAIN outcome = Handlers /\ DOMAIN current = Handlers /\ DOMAIN snapshot = Handlers
BY DEF TypeOK

(* A handler that ends drops its own locals and no others.                 *)
LEMMA Released ==
    ASSUME TypeOK, NEW h \in Handlers, Release(h)
    PROVE  /\ pc'[h] = "answered" /\ now'[h] = 0 /\ outcome'[h] = None
           /\ \A g \in Handlers \ {h} :
                 /\ pc'[g] = pc[g] /\ req'[g] = req[g] /\ now'[g] = now[g]
                 /\ outcome'[g] = outcome[g] /\ current'[g] = current[g]
                 /\ snapshot'[g] = snapshot[g]
BY LocalsOfHandlers DEF Release

(* record_request_log appends the row of its handler, and changes nothing  *)
(* else.                                                                   *)
LEMMA RowStep ==
    ASSUME TypeOK, NEW h \in Handlers, RecordLog(h)
    PROVE  LET last == Len(request_logs) + 1
           IN  /\ last \notin DOMAIN request_logs
               /\ DOMAIN request_logs' = DOMAIN request_logs \cup {last}
               /\ \A n \in DOMAIN request_logs : request_logs'[n] = request_logs[n]
               /\ request_logs'[last] = LogRow(h)
               /\ pc[h] = "log" /\ pc'[h] = "read_score" /\ UNCHANGED <<req, now, outcome, snapshot>>
               /\ req[h] \in Requests /\ req[h].data \in Data
               /\ \A g \in Handlers \ {h} : pc'[g] = pc[g]
<1>1. PICK e : e = LogRow(h) /\ request_logs' = Append(request_logs, e)
  BY DEF RecordLog
<1>2. request_logs \in Seq(RowSet)
  BY DEF TypeOK
<1>3. /\ Len(request_logs) \in Nat /\ DOMAIN request_logs = 1 .. Len(request_logs)
      /\ DOMAIN request_logs' = 1 .. Len(request_logs) + 1
      /\ \A n \in 1 .. Len(request_logs) : request_logs'[n] = request_logs[n]
      /\ request_logs'[Len(request_logs) + 1] = e
  BY <1>1, <1>2
<1>4. /\ Len(request_logs) + 1 \notin DOMAIN request_logs
      /\ DOMAIN request_logs' = DOMAIN request_logs \cup {Len(request_logs) + 1}
  BY <1>3
<1>5. /\ pc[h] = "log" /\ pc'[h] = "read_score" /\ UNCHANGED <<req, now, outcome, snapshot>>
      /\ \A g \in Handlers \ {h} : pc'[g] = pc[g]
  BY LocalsOfHandlers DEF RecordLog, locals
<1>6. req[h] \in Requests /\ req[h].data \in Data
  BY <1>5 DEF TypeOK, Steps
<1> QED
  BY <1>1, <1>3, <1>4, <1>5, <1>6

-----------------------------------------------------------------------------
(* The request's data is where a later GET finds it, and the request has   *)
(* its accepted row: what AcknowledgedIsDurable asks for one request.      *)
Stored(r) ==
    IF r.kind = "inbox"
    THEN /\ r.key \in inbox_keys
         /\ \E n \in DOMAIN inbox_items :
               inbox_items[n].inbox_key = r.key /\ inbox_items[n].item = r.data
    ELSE entries[r.kind][r.key] = r.data

Recorded(r) ==
    \E n \in DOMAIN request_logs :
        /\ request_logs[n].identity = Identity(r)
        /\ request_logs[n].request_kind = r.kind
        /\ request_logs[n].outcome = "accepted"

(* The tables are content addressed, and so is what is about to be stored. *)
AddressedInv ==
    /\ \A t \in Tables : \A k \in Keys : entries[t][k] # None => HashOf[entries[t][k]] = k
    /\ \A h \in Handlers :
          pc[h] = "store" /\ req[h].kind # "inbox" => HashOf[req[h].data] = req[h].key

(* A handler carries what it has done so far: the steps before its program *)
(* counter have left their rows behind.                                    *)
DurableInv ==
    /\ \A h \in Handlers :
          /\ pc[h] = "store_item" => req[h].key \in inbox_keys
          /\ pc[h] \in {"log", "read_score", "write_score"} /\ outcome[h] = "accepted"
                => Stored(req[h])
          /\ pc[h] \in {"read_score", "write_score"} /\ outcome[h] = "accepted"
                => Recorded(req[h])
    /\ \A r \in acked : r.data \in Data /\ Stored(r) /\ Recorded(r)

-----------------------------------------------------------------------------
(* Empty tables are content addressed.                                     *)
LEMMA AddressedInit == Init => AddressedInv
BY DEF Init, AddressedInv

(* Only Validate lets a handler store, after it has compared the hash, and *)
(* only StoreEntry writes to the tables.                                   *)
LEMMA AddressedNext == TypeOK /\ AddressedInv /\ [Next]_vars => AddressedInv'
<1> SUFFICES ASSUME TypeOK, AddressedInv, [Next]_vars PROVE AddressedInv'
  OBVIOUS
<1>1. ASSUME UNCHANGED <<entries, req>>, \A h \in Handlers : pc'[h] = "store" => pc[h] = "store"
      PROVE  AddressedInv'
  BY <1>1 DEF AddressedInv
<1>2. ASSUME NEW h \in Handlers, Receive(h) PROVE AddressedInv'
  <2>1. PICK r \in Requests : RefuseUnparsed(h, r) \/ StartPut(h, r) \/ StartSlot(h, r)
    BY <1>2 DEF Receive
  <2>2. /\ entries' = entries
        /\ pc'[h] # "store"
        /\ \A g \in Handlers \ {h} : pc'[g] = pc[g] /\ req'[g] = req[g]
    <3>1. CASE RefuseUnparsed(h, r)
      BY <1>2, <3>1 DEF Receive, db, RefuseUnparsed, TypeOK
    <3>2. CASE StartPut(h, r)
      BY <1>2, <3>2 DEF Receive, db, StartPut, TypeOK
    <3>3. CASE StartSlot(h, r)
      BY <1>2, <3>3 DEF Receive, db, StartSlot, TypeOK
    <3> QED
      BY <2>1, <3>1, <3>2, <3>3
  <2> QED
    BY <2>2 DEF AddressedInv
<1>3. ASSUME NEW h \in Handlers, LoadVolume(h) \/ LoadStanding(h) PROVE AddressedInv'
  BY <1>1, <1>3 DEF LoadVolume, LoadStanding, db, TypeOK
<1>4. ASSUME NEW h \in Handlers, Validate(h) PROVE AddressedInv'
  <2>1. UNCHANGED <<entries, req>>
    BY <1>4 DEF Validate, db
  <2>2. \A g \in Handlers \ {h} : pc'[g] = pc[g]
    BY <1>4 DEF Validate, TypeOK
  <2>3. pc'[h] = "store" => Passes(req[h], snapshot[h], clock)
    BY <1>4 DEF Validate, TypeOK
  <2>4. pc'[h] = "store" /\ req[h].kind # "inbox" => HashOf[req[h].data] = req[h].key
    BY <2>3 DEF Passes
  <2> QED
    BY <2>1, <2>2, <2>4 DEF AddressedInv
<1>5. ASSUME NEW h \in Handlers, StoreEntry(h) PROVE AddressedInv'
  <2>1. /\ req[h].kind \in Tables /\ req[h].key \in Keys /\ req[h].data \in Data
        /\ req[h].kind # "inbox"
    BY <1>5, BridgeAssumption DEF StoreEntry, TypeOK, RequestSet, Tables, Steps
  <2>2. HashOf[req[h].data] = req[h].key
    BY <1>5, <2>1 DEF StoreEntry, AddressedInv
  <2>3. /\ entries' = [entries EXCEPT ![req[h].kind][req[h].key] = req[h].data]
        /\ UNCHANGED req
        /\ \A g \in Handlers : pc'[g] = "store" => pc[g] = "store"
    BY <1>5 DEF StoreEntry, locals, TypeOK
  <2>4. \A t \in Tables : \A k \in Keys :
            entries'[t][k] = IF t = req[h].kind /\ k = req[h].key THEN req[h].data ELSE entries[t][k]
    BY <2>1, <2>3 DEF TypeOK
  <2> QED
    BY <2>2, <2>3, <2>4 DEF AddressedInv
<1>6. ASSUME NEW h \in Handlers,
             StoreInboxKey(h) \/ StoreInboxItem(h) \/ RecordLog(h) \/ ReadScore(h)
      PROVE  AddressedInv'
  BY <1>1, <1>6 DEF StoreInboxKey, StoreInboxItem, RecordLog, ReadScore, locals, db, TypeOK
<1>7. ASSUME NEW h \in Handlers, WriteScore(h) \/ Abort(h) PROVE AddressedInv'
  <2>1. /\ entries' = entries
        /\ pc'[h] # "store"
        /\ \A g \in Handlers \ {h} : pc'[g] = pc[g] /\ req'[g] = req[g]
    BY <1>7, Released DEF WriteScore, Abort, db
  <2> QED
    BY <2>1 DEF AddressedInv
<1>8. CASE Restart
  BY <1>8 DEF Restart, db, AddressedInv
<1>9. CASE Tick \/ UNCHANGED vars
  BY <1>1, <1>9 DEF Tick, vars, db, locals
<1> QED
  BY <1>2, <1>3, <1>4, <1>5, <1>6, <1>7, <1>8, <1>9 DEF Next, HandlerStep

(* No step changes a cell of cards or slots that is not empty.             *)
LEMMA EntriesKept ==
    ASSUME TypeOK, AddressedInv, [Next]_vars, NEW t \in Tables, NEW k \in Keys,
           entries[t][k] # None
    PROVE  entries'[t][k] = entries[t][k]
<1>1. ASSUME NEW h \in Handlers, StoreEntry(h) PROVE entries'[t][k] = entries[t][k]
  <2>1. /\ req[h].kind \in Tables /\ req[h].key \in Keys /\ req[h].data \in Data
        /\ req[h].kind # "inbox" /\ pc[h] = "store"
    BY <1>1, BridgeAssumption DEF StoreEntry, TypeOK, RequestSet, Tables, Steps
  <2>2. HashOf[req[h].data] = req[h].key
    BY <2>1 DEF AddressedInv
  <2>3. entries'[t][k] = IF t = req[h].kind /\ k = req[h].key THEN req[h].data ELSE entries[t][k]
    BY <1>1, <2>1 DEF StoreEntry, TypeOK
  <2>4. entries[t][k] \in Data /\ HashOf[entries[t][k]] = k
    BY DEF TypeOK, AddressedInv
  <2> QED
    BY <2>1, <2>2, <2>3, <2>4, BridgeAssumption
<1>2. UNCHANGED entries \/ \E h \in Handlers : StoreEntry(h)
  BY DEF Next, vars, HandlerStep, Receive, LoadVolume, LoadStanding, Validate, StoreInboxKey,
         StoreInboxItem, RecordLog, ReadScore, WriteScore, Abort, Restart, Tick, db
<1> QED
  BY <1>1, <1>2

(* Although store_entry is an upsert and handlers race for a key, a stored *)
(* card or slot never changes and never disappears: a hash lets only one   *)
(* content through.                                                        *)
THEOREM ImmutableTheorem == Spec => StoredEntriesImmutable
<1> DEFINE Kept == \A t \in Tables : \A k \in Keys :
                      entries[t][k] # None => entries'[t][k] = entries[t][k]
<1>1. TypeOK /\ AddressedInv /\ [Next]_vars => [Kept]_vars
  BY EntriesKept
<1> QED
  BY <1>1, TypeInit, TypeNext, AddressedInit, AddressedNext, PTL DEF Spec, StoredEntriesImmutable

-----------------------------------------------------------------------------
(* A bridge that has not started a request has nothing to show.            *)
LEMMA DurableInit == Init => DurableInv
BY DEF Init, DurableInv

(* Tables only gain rows, and a cell of entries never changes: what is     *)
(* stored or recorded before a step still is after it.                     *)
LEMMA RowsKept ==
    ASSUME TypeOK, AddressedInv, [Next]_vars, NEW r \in Requests
    PROVE  /\ Stored(r) /\ r.data \in Data => Stored(r)'
           /\ Recorded(r) => Recorded(r)'
<1>1. inbox_keys \subseteq inbox_keys'
  BY DEF Next, vars, HandlerStep, Receive, LoadVolume, LoadStanding, Validate, StoreEntry,
         StoreInboxKey, StoreInboxItem, RecordLog, ReadScore, WriteScore, Abort, Restart, Tick, db
<1>2. \A n \in DOMAIN inbox_items : n \in DOMAIN inbox_items' /\ inbox_items'[n] = inbox_items[n]
  <2>1. CASE UNCHANGED inbox_items
    BY <2>1
  <2>2. ASSUME NEW h \in Handlers, StoreInboxItem(h)
        PROVE  \A n \in DOMAIN inbox_items :
                  n \in DOMAIN inbox_items' /\ inbox_items'[n] = inbox_items[n]
    BY <2>2 DEF StoreInboxItem, TypeOK
  <2>3. UNCHANGED inbox_items \/ \E h \in Handlers : StoreInboxItem(h)
    BY DEF Next, vars, HandlerStep, Receive, LoadVolume, LoadStanding, Validate, StoreEntry,
           StoreInboxKey, RecordLog, ReadScore, WriteScore, Abort, Restart, Tick, db
  <2> QED
    BY <2>1, <2>2, <2>3
<1>3. \A n \in DOMAIN request_logs : n \in DOMAIN request_logs' /\ request_logs'[n] = request_logs[n]
  <2>1. CASE UNCHANGED request_logs
    BY <2>1
  <2>2. ASSUME NEW h \in Handlers, RecordLog(h)
        PROVE  \A n \in DOMAIN request_logs :
                  n \in DOMAIN request_logs' /\ request_logs'[n] = request_logs[n]
    BY <2>2 DEF RecordLog, TypeOK
  <2>3. UNCHANGED request_logs \/ \E h \in Handlers : RecordLog(h)
    BY DEF Next, vars, HandlerStep, Receive, LoadVolume, LoadStanding, Validate, StoreEntry,
           StoreInboxKey, StoreInboxItem, ReadScore, WriteScore, Abort, Restart, Tick, db
  <2> QED
    BY <2>1, <2>2, <2>3
<1>4. r \in RequestSet /\ None \notin Data
  BY BridgeAssumption
<1>5. Stored(r) /\ r.data \in Data => Stored(r)'
  <2>1. CASE r.kind = "inbox"
    BY <1>1, <1>2, <2>1 DEF Stored
  <2>2. CASE r.kind # "inbox"
    <3>1. r.kind \in Tables /\ r.key \in Keys
      BY <1>4, <2>2 DEF RequestSet, Kinds, Tables
    <3> QED
      BY <1>4, <2>2, <3>1, EntriesKept DEF Stored
  <2> QED
    BY <2>1, <2>2
<1>6. Recorded(r) => Recorded(r)'
  BY <1>3 DEF Recorded
<1> QED
  BY <1>5, <1>6

(* Each step of a handler leaves behind the row the next one relies on,    *)
(* and no step of another handler, abort or restart takes one away.        *)
LEMMA DurableNext == TypeOK /\ AddressedInv /\ DurableInv /\ [Next]_vars => DurableInv'
<1> SUFFICES ASSUME TypeOK, AddressedInv, DurableInv, [Next]_vars PROVE DurableInv'
  OBVIOUS
<1> USE DEF Steps, Resting
<1> DEFINE KeyIn(h) == pc[h] = "store_item" => req[h].key \in inbox_keys
           DataIn(h) == pc[h] \in {"log", "read_score", "write_score"} /\ outcome[h] = "accepted"
                           => Stored(req[h])
           RowIn(h) == pc[h] \in {"read_score", "write_score"} /\ outcome[h] = "accepted"
                           => Recorded(req[h])
           Carries(h) == KeyIn(h) /\ DataIn(h) /\ RowIn(h)
           Kept(r) == r.data \in Data /\ Stored(r) /\ Recorded(r)
<1>1. DurableInv <=> (\A h \in Handlers : Carries(h)) /\ (\A r \in acked : Kept(r))
  BY DEF DurableInv
<1>2. DurableInv' <=> (\A h \in Handlers : Carries(h)') /\ (\A r \in acked' : Kept(r)')
  BY DEF DurableInv
<1>3. \A r \in acked : Kept(r)'
  BY <1>1, RowsKept DEF TypeOK
<1>4. inbox_keys \subseteq inbox_keys'
  BY DEF Next, vars, HandlerStep, Receive, LoadVolume, LoadStanding, Validate, StoreEntry,
         StoreInboxKey, StoreInboxItem, RecordLog, ReadScore, WriteScore, Abort, Restart, Tick, db
(* A handler that does not move carries on.                                *)
<1>5. ASSUME NEW g \in Handlers, pc'[g] = pc[g], req'[g] = req[g], outcome'[g] = outcome[g]
      PROVE  Carries(g)'
  <2>1. pc[g] \in Steps => req[g] \in Requests /\ req[g].data \in Data
    BY DEF TypeOK
  <2>2. KeyIn(g) /\ DataIn(g) /\ RowIn(g)
    BY <1>1
  <2>3. KeyIn(g)'
    BY <1>4, <1>5, <2>2
  <2>4. DataIn(g)'
    <3>1. ASSUME pc'[g] \in {"log", "read_score", "write_score"}, outcome'[g] = "accepted"
          PROVE  Stored(req[g])'
      <4>1. PICK r \in Requests : r = req[g]
        BY <1>5, <2>1, <3>1
      <4>2. Stored(r) /\ r.data \in Data
        BY <1>5, <2>1, <2>2, <3>1, <4>1
      <4>3. Stored(r)' /\ req'[g] = r
        BY <1>5, <4>1, <4>2, RowsKept
      <4> QED
        BY <4>3 DEF Stored
    <3> QED
      BY <1>5, <3>1 DEF Stored
  <2>5. RowIn(g)'
    <3>1. ASSUME pc'[g] \in {"read_score", "write_score"}, outcome'[g] = "accepted"
          PROVE  Recorded(req[g])'
      <4>1. PICK r \in Requests : r = req[g]
        BY <1>5, <2>1, <3>1
      <4>2. Recorded(r)
        BY <1>5, <2>2, <3>1, <4>1
      <4>3. Recorded(r)' /\ req'[g] = r
        BY <1>5, <4>1, <4>2, RowsKept
      <4> QED
        BY <4>3 DEF Recorded
    <3> QED
      BY <1>5, <3>1 DEF Recorded
  <2> QED
    BY <2>3, <2>4, <2>5
<1>6. ASSUME NEW h \in Handlers, acked' = acked, Carries(h)',
             \A g \in Handlers \ {h} :
                pc'[g] = pc[g] /\ req'[g] = req[g] /\ outcome'[g] = outcome[g]
      PROVE  DurableInv'
  BY <1>2, <1>3, <1>5, <1>6
<1>7. ASSUME NEW h \in Handlers, Receive(h) PROVE DurableInv'
  <2>1. PICK r \in Requests : RefuseUnparsed(h, r) \/ StartPut(h, r) \/ StartSlot(h, r)
    BY <1>7 DEF Receive
  <2>2. /\ acked' = acked
        /\ pc'[h] \in {"answered", "volume"} \/ (pc'[h] = "log" /\ outcome'[h] = "rejected")
        /\ \A g \in Handlers \ {h} :
              pc'[g] = pc[g] /\ req'[g] = req[g] /\ outcome'[g] = outcome[g]
    <3>1. CASE RefuseUnparsed(h, r)
      BY <1>7, <3>1 DEF Receive, RefuseUnparsed, TypeOK
    <3>2. CASE StartPut(h, r)
      BY <1>7, <3>2 DEF Receive, StartPut, TypeOK
    <3>3. CASE StartSlot(h, r)
      BY <1>7, <3>3 DEF Receive, StartSlot, TypeOK
    <3> QED
      BY <2>1, <3>1, <3>2, <3>3
  <2>3. Carries(h)'
    BY <2>2
  <2> QED
    BY <1>6, <2>2, <2>3
<1>8. ASSUME NEW h \in Handlers, LoadVolume(h) \/ LoadStanding(h) \/ Validate(h) PROVE DurableInv'
  <2>1. /\ acked' = acked
        /\ pc'[h] \in {"standing", "validate", "store"} \/ (pc'[h] = "log" /\ outcome'[h] = "rejected")
        /\ \A g \in Handlers \ {h} :
              pc'[g] = pc[g] /\ req'[g] = req[g] /\ outcome'[g] = outcome[g]
    BY <1>8 DEF LoadVolume, LoadStanding, Validate, TypeOK
  <2>2. Carries(h)'
    BY <2>1
  <2> QED
    BY <1>6, <2>1, <2>2
<1>9. ASSUME NEW h \in Handlers, StoreEntry(h) PROVE DurableInv'
  <2>1. /\ req[h].kind \in Tables /\ req[h].key \in Keys /\ req[h].kind # "inbox"
    BY <1>9, BridgeAssumption DEF StoreEntry, TypeOK, RequestSet, Tables
  <2>2. entries'[req[h].kind][req[h].key] = req[h].data
    BY <1>9, <2>1 DEF StoreEntry, TypeOK
  <2>3. /\ acked' = acked /\ pc'[h] = "log" /\ req' = req
        /\ \A g \in Handlers \ {h} :
              pc'[g] = pc[g] /\ req'[g] = req[g] /\ outcome'[g] = outcome[g]
    BY <1>9 DEF StoreEntry, locals, TypeOK
  <2>4. Carries(h)'
    BY <2>1, <2>2, <2>3 DEF Stored
  <2> QED
    BY <1>6, <2>3, <2>4
<1>10. ASSUME NEW h \in Handlers, StoreInboxKey(h) PROVE DurableInv'
  <2>1. /\ acked' = acked /\ pc'[h] = "store_item" /\ req' = req /\ req[h].key \in inbox_keys'
        /\ \A g \in Handlers \ {h} :
              pc'[g] = pc[g] /\ req'[g] = req[g] /\ outcome'[g] = outcome[g]
    BY <1>10 DEF StoreInboxKey, locals, TypeOK
  <2>2. Carries(h)'
    BY <2>1
  <2> QED
    BY <1>6, <2>1, <2>2
<1>11. ASSUME NEW h \in Handlers, StoreInboxItem(h) PROVE DurableInv'
  <2>1. /\ acked' = acked /\ pc'[h] = "log" /\ req' = req
        /\ \A g \in Handlers \ {h} :
              pc'[g] = pc[g] /\ req'[g] = req[g] /\ outcome'[g] = outcome[g]
    BY <1>11 DEF StoreInboxItem, locals, TypeOK
  <2>2. req[h].kind = "inbox" /\ req[h].key \in inbox_keys'
    BY <1>4, <1>11 DEF StoreInboxItem, TypeOK, DurableInv
  <2>3. /\ Len(inbox_items) + 1 \in DOMAIN inbox_items'
        /\ inbox_items'[Len(inbox_items) + 1].inbox_key = req[h].key
        /\ inbox_items'[Len(inbox_items) + 1].item = req[h].data
    BY <1>11 DEF StoreInboxItem, TypeOK
  <2>4. Carries(h)'
    BY <2>1, <2>2, <2>3 DEF Stored
  <2> QED
    BY <1>6, <2>1, <2>4
<1>12. ASSUME NEW h \in Handlers, RecordLog(h) PROVE DurableInv'
  <2>1. /\ acked' = acked /\ pc[h] = "log" /\ pc'[h] = "read_score" /\ req' = req
        /\ outcome' = outcome /\ req[h] \in Requests /\ req[h].data \in Data
        /\ \A g \in Handlers \ {h} :
              pc'[g] = pc[g] /\ req'[g] = req[g] /\ outcome'[g] = outcome[g]
    BY <1>12 DEF RecordLog, locals, TypeOK
  <2>2. PICK last : last \in DOMAIN request_logs' /\ request_logs'[last] = LogRow(h)
    BY <1>12, RowStep
  <2>3. outcome[h] = "accepted" => Recorded(req[h])'
    <3>1. /\ LogRow(h).identity = Identity(req[h]) /\ LogRow(h).request_kind = req[h].kind
          /\ LogRow(h).outcome = outcome[h]
      BY DEF LogRow
    <3> QED
      BY <2>1, <2>2, <3>1 DEF Recorded, Identity
  <2>4. outcome[h] = "accepted" => Stored(req[h])'
    BY <1>1, <2>1, RowsKept
  <2>5. Carries(h)'
    BY <2>1, <2>3, <2>4 DEF Stored, Recorded
  <2> QED
    BY <1>6, <2>1, <2>5
<1>13. ASSUME NEW h \in Handlers, ReadScore(h) PROVE DurableInv'
  <2>1. /\ acked' = acked /\ pc[h] = "read_score" /\ pc'[h] = "write_score" /\ req' = req
        /\ outcome' = outcome /\ req[h] \in Requests /\ req[h].data \in Data
        /\ \A g \in Handlers \ {h} :
              pc'[g] = pc[g] /\ req'[g] = req[g] /\ outcome'[g] = outcome[g]
    BY <1>13 DEF ReadScore, TypeOK
  <2>2. outcome[h] = "accepted" => Stored(req[h])' /\ Recorded(req[h])'
    BY <1>1, <2>1, RowsKept
  <2>3. Carries(h)'
    BY <2>1, <2>2 DEF Stored, Recorded
  <2> QED
    BY <1>6, <2>1, <2>3
<1>14. ASSUME NEW h \in Handlers, WriteScore(h) PROVE DurableInv'
  <2>1. /\ pc[h] = "write_score" /\ req[h] \in Requests /\ req[h].data \in Data
        /\ acked' = IF outcome[h] = "accepted" THEN acked \cup {req[h]} ELSE acked
        /\ pc'[h] = "answered"
        /\ \A g \in Handlers \ {h} :
              pc'[g] = pc[g] /\ req'[g] = req[g] /\ outcome'[g] = outcome[g]
    <3>1. pc[h] = "write_score" /\ req[h] \in Requests /\ req[h].data \in Data
      BY <1>14 DEF WriteScore, TypeOK
    <3> QED
      BY <1>14, <3>1, Released DEF WriteScore
  <2>2. PICK r \in Requests : r = req[h]
    BY <2>1
  <2>3. \A q \in acked' : Kept(q)'
    <3>1. outcome[h] = "accepted" => Kept(r)'
      BY <1>1, <2>1, <2>2, RowsKept
    <3> HIDE DEF Kept
    <3> QED
      BY <1>3, <2>1, <2>2, <3>1
  <2>4. Carries(h)'
    BY <2>1
  <2> HIDE DEF Kept, Carries
  <2> QED
    BY <1>2, <1>5, <2>1, <2>3, <2>4
<1>15. ASSUME NEW h \in Handlers, Abort(h) PROVE DurableInv'
  <2>1. /\ acked' = acked /\ pc'[h] = "answered"
        /\ \A g \in Handlers \ {h} :
              pc'[g] = pc[g] /\ req'[g] = req[g] /\ outcome'[g] = outcome[g]
    BY <1>15, Released DEF Abort
  <2>2. Carries(h)'
    BY <2>1
  <2> QED
    BY <1>6, <2>1, <2>2
<1>16. CASE Restart
  <2>1. acked' = acked /\ \A h \in Handlers : pc'[h] = "idle"
    BY <1>16 DEF Restart
  <2>2. \A h \in Handlers : Carries(h)'
    BY <2>1
  <2> HIDE DEF Kept, Carries
  <2> QED
    BY <1>2, <1>3, <2>1, <2>2
<1>17. CASE Tick \/ UNCHANGED vars
  <2>1. UNCHANGED <<pc, req, outcome, acked>>
    BY <1>17 DEF Tick, vars, locals
  <2> HIDE DEF Kept, Carries
  <2> QED
    BY <1>2, <1>3, <1>5, <2>1
<1> QED
  BY <1>7, <1>8, <1>9, <1>10, <1>11, <1>12, <1>13, <1>14, <1>15, <1>16, <1>17 DEF Next, HandlerStep

(* A request answered with 204 is in its table and has its accepted row,   *)
(* for ever: whatever other handlers, aborts and restarts do.              *)
THEOREM DurabilityTheorem == Spec => []AcknowledgedIsDurable
<1>1. DurableInv => AcknowledgedIsDurable
  BY DEF DurableInv, AcknowledgedIsDurable, Stored, Recorded
<1> QED
  BY <1>1, TypeInit, TypeNext, AddressedInit, AddressedNext, DurableInit, DurableNext, PTL DEF Spec

-----------------------------------------------------------------------------
(* A handler's time is past, one that has not been through Validate is not *)
(* accepted, and a slot that got by put_slot's first check had a valid     *)
(* grant then.                                                             *)
Unjudged == Resting \cup {"volume", "standing", "validate"}

GrantInv ==
    \A h \in Handlers :
        /\ now[h] <= clock
        /\ pc[h] \in Unjudged => outcome[h] # "accepted"
        /\ pc[h] \in Unjudged \ Resting /\ req[h].kind = "slot" => GrantValid(req[h], now[h])
        /\ outcome[h] = "accepted" => GrantValid(req[h], now[h])

(* A grant that is valid was valid earlier.                                *)
LEMMA GrantEarlier ==
    ASSUME NEW r \in Requests, NEW t \in Nat, NEW u \in Nat, u <= t, GrantValid(r, t)
    PROVE  GrantValid(r, u)
<1>1. r.expires_at \in Nat \cup {None}
  BY BridgeAssumption DEF RequestSet
<1> QED
  BY <1>1 DEF GrantValid

(* Before the first request no handler has an outcome.                     *)
LEMMA GrantInit == Init => GrantInv
<1>1. None # "accepted"
  BY BridgeAssumption DEF Outcomes
<1> QED
  BY <1>1 DEF Init, GrantInv, Unjudged, Resting

(* Whichever path checks the grant, it checks it at or after the time the  *)
(* log row carries.                                                        *)
LEMMA GrantNext == TypeOK /\ GrantInv /\ [Next]_vars => GrantInv'
<1> SUFFICES ASSUME TypeOK, GrantInv, [Next]_vars PROVE GrantInv'
  OBVIOUS
<1> USE DEF Steps, Resting, Unjudged
<1> DEFINE Good(h) ==
             /\ now[h] <= clock
             /\ pc[h] \in Unjudged => outcome[h] # "accepted"
             /\ pc[h] \in Unjudged \ Resting /\ req[h].kind = "slot" => GrantValid(req[h], now[h])
             /\ outcome[h] = "accepted" => GrantValid(req[h], now[h])
<1>1. (GrantInv <=> \A h \in Handlers : Good(h)) /\ (GrantInv' <=> \A h \in Handlers : Good(h)')
  BY DEF GrantInv
<1>2. None # "accepted" /\ clock \in Nat
  BY BridgeAssumption DEF Outcomes, TypeOK
<1>3. ASSUME NEW h \in Handlers, clock' = clock, Good(h)',
             \A g \in Handlers \ {h} :
                /\ pc'[g] = pc[g] /\ req'[g] = req[g]
                /\ now'[g] = now[g] /\ outcome'[g] = outcome[g]
      PROVE  GrantInv'
  <2>1. ASSUME NEW g \in Handlers \ {h} PROVE Good(g)'
    <3>1. Good(g)
      BY <1>1
    <3> QED
      BY <1>3, <3>1 DEF GrantValid
  <2> HIDE DEF Good
  <2> QED
    BY <1>1, <1>3, <2>1
<1>4. ASSUME NEW h \in Handlers, Receive(h) PROVE GrantInv'
  <2>1. PICK r \in Requests : RefuseUnparsed(h, r) \/ StartPut(h, r) \/ StartSlot(h, r)
    BY <1>4 DEF Receive
  <2>2. /\ clock' = clock /\ pc[h] \in Resting /\ Good(h)
        /\ \A g \in Handlers \ {h} :
              /\ pc'[g] = pc[g] /\ req'[g] = req[g]
              /\ now'[g] = now[g] /\ outcome'[g] = outcome[g]
    <3>1. clock' = clock /\ pc[h] \in Resting /\ Good(h)
      BY <1>1, <1>4 DEF Receive
    <3> QED
      BY <2>1, <3>1 DEF RefuseUnparsed, StartPut, StartSlot, TypeOK
  <2>3. Good(h)'
    <3>1. CASE RefuseUnparsed(h, r)
      <4>1. pc'[h] = "answered" /\ req'[h] = req[h] /\ now'[h] = now[h] /\ outcome'[h] = outcome[h]
        BY <3>1 DEF RefuseUnparsed, TypeOK
      <4> QED
        BY <2>2, <4>1
    <3>2. CASE StartPut(h, r)
      <4>1. /\ pc'[h] = "volume" /\ req'[h] = r /\ now'[h] = clock /\ outcome'[h] = outcome[h]
            /\ r.kind # "slot"
        BY <3>2 DEF StartPut, TypeOK
      <4>2. now'[h] <= clock' /\ outcome'[h] # "accepted"
        <5>1. clock' = clock /\ clock \in Nat /\ now'[h] = clock
          BY <1>2, <2>2, <4>1
        <5>2. now'[h] <= clock'
          BY ONLY <5>1
        <5> QED
          BY <2>2, <4>1, <5>2
      <4> QED
        BY <4>1, <4>2
    <3>3. CASE StartSlot(h, r)
      <4>1. /\ req'[h] = r /\ now'[h] = clock
            /\ \/ pc'[h] = "volume" /\ outcome'[h] = outcome[h] /\ GrantValid(r, clock)
               \/ pc'[h] = "log" /\ outcome'[h] = "rejected"
        BY <3>3, LocalsOfHandlers DEF StartSlot
      <4>2. now'[h] <= clock'
        <5>1. clock' = clock /\ clock \in Nat /\ now'[h] = clock
          BY <1>2, <2>2, <4>1
        <5> QED
          BY ONLY <5>1
      <4>3. CASE pc'[h] = "volume" /\ outcome'[h] = outcome[h] /\ GrantValid(r, clock)
        <5>1. outcome'[h] # "accepted"
          BY <2>2, <4>3
        <5>2. GrantValid(req'[h], now'[h])
          BY <4>1, <4>3
        <5> QED
          BY <4>2, <5>1, <5>2 DEF GrantValid
      <4>4. CASE pc'[h] = "log" /\ outcome'[h] = "rejected"
        BY <4>2, <4>4
      <4> QED
        BY <4>1, <4>3, <4>4
    <3> QED
      BY <2>1, <3>1, <3>2, <3>3
  <2> HIDE DEF Good
  <2> QED
    BY <1>3, <2>2, <2>3
<1>5. ASSUME NEW h \in Handlers, LoadVolume(h) \/ LoadStanding(h) PROVE GrantInv'
  <2>1. /\ clock' = clock /\ pc[h] \in {"volume", "standing"} /\ pc'[h] \in {"standing", "validate"}
        /\ req' = req /\ now' = now /\ outcome' = outcome /\ Good(h)
        /\ \A g \in Handlers \ {h} : pc'[g] = pc[g]
    BY <1>1, <1>5 DEF LoadVolume, LoadStanding, TypeOK
  <2>2. Good(h)'
    BY <2>1 DEF GrantValid
  <2> HIDE DEF Good
  <2> QED
    BY <1>3, <2>1, <2>2
<1>6. ASSUME NEW h \in Handlers, Validate(h) PROVE GrantInv'
  <2>1. /\ clock' = clock /\ pc[h] = "validate" /\ req[h] \in Requests /\ now[h] \in Nat
        /\ req' = req /\ now' = now /\ Good(h)
        /\ \/ /\ pc'[h] = "store" /\ outcome'[h] = "accepted"
              /\ req[h].kind = "slot" \/ GrantValid(req[h], clock)
           \/ pc'[h] = "log" /\ outcome'[h] = "rejected"
        /\ \A g \in Handlers \ {h} : pc'[g] = pc[g] /\ outcome'[g] = outcome[g]
    BY <1>1, <1>6 DEF Validate, Passes, TypeOK
  <2>2. outcome'[h] = "accepted" => GrantValid(req[h], now[h])
    BY <1>2, <2>1, GrantEarlier
  <2>3. Good(h)'
    BY <2>1, <2>2 DEF GrantValid
  <2> HIDE DEF Good
  <2> QED
    BY <1>3, <2>1, <2>3
<1>7. ASSUME NEW h \in Handlers,
             \/ StoreEntry(h) \/ StoreInboxKey(h) \/ StoreInboxItem(h)
             \/ RecordLog(h) \/ ReadScore(h)
      PROVE  GrantInv'
  <2>1. /\ clock' = clock /\ pc'[h] \in {"store_item", "log", "read_score", "write_score"}
        /\ req' = req /\ now' = now /\ outcome' = outcome /\ Good(h)
        /\ \A g \in Handlers \ {h} : pc'[g] = pc[g]
    <3>1. Good(h)
      BY <1>1
    <3> HIDE DEF Good
    <3> QED
      BY <1>7, <3>1 DEF StoreEntry, StoreInboxKey, StoreInboxItem, RecordLog, ReadScore, locals, TypeOK
  <2>2. Good(h)'
    BY <2>1 DEF GrantValid
  <2> HIDE DEF Good
  <2> QED
    BY <1>3, <2>1, <2>2
<1>8. ASSUME NEW h \in Handlers, WriteScore(h) \/ Abort(h) PROVE GrantInv'
  <2>1. /\ clock' = clock /\ pc'[h] = "answered" /\ now'[h] = 0 /\ outcome'[h] = None
        /\ \A g \in Handlers \ {h} :
              /\ pc'[g] = pc[g] /\ req'[g] = req[g]
              /\ now'[g] = now[g] /\ outcome'[g] = outcome[g]
    BY <1>8, Released DEF WriteScore, Abort
  <2>2. Good(h)'
    <3>1. now'[h] <= clock' /\ outcome'[h] # "accepted"
      BY <1>2, <2>1
    <3>2. pc'[h] \notin Unjudged \ Resting
      BY <2>1
    <3> QED
      BY <3>1, <3>2
  <2> HIDE DEF Good
  <2> QED
    BY <1>3, <2>1, <2>2
<1>9. CASE Restart
  <2>1. /\ clock' = clock
        /\ \A h \in Handlers : pc'[h] = "idle" /\ now'[h] = 0 /\ outcome'[h] = None
    BY <1>9 DEF Restart
  <2>2. \A h \in Handlers : Good(h)'
    BY <1>2, <2>1
  <2> HIDE DEF Good
  <2> QED
    BY <1>1, <2>2
<1>10. CASE Tick \/ UNCHANGED vars
  <2>1. UNCHANGED <<pc, req, now, outcome>> /\ clock' \in Nat /\ clock <= clock'
    BY <1>2, <1>10 DEF Tick, vars, locals
  <2>2. ASSUME NEW h \in Handlers PROVE Good(h)'
    <3>1. Good(h) /\ now[h] \in Nat
      BY <1>1 DEF TypeOK
    <3>2. now'[h] <= clock'
      BY <1>2, <2>1, <3>1
    <3> QED
      BY <2>1, <3>1, <3>2 DEF GrantValid
  <2> HIDE DEF Good
  <2> QED
    BY <1>1, <2>2
<1> HIDE DEF Good
<1> QED
  BY <1>4, <1>5, <1>6, <1>7, <1>8, <1>9, <1>10 DEF Next, HandlerStep

(* Although put_slot checks the grant before and the other handlers after  *)
(* they have read the quota, what is accepted had a signed grant that was  *)
(* live at the time its log row carries.                                   *)
THEOREM LiveGrantTheorem == Spec => []AcceptedUnderLiveGrant
<1>1. GrantInv => AcceptedUnderLiveGrant
  BY DEF GrantInv, AcceptedUnderLiveGrant
<1> QED
  BY <1>1, TypeInit, TypeNext, GrantInit, GrantNext, PTL DEF Spec

-----------------------------------------------------------------------------
(* The audit log.                                                          *)

InboxRows ==
    {n \in DOMAIN request_logs :
        request_logs[n].outcome = "accepted" /\ request_logs[n].request_kind = "inbox"}

(* Handlers whose item is stored and whose row is not written yet.         *)
Unlogged ==
    {h \in Handlers : pc[h] = "log" /\ outcome[h] = "accepted" /\ req[h].kind = "inbox"}

(* Every accepted slot row names a slot that is stored, and every inbox    *)
(* row, written or about to be, has an item of its own.                    *)
AuditInv ==
    /\ \A n \in DOMAIN request_logs :
          request_logs[n].outcome = "accepted" /\ request_logs[n].request_kind = "slot"
              => /\ request_logs[n].slot_id \in Keys
                 /\ entries["slot"][request_logs[n].slot_id] # None
    /\ Cardinality(InboxRows) + Cardinality(Unlogged) <= Len(inbox_items)

(* Rows and handlers are finitely many.                                    *)
LEMMA AuditFinite ==
    ASSUME TypeOK
    PROVE  /\ IsFiniteSet(InboxRows) /\ Cardinality(InboxRows) \in Nat
           /\ IsFiniteSet(Unlogged) /\ Cardinality(Unlogged) \in Nat
           /\ Len(inbox_items) \in Nat
<1>1. InboxRows \in SUBSET DOMAIN request_logs
  BY DEF InboxRows
<1>2. IsFiniteSet(Unlogged)
  BY BridgeAssumption, FS_Subset DEF Unlogged
<1> QED
  BY <1>1, <1>2, RowsFinite, FS_CardinalityType DEF TypeOK

(* An empty log claims nothing.                                            *)
LEMMA AuditInit == Init => AuditInv
<1> SUFFICES ASSUME Init PROVE AuditInv
  OBVIOUS
<1>1. InboxRows = {} /\ Unlogged = {} /\ Len(inbox_items) = 0 /\ DOMAIN request_logs = {}
  BY DEF Init, InboxRows, Unlogged
<1> QED
  BY <1>1, FS_EmptySet DEF AuditInv

(* StoreInboxItem adds an item and a handler that will log it, RecordLog   *)
(* turns the handler into a row, and a handler that stops leaves an item   *)
(* without a row.                                                          *)
LEMMA AuditNext ==
    TypeOK /\ TypeOK' /\ AddressedInv /\ DurableInv /\ AuditInv /\ [Next]_vars => AuditInv'
<1> SUFFICES ASSUME TypeOK, TypeOK', AddressedInv, DurableInv, AuditInv, [Next]_vars PROVE AuditInv'
  OBVIOUS
<1> USE DEF Steps, Resting
<1> DEFINE R == InboxRows
           U == Unlogged
<1>1. /\ IsFiniteSet(R) /\ Cardinality(R) \in Nat /\ IsFiniteSet(U) /\ Cardinality(U) \in Nat
      /\ Len(inbox_items) \in Nat /\ Cardinality(R) + Cardinality(U) <= Len(inbox_items)
  BY AuditFinite DEF AuditInv
<1>2. /\ "slot" \in Tables /\ Len(request_logs) \in Nat
      /\ DOMAIN request_logs = 1 .. Len(request_logs)
  BY DEF Tables, TypeOK
<1>3. ASSUME NEW n \in DOMAIN request_logs,
             request_logs[n].outcome = "accepted", request_logs[n].request_kind = "slot"
      PROVE  /\ request_logs[n].slot_id \in Keys
             /\ entries'["slot"][request_logs[n].slot_id] # None
  <2>1. /\ request_logs[n].slot_id \in Keys
        /\ entries["slot"][request_logs[n].slot_id] # None
    BY <1>3 DEF AuditInv
  <2> QED
    BY <1>2, <2>1, EntriesKept
<1>4. ASSUME UNCHANGED <<request_logs, inbox_items>>, U' \subseteq U PROVE AuditInv'
  <2>1. R' = R
    BY <1>4 DEF InboxRows
  <2>2. Cardinality(U') <= Cardinality(U) /\ Cardinality(U') \in Nat
    BY <1>1, <1>4, FS_Subset, FS_CardinalityType
  <2>3. Cardinality(R') + Cardinality(U') <= Len(inbox_items')
    BY <1>1, <1>4, <2>1, <2>2
  <2> QED
    BY <1>3, <1>4, <2>3 DEF AuditInv
<1>5. ASSUME NEW h \in Handlers, Receive(h) PROVE AuditInv'
  <2>1. PICK r \in Requests : RefuseUnparsed(h, r) \/ StartPut(h, r) \/ StartSlot(h, r)
    BY <1>5 DEF Receive
  <2>2. /\ pc'[h] \in {"answered", "volume"} \/ (pc'[h] = "log" /\ outcome'[h] = "rejected")
        /\ \A g \in Handlers \ {h} : pc'[g] = pc[g] /\ req'[g] = req[g] /\ outcome'[g] = outcome[g]
    BY <2>1, LocalsOfHandlers DEF RefuseUnparsed, StartPut, StartSlot
  <2>3. UNCHANGED <<request_logs, inbox_items>> /\ U' \subseteq U
    BY <1>5, <2>2 DEF Receive, db, Unlogged
  <2> QED
    BY <1>4, <2>3
<1>6. ASSUME NEW h \in Handlers,
             \/ LoadVolume(h) \/ LoadStanding(h) \/ Validate(h)
             \/ StoreEntry(h) \/ StoreInboxKey(h) \/ ReadScore(h)
      PROVE  AuditInv'
  <2>1. /\ UNCHANGED <<request_logs, inbox_items, req>>
        /\ \/ pc'[h] # "log"
           \/ outcome'[h] = "rejected"
           \/ req[h].kind \in Tables
        /\ \A g \in Handlers \ {h} : pc'[g] = pc[g] /\ outcome'[g] = outcome[g]
    BY <1>6, LocalsOfHandlers DEF LoadVolume, LoadStanding, Validate, StoreEntry, StoreInboxKey,
                                  ReadScore, db, locals
  <2>2. U' \subseteq U
    BY <2>1 DEF Unlogged, Tables
  <2> QED
    BY <1>4, <2>1, <2>2
<1>7. ASSUME NEW h \in Handlers, StoreInboxItem(h) PROVE AuditInv'
  <2>1. /\ request_logs' = request_logs /\ Len(inbox_items') = Len(inbox_items) + 1
        /\ pc[h] = "store_item" /\ UNCHANGED <<req, outcome>>
        /\ \A g \in Handlers \ {h} : pc'[g] = pc[g]
    <3>1. Len(inbox_items') = Len(inbox_items) + 1
      <4>1. PICK e : inbox_items' = Append(inbox_items, e)
        BY <1>7 DEF StoreInboxItem
      <4>2. inbox_items \in Seq(ItemSet)
        BY DEF TypeOK
      <4> QED
        BY <4>1, <4>2
    <3> QED
      BY <1>7, <3>1, LocalsOfHandlers DEF StoreInboxItem, locals
  <2>2. R' = R
    BY <2>1 DEF InboxRows
  <2>3. U' \subseteq U \cup {h}
    BY <2>1 DEF Unlogged
  <2>4. /\ IsFiniteSet(U \cup {h}) /\ Cardinality(U \cup {h}) <= Cardinality(U) + 1
        /\ Cardinality(U \cup {h}) \in Nat
    <3> HIDE DEF U
    <3>1. /\ IsFiniteSet(U \cup {h})
          /\ Cardinality(U \cup {h}) = IF h \in U THEN Cardinality(U) ELSE Cardinality(U) + 1
      BY <1>1, FS_AddElement
    <3> QED
      BY <1>1, <3>1
  <2>5. Cardinality(U') <= Cardinality(U) + 1 /\ Cardinality(U') \in Nat
    <3>1. Cardinality(U') <= Cardinality(U \cup {h}) /\ Cardinality(U') \in Nat
      BY <2>3, <2>4, FS_Subset, FS_CardinalityType
    <3> QED
      BY <1>1, <2>4, <3>1
  <2>6. Cardinality(R') + Cardinality(U') <= Len(inbox_items')
    BY <1>1, <2>1, <2>2, <2>5
  <2> QED
    BY <1>3, <2>1, <2>6 DEF AuditInv
<1>8. ASSUME NEW h \in Handlers, RecordLog(h) PROVE AuditInv'
  <2>1. PICK last : /\ last \notin DOMAIN request_logs
                    /\ DOMAIN request_logs' = DOMAIN request_logs \cup {last}
                    /\ \A n \in DOMAIN request_logs : request_logs'[n] = request_logs[n]
                    /\ request_logs'[last] = LogRow(h)
    BY <1>8, RowStep
  <2>2. /\ pc[h] = "log" /\ pc'[h] = "read_score" /\ UNCHANGED <<req, outcome, entries, inbox_items>>
        /\ req[h] \in Requests /\ req[h].data \in Data
        /\ \A g \in Handlers \ {h} : pc'[g] = pc[g]
    <3>1. /\ pc[h] = "log" /\ pc' = [pc EXCEPT ![h] = "read_score"]
          /\ UNCHANGED <<req, outcome, entries, inbox_items>>
      BY <1>8 DEF RecordLog, locals
    <3> QED
      BY <3>1 DEF TypeOK, Steps
  <2>3. /\ LogRow(h).outcome = outcome[h] /\ LogRow(h).request_kind = req[h].kind
        /\ LogRow(h).slot_id = IF req[h].kind = "slot" THEN req[h].key ELSE None
    BY DEF LogRow
  <2>4. outcome[h] = "accepted" /\ req[h].kind = "slot" => req[h].key \in Keys /\ entries["slot"][req[h].key] # None
    <3>1. req[h].key \in Keys
      BY <2>2, BridgeAssumption DEF RequestSet
    <3>2. outcome[h] = "accepted" => Stored(req[h])
      BY <2>2 DEF DurableInv
    <3>3. req[h].data # None
      BY <2>2, BridgeAssumption
    <3> QED
      BY <3>1, <3>2, <3>3 DEF Stored
  <2>5. ASSUME NEW n \in DOMAIN request_logs',
               request_logs'[n].outcome = "accepted", request_logs'[n].request_kind = "slot"
        PROVE  /\ request_logs'[n].slot_id \in Keys
               /\ entries'["slot"][request_logs'[n].slot_id] # None
    <3>1. CASE n = last
      BY <2>1, <2>2, <2>3, <2>4, <2>5, <3>1
    <3>2. CASE n # last
      <4>1. n \in DOMAIN request_logs /\ request_logs'[n] = request_logs[n]
        BY <2>1, <3>2
      <4> QED
        BY <1>3, <2>5, <4>1
    <3> QED
      BY <3>1, <3>2
  <2>6. Cardinality(R') + Cardinality(U') <= Len(inbox_items')
    <3>1. U' = U \ {h} /\ last \notin R
      <4>1. U' = U \ {h}
        BY <2>2 DEF Unlogged
      <4> QED
        BY <2>1, <4>1 DEF InboxRows
    <3>2. CASE outcome[h] = "accepted" /\ req[h].kind = "inbox"
      <4>1. R' = R \cup {last}
        <5>1. request_logs'[last].outcome = "accepted" /\ request_logs'[last].request_kind = "inbox"
          BY <2>1, <2>3, <3>2
        <5> QED
          BY <2>1, <5>1 DEF InboxRows
      <4>2. h \in U
        BY <2>2, <3>2 DEF Unlogged
      <4>3. Cardinality(R') = Cardinality(R) + 1 /\ Cardinality(U') = Cardinality(U) - 1
        <5> HIDE DEF R, U
        <5>1. Cardinality(R') = Cardinality(R) + 1
          BY <1>1, <3>1, <4>1, FS_AddElement
        <5>2. Cardinality(U') = Cardinality(U) - 1
          BY <1>1, <3>1, <4>2, FS_RemoveElement
        <5> QED
          BY <5>1, <5>2
      <4> QED
        BY <1>1, <2>2, <4>3
    <3>3. CASE ~(outcome[h] = "accepted" /\ req[h].kind = "inbox")
      <4>1. R' = R
        <5>1. ~(request_logs'[last].outcome = "accepted" /\ request_logs'[last].request_kind = "inbox")
          BY <2>1, <2>3, <3>3
        <5> QED
          BY <2>1, <5>1 DEF InboxRows
      <4>2. U' = U
        BY <3>1, <3>3 DEF Unlogged
      <4> QED
        BY <1>1, <2>2, <4>1, <4>2
    <3> QED
      BY <3>2, <3>3
  <2> QED
    BY <2>5, <2>6 DEF AuditInv
<1>9. ASSUME NEW h \in Handlers, WriteScore(h) \/ Abort(h) PROVE AuditInv'
  <2>1. /\ UNCHANGED <<request_logs, inbox_items>> /\ pc'[h] = "answered"
        /\ \A g \in Handlers \ {h} : pc'[g] = pc[g] /\ req'[g] = req[g] /\ outcome'[g] = outcome[g]
    BY <1>9, Released DEF WriteScore, Abort, db
  <2>2. U' \subseteq U
    BY <2>1 DEF Unlogged
  <2> QED
    BY <1>4, <2>1, <2>2
<1>10. CASE Restart
  <2>1. UNCHANGED <<request_logs, inbox_items>> /\ U' \subseteq U
    BY <1>10 DEF Restart, db, Unlogged
  <2> QED
    BY <1>4, <2>1
<1>11. CASE Tick \/ UNCHANGED vars
  <2>1. UNCHANGED <<request_logs, inbox_items>> /\ U' \subseteq U
    BY <1>11 DEF Tick, vars, db, locals, Unlogged
  <2> QED
    BY <1>4, <2>1
<1> QED
  BY <1>5, <1>6, <1>7, <1>8, <1>9, <1>10, <1>11 DEF Next, HandlerStep

(* Handlers are dropped and restarted between storing and logging, and the *)
(* audit log still never claims a store that did not happen.               *)
THEOREM AuditTheorem == Spec => []AuditedIsStored
<1>1. TypeOK /\ AuditInv => AuditedIsStored
  <2> SUFFICES ASSUME TypeOK, AuditInv PROVE AuditedIsStored
    OBVIOUS
  <2>1. Cardinality(InboxRows) <= Len(inbox_items)
    <3>1. PICK a \in Nat, b \in Nat, c \in Nat :
            a = Cardinality(InboxRows) /\ b = Cardinality(Unlogged) /\ c = Len(inbox_items)
      BY AuditFinite
    <3>2. a + b <= c
      BY <3>1 DEF AuditInv
    <3> QED
      BY <3>1, <3>2
  <2> QED
    BY <2>1 DEF AuditInv, AuditedIsStored, InboxRows
<1> QED
  BY <1>1, TypeInit, TypeNext, AddressedInit, AddressedNext, DurableInit, DurableNext,
     AuditInit, AuditNext, PTL DEF Spec

-----------------------------------------------------------------------------
(* Reputation.                                                             *)

(* Handlers whose row is in the log and whose score is not written yet.    *)
Pending(i, result) ==
    {h \in Handlers :
        /\ pc[h] \in {"read_score", "write_score"}
        /\ Identity(req[h]) = i /\ outcome[h] = result}

(* A score that leaves room for every pending update: each has its row     *)
(* already.                                                                *)
Earned(i, score) ==
    /\ score \in -MaxDebt .. MaxScore
    /\ score + Cardinality(Pending(i, "accepted")) <= Cardinality(Outcome(i, "accepted"))
    /\ -score + Cardinality(Pending(i, "rejected")) <= Cardinality(Outcome(i, "rejected"))

(* The stored scores and the ones handlers have read are earned.           *)
ScoreInv ==
    /\ \A i \in Identities : Earned(i, reputation[i])
    /\ \A h \in Handlers : pc[h] = "write_score" => Earned(Identity(req[h]), current[h])

(* Pending updates and rows of an outcome are finitely many.               *)
LEMMA CountsFinite ==
    ASSUME TypeOK, NEW i, NEW result
    PROVE  /\ IsFiniteSet(Pending(i, result)) /\ Cardinality(Pending(i, result)) \in Nat
           /\ IsFiniteSet(Outcome(i, result)) /\ Cardinality(Outcome(i, result)) \in Nat
<1>1. IsFiniteSet(Pending(i, result))
  BY BridgeAssumption, FS_Subset DEF Pending
<1>2. Outcome(i, result) \in SUBSET DOMAIN request_logs
  BY DEF Outcome
<1> QED
  BY <1>1, <1>2, RowsFinite, FS_CardinalityType

(* No rows, no pending updates, and zero scores.                           *)
LEMMA ScoreInit == Init => ScoreInv
<1> SUFFICES ASSUME Init PROVE ScoreInv
  OBVIOUS
<1>1. \A i : \A result : Pending(i, result) = {} /\ Outcome(i, result) = {}
  BY DEF Init, Pending, Outcome
<1>2. 0 \in -MaxDebt .. MaxScore
  BY Limits
<1>3. \A i : Earned(i, 0)
  BY <1>1, <1>2, FS_EmptySet DEF Earned
<1> QED
  BY <1>3 DEF Init, ScoreInv

(* A step that logs nothing and finishes or drops pending updates leaves   *)
(* an earned score earned.                                                 *)
LEMMA EarnedKept ==
    ASSUME TypeOK, TypeOK', NEW i, NEW score, Earned(i, score), UNCHANGED request_logs,
           \A result : Pending(i, result)' \subseteq Pending(i, result)
    PROVE  Earned(i, score)'
<1>1. ASSUME NEW result
      PROVE  /\ Cardinality(Outcome(i, result)') = Cardinality(Outcome(i, result))
             /\ Cardinality(Pending(i, result)') <= Cardinality(Pending(i, result))
             /\ Cardinality(Pending(i, result)') \in Nat /\ Cardinality(Pending(i, result)) \in Nat
             /\ Cardinality(Outcome(i, result)) \in Nat
  <2>1. Outcome(i, result)' = Outcome(i, result)
    BY DEF Outcome
  <2>2. Pending(i, result)' \subseteq Pending(i, result)
    OBVIOUS
  <2>3. IsFiniteSet(Pending(i, result))
    BY CountsFinite
  <2>4. Cardinality(Pending(i, result)') <= Cardinality(Pending(i, result))
    BY <2>2, <2>3, FS_Subset
  <2>5. Cardinality(Pending(i, result)') \in Nat
    BY <2>2, <2>3, FS_Subset, FS_CardinalityType
  <2> QED
    BY <2>1, <2>4, <2>5, CountsFinite
<1>2. score \in Int /\ score \in -MaxDebt .. MaxScore
  BY Limits DEF Earned
<1> QED
  BY <1>1, <1>2 DEF Earned

(* The row a handler logs makes room for the update that is now pending.   *)
LEMMA EarnedByRow ==
    ASSUME TypeOK, NEW h \in Handlers, RecordLog(h), NEW i, NEW score, Earned(i, score)
    PROVE  Earned(i, score)'
<1>1. PICK last : /\ last \notin DOMAIN request_logs
                  /\ DOMAIN request_logs' = DOMAIN request_logs \cup {last}
                  /\ \A n \in DOMAIN request_logs : request_logs'[n] = request_logs[n]
                  /\ request_logs'[last] = LogRow(h)
  BY RowStep
<1>2. LogRow(h).identity = Identity(req[h]) /\ LogRow(h).outcome = outcome[h]
  BY DEF LogRow
<1>3. pc[h] = "log" /\ pc' = [pc EXCEPT ![h] = "read_score"] /\ UNCHANGED <<req, outcome>>
  BY DEF RecordLog, locals
<1>4. ASSUME NEW result
      PROVE  /\ Cardinality(Outcome(i, result)') - Cardinality(Outcome(i, result))
                  = Cardinality(Pending(i, result)') - Cardinality(Pending(i, result))
             /\ Cardinality(Outcome(i, result)) \in Nat /\ Cardinality(Outcome(i, result)') \in Nat
             /\ Cardinality(Pending(i, result)) \in Nat /\ Cardinality(Pending(i, result)') \in Nat
  <2> DEFINE O == Outcome(i, result)
             P == Pending(i, result)
  <2>1. /\ IsFiniteSet(O) /\ IsFiniteSet(P) /\ Cardinality(O) \in Nat /\ Cardinality(P) \in Nat
        /\ last \notin O /\ h \notin P
    <3>1. last \notin O
      BY <1>1 DEF Outcome
    <3>2. h \notin P
      BY <1>3 DEF Pending
    <3> QED
      BY <3>1, <3>2, CountsFinite
  <2>2. CASE Identity(req[h]) = i /\ outcome[h] = result
    <3>1. O' = O \cup {last}
      <4>1. request_logs'[last].identity = i /\ request_logs'[last].outcome = result
        BY <1>1, <1>2, <2>2
      <4> QED
        BY <1>1, <4>1 DEF Outcome
    <3>2. P' = P \cup {h}
      BY <1>3, <2>2 DEF Pending, Identity, TypeOK
    <3>3. Cardinality(O') = Cardinality(O) + 1 /\ Cardinality(P') = Cardinality(P) + 1
      <4> HIDE DEF O, P
      <4> QED
        BY <2>1, <3>1, <3>2, FS_AddElement
    <3> QED
      BY <2>1, <3>3
  <2>3. CASE ~(Identity(req[h]) = i /\ outcome[h] = result)
    <3>1. O' = O
      <4>1. ~(request_logs'[last].identity = i /\ request_logs'[last].outcome = result)
        BY <1>1, <1>2, <2>3
      <4> QED
        BY <1>1, <4>1 DEF Outcome
    <3>2. P' = P
      BY <1>3, <2>3 DEF Pending, Identity, TypeOK
    <3> QED
      BY <2>1, <3>1, <3>2
  <2> QED
    BY <2>2, <2>3
<1>5. score \in Int /\ score \in -MaxDebt .. MaxScore
  BY Limits DEF Earned
<1> QED
  BY <1>4, <1>5 DEF Earned

(* update_reputation loses updates when handlers interleave, but what one  *)
(* handler writes still leaves room for what the others will write.        *)
LEMMA ScoreNext == TypeOK /\ TypeOK' /\ ScoreInv /\ [Next]_vars => ScoreInv'
<1> SUFFICES ASSUME TypeOK, TypeOK', ScoreInv, [Next]_vars PROVE ScoreInv'
  OBVIOUS
<1> USE DEF Resting, Steps
(* Steps that neither log nor touch a score.                               *)
<1>1. ASSUME UNCHANGED <<request_logs, reputation>>,
             \A i, result : Pending(i, result)' \subseteq Pending(i, result),
             \A h \in Handlers : pc'[h] = "write_score" =>
                /\ pc[h] = "write_score"
                /\ req'[h] = req[h] /\ current'[h] = current[h]
      PROVE  ScoreInv'
  <2>1. ASSUME NEW i \in Identities PROVE Earned(i, reputation[i])'
    <3>1. PICK score : score = reputation[i]
      OBVIOUS
    <3>2. Earned(i, score)
      BY <3>1 DEF ScoreInv
    <3>3. Earned(i, score)'
      BY <1>1, <3>2, EarnedKept
    <3> QED
      BY <1>1, <3>1, <3>3 DEF Earned
  <2>2. ASSUME NEW h \in Handlers, pc'[h] = "write_score" PROVE Earned(Identity(req[h]), current[h])'
    <3>1. PICK i, score : i = Identity(req[h]) /\ score = current[h]
      OBVIOUS
    <3>2. Earned(i, score)
      BY <1>1, <2>2, <3>1 DEF ScoreInv
    <3>3. Earned(i, score)'
      BY <1>1, <3>2, EarnedKept
    <3>4. i = Identity(req'[h]) /\ score = current'[h]
      BY <1>1, <2>2, <3>1
    <3> QED
      BY <3>3, <3>4 DEF Earned, Pending, Outcome, Identity
  <2> QED
    BY <2>1, <2>2 DEF ScoreInv
<1>2. ASSUME NEW h \in Handlers, Receive(h) PROVE ScoreInv'
  <2>1. PICK r \in Requests : RefuseUnparsed(h, r) \/ StartPut(h, r) \/ StartSlot(h, r)
    BY <1>2 DEF Receive
  <2>2. /\ UNCHANGED <<request_logs, reputation, current>>
        /\ pc'[h] \notin {"read_score", "write_score"}
        /\ \A g \in Handlers \ {h} : pc'[g] = pc[g] /\ req'[g] = req[g] /\ outcome'[g] = outcome[g]
    <3>1. UNCHANGED <<request_logs, reputation, current>>
      BY <1>2 DEF Receive, db
    <3> QED
      BY <2>1, <3>1, LocalsOfHandlers DEF RefuseUnparsed, StartPut, StartSlot
  <2>3. \A i, result : Pending(i, result)' \subseteq Pending(i, result)
    BY <2>2 DEF Pending, Identity
  <2> QED
    BY <1>1, <2>2, <2>3
<1>3. ASSUME NEW h \in Handlers,
             \/ LoadVolume(h) \/ LoadStanding(h) \/ Validate(h)
             \/ StoreEntry(h) \/ StoreInboxKey(h) \/ StoreInboxItem(h)
      PROVE  ScoreInv'
  <2>1. /\ UNCHANGED <<request_logs, reputation, current, req>>
        /\ pc'[h] \notin {"read_score", "write_score"}
        /\ \A g \in Handlers \ {h} : pc'[g] = pc[g] /\ outcome'[g] = outcome[g]
    BY <1>3, LocalsOfHandlers DEF LoadVolume, LoadStanding, Validate, StoreEntry, StoreInboxKey,
                                  StoreInboxItem, db, locals
  <2>2. \A i, result : Pending(i, result)' \subseteq Pending(i, result)
    BY <2>1 DEF Pending, Identity
  <2> QED
    BY <1>1, <2>1, <2>2
<1>4. ASSUME NEW h \in Handlers, RecordLog(h) PROVE ScoreInv'
  <2>1. /\ UNCHANGED <<reputation, req, current>>
        /\ \A g \in Handlers : pc'[g] = "write_score" => pc[g] = "write_score"
    BY <1>4 DEF RecordLog, locals, TypeOK
  <2>2. ASSUME NEW i \in Identities PROVE Earned(i, reputation[i])'
    <3>1. PICK score : score = reputation[i]
      OBVIOUS
    <3>2. Earned(i, score)'
      BY <1>4, <3>1, EarnedByRow DEF ScoreInv
    <3> QED
      BY <2>1, <3>1, <3>2 DEF Earned
  <2>3. ASSUME NEW g \in Handlers, pc'[g] = "write_score" PROVE Earned(Identity(req[g]), current[g])'
    <3>1. PICK i, score : i = Identity(req[g]) /\ score = current[g]
      OBVIOUS
    <3>2. Earned(i, score)
      BY <2>1, <2>3, <3>1 DEF ScoreInv
    <3>3. Earned(i, score)'
      BY <1>4, <3>2, EarnedByRow
    <3>4. i = Identity(req'[g]) /\ score = current'[g]
      BY <2>1, <3>1
    <3> QED
      BY <3>3, <3>4 DEF Earned, Pending, Outcome, Identity
  <2> QED
    BY <2>2, <2>3 DEF ScoreInv
<1>5. ASSUME NEW h \in Handlers, ReadScore(h) PROVE ScoreInv'
  <2>1. /\ UNCHANGED <<request_logs, reputation, req, outcome>>
        /\ pc[h] = "read_score" /\ current'[h] = reputation[Identity(req[h])]
        /\ req[h] \in Requests
        /\ \A g \in Handlers \ {h} : pc'[g] = pc[g] /\ current'[g] = current[g]
    <3>1. pc[h] = "read_score" /\ req[h] \in Requests
      BY <1>5 DEF ReadScore, TypeOK
    <3> QED
      BY <1>5, <3>1, LocalsOfHandlers DEF ReadScore, db
  <2>2. \A i, result : Pending(i, result)' \subseteq Pending(i, result)
    BY <2>1 DEF Pending, Identity
  <2>3. ASSUME NEW i \in Identities PROVE Earned(i, reputation[i])'
    <3>1. PICK score : score = reputation[i]
      OBVIOUS
    <3>2. Earned(i, score)'
      BY <2>1, <2>2, <3>1, EarnedKept DEF ScoreInv
    <3> QED
      BY <2>1, <3>1, <3>2 DEF Earned
  <2>4. ASSUME NEW g \in Handlers, pc'[g] = "write_score" PROVE Earned(Identity(req[g]), current[g])'
    <3>1. PICK i, score : i = Identity(req[g]) /\ score = current'[g]
      OBVIOUS
    <3>2. Earned(i, score)
      <4>1. CASE g = h
        BY <2>1, <3>1, <4>1, IdentityType DEF ScoreInv
      <4>2. CASE g # h
        BY <2>1, <2>4, <3>1, <4>2 DEF ScoreInv
      <4> QED
        BY <4>1, <4>2
    <3>3. Earned(i, score)'
      BY <2>1, <2>2, <3>2, EarnedKept
    <3>4. i = Identity(req'[g])
      BY <2>1, <3>1
    <3> QED
      BY <3>1, <3>3, <3>4 DEF Earned, Pending, Outcome, Identity
  <2> QED
    BY <2>3, <2>4 DEF ScoreInv
<1>6. ASSUME NEW h \in Handlers, WriteScore(h) PROVE ScoreInv'
  <2>1. /\ UNCHANGED request_logs
        /\ pc[h] = "write_score" /\ pc'[h] = "answered"
        /\ req[h] \in Requests /\ outcome[h] \in Outcomes
        /\ reputation' = [reputation EXCEPT ![Identity(req[h])] = NextScore(current[h], outcome[h])]
        /\ \A g \in Handlers \ {h} : /\ pc'[g] = pc[g] /\ req'[g] = req[g]
                                      /\ outcome'[g] = outcome[g] /\ current'[g] = current[g]
    <3>1. pc[h] = "write_score" /\ req[h] \in Requests /\ outcome[h] \in Outcomes
      BY <1>6 DEF WriteScore, TypeOK
    <3> QED
      BY <1>6, <3>1, Released DEF WriteScore
  <2>2. \A i, result : Pending(i, result)' \subseteq Pending(i, result)
    BY <2>1 DEF Pending, Identity
  <2>3. PICK me, read, result : /\ me = Identity(req[h]) /\ read = current[h]
                                /\ result = outcome[h]
    OBVIOUS
  <2>4. Earned(me, read) /\ me \in Identities /\ result \in Outcomes
    BY <2>1, <2>3, IdentityType DEF ScoreInv
  <2>5. Earned(me, NextScore(read, result))'
    <3>1. Earned(me, read)'
      BY <2>1, <2>2, <2>4, EarnedKept
    <3>2. /\ read \in Int /\ read \in -MaxDebt .. MaxScore
          /\ MaxScore \in Nat /\ MaxDebt \in Nat
      BY <2>4, Limits DEF Earned
    <3>3. Cardinality(Pending(me, result)') = Cardinality(Pending(me, result)) - 1
      <4>1. Pending(me, result)' = Pending(me, result) \ {h} /\ h \in Pending(me, result)
        BY <2>1, <2>3 DEF Pending, Identity
      <4>2. IsFiniteSet(Pending(me, result))
        BY CountsFinite
      <4> QED
        BY <4>1, <4>2, FS_RemoveElement
    <3>4. \A x : /\ Cardinality(Pending(me, x)) \in Nat /\ Cardinality(Outcome(me, x)) \in Nat
                 /\ Cardinality(Outcome(me, x)') = Cardinality(Outcome(me, x))
      <4> TAKE x
      <4>1. Outcome(me, x)' = Outcome(me, x)
        BY <2>1 DEF Outcome
      <4> QED
        BY <4>1, CountsFinite
    <3>5. \A x : Cardinality(Pending(me, x)') \in Nat
      <4> TAKE x
      <4>1. Pending(me, x)' \subseteq Pending(me, x) /\ IsFiniteSet(Pending(me, x))
        BY <2>2, CountsFinite
      <4> QED
        BY <4>1, FS_Subset, FS_CardinalityType
    <3>6. PICK p, q, o, r, p0, q0 :
              /\ p = Cardinality(Pending(me, "accepted")') /\ p \in Nat
              /\ q = Cardinality(Pending(me, "rejected")') /\ q \in Nat
              /\ p0 = Cardinality(Pending(me, "accepted")) /\ p0 \in Nat
              /\ q0 = Cardinality(Pending(me, "rejected")) /\ q0 \in Nat
              /\ o = Cardinality(Outcome(me, "accepted")) /\ o \in Nat
              /\ o = Cardinality(Outcome(me, "accepted")')
              /\ r = Cardinality(Outcome(me, "rejected")) /\ r \in Nat
              /\ r = Cardinality(Outcome(me, "rejected")')
      <4>1. /\ Cardinality(Pending(me, "accepted")') \in Nat
            /\ Cardinality(Pending(me, "rejected")') \in Nat
        BY <3>5
      <4>2. /\ Cardinality(Outcome(me, "accepted")') = Cardinality(Outcome(me, "accepted"))
            /\ Cardinality(Outcome(me, "rejected")') = Cardinality(Outcome(me, "rejected"))
        BY <3>4
      <4> QED
        BY <3>4, <4>1, <4>2
    <3>7. read + p0 <= o /\ -read + q0 <= r /\ read + p <= o /\ -read + q <= r
      <4>1. read + p0 <= o /\ -read + q0 <= r
        BY <2>4, <3>6 DEF Earned
      <4>2. read + p <= o /\ -read + q <= r
        BY <3>1, <3>6 DEF Earned
      <4> QED
        BY <4>1, <4>2
    <3>8. CASE result = "accepted"
      <4>1. NextScore(read, result) = IF read + 1 <= MaxScore THEN read + 1 ELSE MaxScore
        BY <3>8 DEF NextScore
      <4>2. /\ NextScore(read, result) \in -MaxDebt .. MaxScore /\ NextScore(read, result) \in Int
            /\ NextScore(read, result) <= read + 1 /\ NextScore(read, result) >= read
        BY <3>2, <4>1
      <4>3. PICK n : n = NextScore(read, result) /\ n \in Int
        BY <4>2
      <4>4. n <= read + 1 /\ n >= read
        BY <4>2, <4>3
      <4>5. p = p0 - 1
        BY <3>3, <3>6, <3>8
      <4>6. n \in Int /\ p \in Nat /\ q \in Nat /\ o \in Nat /\ r \in Nat /\ p0 \in Nat /\ q0 \in Nat /\ read \in Int
        BY <3>2, <3>6, <4>3
      <4>7. n + p <= o /\ -n + q <= r
        BY ONLY <3>7, <4>4, <4>5, <4>6
      <4> QED
        BY <3>6, <4>2, <4>3, <4>7 DEF Earned
    <3>9. CASE result = "rejected"
      <4>1. NextScore(read, result) = IF read - 1 >= -MaxDebt THEN read - 1 ELSE -MaxDebt
        BY <3>9 DEF NextScore
      <4>2. /\ NextScore(read, result) \in -MaxDebt .. MaxScore /\ NextScore(read, result) \in Int
            /\ NextScore(read, result) >= read - 1 /\ NextScore(read, result) <= read
        BY <3>2, <4>1
      <4>3. PICK n : n = NextScore(read, result) /\ n \in Int
        BY <4>2
      <4>4. n >= read - 1 /\ n <= read
        BY <4>2, <4>3
      <4>5. q = q0 - 1
        BY <3>3, <3>6, <3>9
      <4>6. n \in Int /\ p \in Nat /\ q \in Nat /\ o \in Nat /\ r \in Nat /\ p0 \in Nat /\ q0 \in Nat /\ read \in Int
        BY <3>2, <3>6, <4>3
      <4>7. n + p <= o /\ -n + q <= r
        BY ONLY <3>7, <4>4, <4>5, <4>6
      <4> QED
        BY <3>6, <4>2, <4>3, <4>7 DEF Earned
    <3> QED
      BY <2>4, <3>8, <3>9 DEF Outcomes
  <2>6. ASSUME NEW i \in Identities PROVE Earned(i, reputation[i])'
    <3>1. PICK score : score = reputation'[i]
      OBVIOUS
    <3>2. Earned(i, score)'
      <4>1. CASE i = me
        <5>1. score = NextScore(read, result)
          BY <2>1, <2>3, <3>1, <4>1 DEF TypeOK
        <5> QED
          BY <2>5, <4>1, <5>1
      <4>2. CASE i # me
        <5>1. score = reputation[i]
          BY <2>1, <2>3, <3>1, <4>2 DEF TypeOK
        <5>2. Earned(i, score)
          BY <5>1 DEF ScoreInv
        <5> QED
          BY <2>1, <2>2, <5>2, EarnedKept
      <4> QED
        BY <4>1, <4>2
    <3> QED
      BY <3>1, <3>2 DEF Earned
  <2>7. ASSUME NEW g \in Handlers, pc'[g] = "write_score" PROVE Earned(Identity(req[g]), current[g])'
    <3>1. PICK i, score : i = Identity(req[g]) /\ score = current[g]
      OBVIOUS
    <3>2. g # h /\ Earned(i, score)
      BY <2>1, <2>7, <3>1 DEF ScoreInv
    <3>3. Earned(i, score)'
      BY <2>1, <2>2, <3>2, EarnedKept
    <3>4. i = Identity(req'[g]) /\ score = current'[g]
      BY <2>1, <3>1, <3>2
    <3> QED
      BY <3>3, <3>4 DEF Earned, Pending, Outcome, Identity
  <2> QED
    BY <2>6, <2>7 DEF ScoreInv
<1>7. ASSUME NEW h \in Handlers, Abort(h) PROVE ScoreInv'
  <2>1. /\ UNCHANGED <<request_logs, reputation>> /\ pc'[h] = "answered"
        /\ \A g \in Handlers \ {h} : /\ pc'[g] = pc[g] /\ req'[g] = req[g]
                                      /\ outcome'[g] = outcome[g] /\ current'[g] = current[g]
    BY <1>7, Released DEF Abort, db
  <2>2. \A i, result : Pending(i, result)' \subseteq Pending(i, result)
    BY <2>1 DEF Pending, Identity
  <2> QED
    BY <1>1, <2>1, <2>2
<1>8. CASE Restart
  <2>1. UNCHANGED <<request_logs, reputation>> /\ \A h \in Handlers : pc'[h] = "idle"
    BY <1>8 DEF Restart, db
  <2>2. \A i, result : Pending(i, result)' \subseteq Pending(i, result)
    BY <2>1 DEF Pending
  <2> QED
    BY <1>1, <2>1, <2>2
<1>9. CASE Tick \/ UNCHANGED vars
  <2>1. UNCHANGED <<request_logs, reputation, pc, req, outcome, current>>
    BY <1>9 DEF Tick, vars, db, locals
  <2>2. \A i, result : Pending(i, result)' \subseteq Pending(i, result)
    BY <2>1 DEF Pending, Identity
  <2> QED
    BY <1>1, <2>1, <2>2
<1> QED
  BY <1>2, <1>3, <1>4, <1>5, <1>6, <1>7, <1>8, <1>9 DEF Next, HandlerStep

(* Although updates of a score race and get lost, no score exceeds the     *)
(* accepted rows of its identity or falls below minus its rejected rows.   *)
THEOREM ReputationTheorem == Spec => []ReputationEarned
<1>1. TypeOK /\ ScoreInv => ReputationEarned
  <2> SUFFICES ASSUME TypeOK, ScoreInv, NEW i \in Identities
               PROVE  /\ reputation[i] <= Cardinality(Outcome(i, "accepted"))
                      /\ -reputation[i] <= Cardinality(Outcome(i, "rejected"))
    BY DEF ReputationEarned
  <2>1. Earned(i, reputation[i]) /\ reputation[i] \in Int
    BY DEF ScoreInv, TypeOK
  <2>2. \A x : Cardinality(Pending(i, x)) \in Nat /\ Cardinality(Outcome(i, x)) \in Nat
    BY CountsFinite
  <2> QED
    BY <2>1, <2>2 DEF Earned
<1> QED
  BY <1>1, TypeInit, TypeNext, ScoreInit, ScoreNext, PTL DEF Spec

=============================================================================
