------------------------- MODULE BridgeVolumeProofs -------------------------
(* Proofs of the bounds on what one identity gets through a window, for    *)
(* any number of handlers, identities, keys and requests, and any limits.  *)
EXTENDS BridgeProofs

-----------------------------------------------------------------------------
(* The bound on the requests of one window.                                *)

(* What a snapshot counts includes every accepted row of any window that   *)
(* contains the time of the snapshot.                                      *)
LEMMA SnapshotCountsWindow ==
    ASSUME TypeOK, NEW i, NEW start \in Nat, NEW t \in start .. start + Window
    PROVE  /\ AcceptedIn(i, start) \subseteq Recent(i, t)
           /\ Cardinality(AcceptedIn(i, start)) <= Cardinality(Recent(i, t))
<1>1. \A n \in DOMAIN request_logs : request_logs[n].timestamp \in Nat
  <2>1. \A n \in DOMAIN request_logs : request_logs[n] \in RowSet
    BY DEF TypeOK
  <2> QED
    BY <2>1 DEF RowSet
<1>2. Window \in Nat
  BY Limits
<1>3. AcceptedIn(i, start) \subseteq Recent(i, t)
  <2> SUFFICES ASSUME NEW n \in AcceptedIn(i, start) PROVE n \in Recent(i, t)
    OBVIOUS
  <2> DEFINE ts == request_logs[n].timestamp
  <2>1. /\ n \in DOMAIN request_logs /\ request_logs[n].identity = i
        /\ ts \in Nat /\ ts >= start
    BY <1>1, <1>2 DEF AcceptedIn
  <2>2. ts >= (IF t >= Window THEN t - Window ELSE 0)
    BY <1>2, <2>1
  <2> QED
    BY <2>1, <2>2 DEF Recent
<1>4. Recent(i, t) \in SUBSET DOMAIN request_logs
  BY DEF Recent
<1>5. IsFiniteSet(Recent(i, t))
  BY <1>4, RowsFinite
<1> QED
  BY <1>3, <1>5, FS_Subset

(* Counting rows of a log that grows by one row.                           *)
LEMMA AcceptedInAppend ==
    ASSUME TypeOK, NEW h \in Handlers, RecordLog(h), NEW i, NEW start \in Nat
    PROVE  AcceptedIn(i, start)' =
             IF /\ Identity(req[h]) = i /\ outcome[h] = "accepted"
                /\ now[h] \in start .. start + Window
             THEN AcceptedIn(i, start) \cup {Len(request_logs) + 1}
             ELSE AcceptedIn(i, start)
<1>1. /\ Len(request_logs) \in Nat
      /\ DOMAIN request_logs = 1 .. Len(request_logs)
      /\ DOMAIN request_logs' = 1 .. Len(request_logs) + 1
      /\ \A n \in 1 .. Len(request_logs) : request_logs'[n] = request_logs[n]
      /\ request_logs'[Len(request_logs) + 1] = LogRow(h)
  BY DEF RecordLog, TypeOK
<1>2. /\ LogRow(h).identity = Identity(req[h])
      /\ LogRow(h).outcome = outcome[h]
      /\ LogRow(h).timestamp = now[h]
  BY DEF LogRow
<1> QED
  BY <1>1, <1>2 DEF AcceptedIn

-----------------------------------------------------------------------------
(* Handlers that may still add an accepted row: those between their        *)
(* snapshot and the verdict, and those with a favourable verdict.          *)

Serves(h, i, start) ==
    req[h] # None /\ Identity(req[h]) = i /\ now[h] \in start .. start + Window

Waiting(h) == pc[h] \in {"standing", "validate"}

Cleared(h) == pc[h] \in {"store", "store_item", "log"} /\ outcome[h] = "accepted"

(* A step that neither counts rows nor adds one lets no handler into this  *)
(* group, except past the verdict on the snapshot it waited with.          *)
Quiet(g) ==
    /\ Waiting(g)' => /\ Waiting(g) /\ req'[g] = req[g] /\ now'[g] = now[g]
                      /\ snapshot'[g].recent_requests = snapshot[g].recent_requests
                      /\ snapshot'[g].recent_bytes = snapshot[g].recent_bytes
    /\ Cleared(g)' => /\ req'[g] = req[g] /\ now'[g] = now[g]
                      /\ \/ Cleared(g)
                         \/ pc[g] = "validate" /\ Passes(req[g], snapshot[g], clock)

(* A handler whose locals a step leaves alone is quiet.                    *)
LEMMA StillQuiet ==
    ASSUME NEW g, pc'[g] = pc[g], req'[g] = req[g], now'[g] = now[g],
           outcome'[g] = outcome[g], snapshot'[g] = snapshot[g]
    PROVE  Quiet(g)
BY DEF Quiet, Waiting, Cleared

(* Every step other than load_rate_limit_snapshot's first SELECT and       *)
(* record_request_log is quiet for every handler.                          *)
LEMMA QuietStep ==
    ASSUME TypeOK, [Next]_vars, \A h \in Handlers : ~LoadVolume(h) /\ ~RecordLog(h)
    PROVE  UNCHANGED request_logs /\ \A g \in Handlers : Quiet(g)
<1> USE DEF Resting, Steps
<1>1. ASSUME NEW h \in Handlers, Receive(h)
      PROVE  UNCHANGED request_logs /\ \A g \in Handlers : Quiet(g)
  <2>1. PICK r \in Requests : RefuseUnparsed(h, r) \/ StartPut(h, r) \/ StartSlot(h, r)
    BY <1>1 DEF Receive
  <2>2. /\ \/ pc'[h] \in {"answered", "volume"}
           \/ pc'[h] = "log" /\ outcome'[h] = "rejected"
        /\ \A g \in Handlers \ {h} : /\ pc'[g] = pc[g] /\ req'[g] = req[g]
                                    /\ now'[g] = now[g] /\ outcome'[g] = outcome[g]
    <3>1. CASE RefuseUnparsed(h, r)
      BY <3>1, LocalsOfHandlers DEF RefuseUnparsed
    <3>2. CASE StartPut(h, r)
      BY <3>2, LocalsOfHandlers DEF StartPut
    <3>3. CASE StartSlot(h, r)
      BY <3>3, LocalsOfHandlers DEF StartSlot
    <3> QED
      BY <2>1, <3>1, <3>2, <3>3
  <2>3. UNCHANGED snapshot /\ UNCHANGED request_logs
    BY <1>1 DEF Receive, db
  <2>4. Quiet(h)
    BY <2>2 DEF Quiet, Waiting, Cleared
  <2>5. \A g \in Handlers \ {h} : Quiet(g)
    BY <2>2, <2>3, StillQuiet
  <2> QED
    BY <2>3, <2>4, <2>5
<1>2. ASSUME NEW h \in Handlers, LoadStanding(h)
      PROVE  UNCHANGED request_logs /\ \A g \in Handlers : Quiet(g)
  <2>1. /\ pc[h] = "standing" /\ pc'[h] = "validate"
        /\ UNCHANGED <<request_logs, req, now, outcome>>
        /\ \A g \in Handlers \ {h} : pc'[g] = pc[g] /\ snapshot'[g] = snapshot[g]
    BY <1>2, LocalsOfHandlers DEF LoadStanding, db
  <2>2. /\ snapshot'[h].recent_requests = snapshot[h].recent_requests
        /\ snapshot'[h].recent_bytes = snapshot[h].recent_bytes
    <3>1. snapshot[h] \in SnapshotSet
      BY DEF TypeOK
    <3>2. PICK x : snapshot'[h] = [snapshot[h] EXCEPT !.reputation_score = x]
      BY <1>2, LocalsOfHandlers DEF LoadStanding
    <3> QED
      BY <3>1, <3>2 DEF SnapshotSet
  <2>3. Quiet(h)
    BY <2>1, <2>2 DEF Quiet, Waiting, Cleared
  <2>4. \A g \in Handlers \ {h} : Quiet(g)
    BY <2>1, StillQuiet
  <2> QED
    BY <2>1, <2>3, <2>4
<1>3. ASSUME NEW h \in Handlers, Validate(h)
      PROVE  UNCHANGED request_logs /\ \A g \in Handlers : Quiet(g)
  <2>1. /\ pc[h] = "validate" /\ UNCHANGED <<request_logs, req, now>>
        /\ \/ Passes(req[h], snapshot[h], clock) /\ pc'[h] = "store"
           \/ outcome'[h] = "rejected" /\ pc'[h] = "log"
        /\ \A g \in Handlers \ {h} : /\ pc'[g] = pc[g] /\ snapshot'[g] = snapshot[g]
                                    /\ outcome'[g] = outcome[g]
    BY <1>3, LocalsOfHandlers DEF Validate, db
  <2>2. Quiet(h)
    BY <2>1 DEF Quiet, Waiting, Cleared
  <2>3. \A g \in Handlers \ {h} : Quiet(g)
    BY <2>1, StillQuiet
  <2> QED
    BY <2>1, <2>2, <2>3
<1>4. ASSUME NEW h \in Handlers, StoreEntry(h) \/ StoreInboxKey(h) \/ StoreInboxItem(h)
      PROVE  UNCHANGED request_logs /\ \A g \in Handlers : Quiet(g)
  <2>1. /\ pc[h] \in {"store", "store_item"} /\ pc'[h] \in {"store_item", "log"}
        /\ UNCHANGED <<request_logs, req, now, outcome, snapshot>>
        /\ \A g \in Handlers \ {h} : pc'[g] = pc[g]
    BY <1>4, LocalsOfHandlers DEF StoreEntry, StoreInboxKey, StoreInboxItem, locals
  <2>2. Quiet(h)
    BY <2>1 DEF Quiet, Waiting, Cleared
  <2>3. \A g \in Handlers \ {h} : Quiet(g)
    BY <2>1, StillQuiet
  <2> QED
    BY <2>1, <2>2, <2>3
<1>5. ASSUME NEW h \in Handlers, ReadScore(h)
      PROVE  UNCHANGED request_logs /\ \A g \in Handlers : Quiet(g)
  <2>1. /\ pc'[h] = "write_score" /\ UNCHANGED <<request_logs, req, now, outcome, snapshot>>
        /\ \A g \in Handlers \ {h} : pc'[g] = pc[g]
    BY <1>5, LocalsOfHandlers DEF ReadScore, db
  <2>2. Quiet(h)
    BY <2>1 DEF Quiet, Waiting, Cleared
  <2>3. \A g \in Handlers \ {h} : Quiet(g)
    BY <2>1, StillQuiet
  <2> QED
    BY <2>1, <2>2, <2>3
<1>6. ASSUME NEW h \in Handlers, WriteScore(h) \/ Abort(h)
      PROVE  UNCHANGED request_logs /\ \A g \in Handlers : Quiet(g)
  <2>1. Release(h) /\ UNCHANGED request_logs
    BY <1>6 DEF WriteScore, Abort, db
  <2>2. pc'[h] = "answered"
    BY <2>1, Released
  <2>3. Quiet(h)
    BY <2>2 DEF Quiet, Waiting, Cleared
  <2>4. \A g \in Handlers \ {h} : Quiet(g)
    BY <2>1, Released, StillQuiet
  <2> QED
    BY <2>1, <2>3, <2>4
<1>7. CASE Restart
  <2>1. UNCHANGED request_logs /\ \A g \in Handlers : pc'[g] = "idle"
    BY <1>7 DEF Restart, db
  <2> QED
    BY <2>1 DEF Quiet, Waiting, Cleared
<1>8. CASE Tick \/ UNCHANGED vars
  <2>1. UNCHANGED <<request_logs, pc, req, now, outcome, snapshot>>
    BY <1>8 DEF Tick, vars, db, locals
  <2> QED
    BY <2>1, StillQuiet
<1> QED
  BY <1>1, <1>2, <1>3, <1>4, <1>5, <1>6, <1>7, <1>8 DEF Next, HandlerStep

(* load_rate_limit_snapshot's first SELECT counts the rows of the window   *)
(* that ends now, and changes nothing else.                                *)
LEMMA VolumeStep ==
    ASSUME TypeOK, NEW h \in Handlers, LoadVolume(h)
    PROVE  /\ UNCHANGED <<request_logs, req, now, outcome>>
           /\ pc'[h] = "standing" /\ req[h] \in Requests /\ req[h].data \in Data
           /\ now[h] \in Nat
           /\ snapshot'[h].recent_requests = Cardinality(Recent(Identity(req[h]), now[h]))
           /\ snapshot'[h].recent_bytes = TotalBytes(Recent(Identity(req[h]), now[h]))
           /\ \A g \in Handlers \ {h} : pc'[g] = pc[g] /\ snapshot'[g] = snapshot[g]
<1>1. /\ UNCHANGED <<request_logs, req, now, outcome>> /\ pc[h] = "volume" /\ pc'[h] = "standing"
      /\ \A g \in Handlers \ {h} : pc'[g] = pc[g] /\ snapshot'[g] = snapshot[g]
  BY LocalsOfHandlers DEF LoadVolume, db
<1>2. /\ snapshot'[h].recent_requests = Cardinality(Recent(Identity(req[h]), now[h]))
      /\ snapshot'[h].recent_bytes = TotalBytes(Recent(Identity(req[h]), now[h]))
  BY LocalsOfHandlers DEF LoadVolume
<1>3. req[h] \in Requests /\ req[h].data \in Data /\ now[h] \in Nat
  BY <1>1 DEF TypeOK, Steps
<1> QED
  BY <1>1, <1>2, <1>3

(* Sets of handlers are finite.                                            *)
LEMMA FlightFinite ==
    ASSUME NEW F \in SUBSET Handlers
    PROVE  /\ IsFiniteSet(F) /\ Cardinality(F) \in Nat /\ Cardinality(Handlers) \in Nat
           /\ Cardinality(F) <= Cardinality(Handlers)
           /\ \A h \in Handlers \ F : Cardinality(F) <= Cardinality(Handlers) - 1
<1>1. IsFiniteSet(Handlers) /\ IsFiniteSet(F) /\ Cardinality(F) <= Cardinality(Handlers)
  BY BridgeAssumption, FS_Subset
<1>2. Cardinality(F) \in Nat /\ Cardinality(Handlers) \in Nat
  BY <1>1, FS_CardinalityType
<1>3. ASSUME NEW h \in Handlers \ F
      PROVE  Cardinality(F) <= Cardinality(Handlers) - 1
  <2>1. F \cup {h} \in SUBSET Handlers
    OBVIOUS
  <2>2. Cardinality(F \cup {h}) = Cardinality(F) + 1
    BY <1>1, <1>3, FS_AddElement
  <2>3. Cardinality(F \cup {h}) <= Cardinality(Handlers)
    BY <1>1, <2>1, FS_Subset
  <2> QED
    BY <1>2, <2>2, <2>3
<1> QED
  BY <1>1, <1>2, <1>3

-----------------------------------------------------------------------------
(* Requests, by the work they carry.                                       *)

(* Accepted rows of a window whose work is in W.                           *)
Counted(i, start, W) == {n \in AcceptedIn(i, start) : request_logs[n].work \in W}

(* Handlers that may still add one, when only a snapshot of fewer than     *)
(* limit requests lets such a request through.                             *)
InFlight(i, start, W, limit) ==
    {h \in Handlers :
        /\ Serves(h, i, start) /\ req[h].work \in W
        /\ \/ Waiting(h) /\ snapshot[h].recent_requests < limit
           \/ Cleared(h)}

(* The inductive form: accepted rows and the handlers that may still add   *)
(* one are bounded together, because a snapshot that lets a handler        *)
(* through has counted every accepted row of the window.                   *)
Bounded(i, start, W, limit) ==
    Cardinality(Counted(i, start, W)) + Cardinality(InFlight(i, start, W, limit))
        <= limit - 1 + Cardinality(Handlers)

(* validate_puzzle and enforce_rate_limits let no request with work in W   *)
(* through on a snapshot of limit requests or more.                        *)
Strict(W, limit) ==
    \A g \in Handlers :
        pc[g] = "validate" /\ req[g].work \in W /\ Passes(req[g], snapshot[g], clock)
            => snapshot[g].recent_requests < limit

(* Rows and handlers are finitely many.                                    *)
LEMMA CountedFinite ==
    ASSUME TypeOK, NEW i, NEW start, NEW W, NEW limit
    PROVE  /\ IsFiniteSet(Counted(i, start, W)) /\ Cardinality(Counted(i, start, W)) \in Nat
           /\ IsFiniteSet(InFlight(i, start, W, limit))
           /\ Cardinality(InFlight(i, start, W, limit)) \in Nat
<1>1. Counted(i, start, W) \in SUBSET DOMAIN request_logs
  BY DEF Counted, AcceptedIn
<1>2. InFlight(i, start, W, limit) \in SUBSET Handlers
  BY DEF InFlight
<1> QED
  BY <1>1, <1>2, RowsFinite, FlightFinite

(* What the bound says of the rows alone.                                  *)
LEMMA CountedBound ==
    ASSUME TypeOK, NEW i, NEW start, NEW W, NEW limit \in Int, Bounded(i, start, W, limit)
    PROVE  Cardinality(Counted(i, start, W)) <= limit - 1 + Cardinality(Handlers)
<1>1. PICK a, f : /\ a = Cardinality(Counted(i, start, W)) /\ a \in Nat
                  /\ f = Cardinality(InFlight(i, start, W, limit)) /\ f \in Nat
  BY CountedFinite
<1>2. PICK c : c = Cardinality(Handlers) /\ c \in Nat
  BY FlightFinite
<1>3. a + f <= limit - 1 + c
  BY <1>1, <1>2 DEF Bounded
<1> QED
  BY <1>1, <1>2, <1>3

(* With no rows logged and no handler in flight nothing can overshoot.     *)
LEMMA BoundedInit ==
    ASSUME Init, NEW i, NEW start, NEW W, NEW limit \in Nat \ {0}
    PROVE  Bounded(i, start, W, limit)
<1>1. Counted(i, start, W) = {}
  <2>1. DOMAIN request_logs = {}
    BY DEF Init
  <2> QED
    BY <2>1 DEF Counted, AcceptedIn
<1>2. InFlight(i, start, W, limit) = {}
  <2>1. \A h \in Handlers : req[h] = None
    BY DEF Init
  <2> QED
    BY <2>1 DEF InFlight, Serves
<1>3. Cardinality(Handlers) \in Nat
  BY FlightFinite
<1>4. 0 + 0 <= limit - 1 + Cardinality(Handlers)
  BY <1>3
<1> QED
  BY <1>1, <1>2, <1>4, FS_EmptySet DEF Bounded

(* A step that adds no row and admits no handler to the flight.            *)
LEMMA BoundedQuiet ==
    ASSUME TypeOK, NEW i, NEW start, NEW W, NEW limit \in Int, Bounded(i, start, W, limit),
           UNCHANGED request_logs, InFlight(i, start, W, limit)' \subseteq InFlight(i, start, W, limit)
    PROVE  Bounded(i, start, W, limit)'
<1>1. Counted(i, start, W)' = Counted(i, start, W)
  BY DEF Counted, AcceptedIn
<1>2. PICK a, f : /\ a = Cardinality(Counted(i, start, W)) /\ a \in Nat
                  /\ f = Cardinality(InFlight(i, start, W, limit)) /\ f \in Nat
  BY CountedFinite
<1>3. PICK g : g = Cardinality(InFlight(i, start, W, limit)') /\ g \in Nat /\ g <= f
  BY <1>2, CountedFinite, FS_Subset, FS_CardinalityType
<1>4. PICK c : c = Cardinality(Handlers) /\ c \in Nat
  BY FlightFinite
<1>5. a + f <= limit - 1 + c
  BY <1>2, <1>4 DEF Bounded
<1>6. a + g <= limit - 1 + c
  BY <1>2, <1>3, <1>4, <1>5
<1> QED
  BY <1>1, <1>2, <1>3, <1>4, <1>6 DEF Bounded

(* A snapshot below the limit has counted every accepted row of the        *)
(* window, so all handlers together stay in bounds.                        *)
LEMMA BoundedVolume ==
    ASSUME TypeOK, NEW i, NEW start \in Nat, NEW W, NEW limit \in Int, Bounded(i, start, W, limit),
           NEW h \in Handlers, LoadVolume(h)
    PROVE  Bounded(i, start, W, limit)'
<1> DEFINE F == InFlight(i, start, W, limit)
<1>1. /\ UNCHANGED <<request_logs, req, now, outcome>>
      /\ pc'[h] = "standing" /\ now[h] \in Nat
      /\ snapshot'[h].recent_requests = Cardinality(Recent(Identity(req[h]), now[h]))
      /\ \A g \in Handlers \ {h} : pc'[g] = pc[g] /\ snapshot'[g] = snapshot[g]
  BY VolumeStep
<1>2. CASE h \notin F'
  <2>1. F' \subseteq F
    BY <1>1, <1>2 DEF InFlight, Serves, Waiting, Cleared
  <2> QED
    BY <1>1, <2>1, BoundedQuiet
<1>3. CASE h \in F'
  <2>1. /\ Identity(req[h]) = i /\ now[h] \in start .. start + Window
        /\ Cardinality(Recent(i, now[h])) < limit
    BY <1>1, <1>3 DEF InFlight, Serves, Waiting, Cleared
  <2>2. PICK n : n = Cardinality(Recent(i, now[h])) /\ n \in Nat
    BY RowsFinite DEF Recent
  <2>3. PICK a : a = Cardinality(Counted(i, start, W)) /\ a \in Nat /\ a <= n
    <3>1. AcceptedIn(i, start) \subseteq Recent(i, now[h])
      BY <2>1, SnapshotCountsWindow
    <3>2. Counted(i, start, W) \in SUBSET Recent(i, now[h])
      BY <3>1 DEF Counted
    <3>3. IsFiniteSet(Recent(i, now[h]))
      BY RowsFinite DEF Recent
    <3> QED
      BY <2>2, <3>2, <3>3, CountedFinite, FS_Subset
  <2>4. PICK f, c : /\ f = Cardinality(F') /\ f \in Nat
                    /\ c = Cardinality(Handlers) /\ c \in Nat /\ f <= c
    <3>1. F' \in SUBSET Handlers
      BY DEF InFlight
    <3> HIDE DEF F
    <3> QED
      BY <3>1, FlightFinite
  <2>5. Counted(i, start, W)' = Counted(i, start, W)
    BY <1>1 DEF Counted, AcceptedIn
  <2>6. a + f <= limit - 1 + c
    BY <2>1, <2>2, <2>3, <2>4
  <2> QED
    BY <2>3, <2>4, <2>5, <2>6 DEF Bounded
<1> QED
  BY <1>2, <1>3

(* A recorded row moves its handler from the flight to the rows.           *)
LEMMA BoundedRow ==
    ASSUME TypeOK, NEW i, NEW start \in Nat, NEW W, NEW limit \in Int, Bounded(i, start, W, limit),
           NEW h \in Handlers, RecordLog(h)
    PROVE  Bounded(i, start, W, limit)'
<1> DEFINE F == InFlight(i, start, W, limit)
<1> DEFINE A == Counted(i, start, W)
<1> DEFINE last == Len(request_logs) + 1
<1>1. /\ last \notin DOMAIN request_logs
      /\ \A n \in DOMAIN request_logs : request_logs'[n] = request_logs[n]
      /\ request_logs'[last] = LogRow(h)
      /\ pc[h] = "log" /\ pc'[h] = "read_score" /\ UNCHANGED <<req, now, outcome, snapshot>>
      /\ req[h] \in Requests
      /\ \A g \in Handlers \ {h} : pc'[g] = pc[g]
  BY RowStep
<1>2. F' = F \ {h}
  BY <1>1 DEF InFlight, Serves, Waiting, Cleared
<1>3. h \in F <=> /\ Identity(req[h]) = i /\ outcome[h] = "accepted"
                  /\ now[h] \in start .. start + Window /\ req[h].work \in W
  BY <1>1, BridgeAssumption DEF InFlight, Serves, Waiting, Cleared
<1>4. A' = IF h \in F THEN A \cup {last} ELSE A
  <2>1. LogRow(h).work = req[h].work
    BY DEF LogRow
  <2>2. AcceptedIn(i, start) \subseteq DOMAIN request_logs
    BY DEF AcceptedIn
  <2>3. AcceptedIn(i, start)' =
             IF /\ Identity(req[h]) = i /\ outcome[h] = "accepted"
                /\ now[h] \in start .. start + Window
             THEN AcceptedIn(i, start) \cup {last}
             ELSE AcceptedIn(i, start)
    BY AcceptedInAppend
  <2> HIDE DEF last, F
  <2> QED
    BY <1>1, <1>3, <2>1, <2>2, <2>3 DEF Counted
<1>5. PICK a, f : /\ a = Cardinality(A) /\ a \in Nat /\ IsFiniteSet(A)
                  /\ f = Cardinality(F) /\ f \in Nat /\ IsFiniteSet(F)
  BY CountedFinite
<1>6. PICK b : b = limit - 1 + Cardinality(Handlers) /\ b \in Int
  BY FlightFinite
<1>7. a + f <= b
  BY <1>5, <1>6 DEF Bounded
<1>8. last \notin A
  BY <1>1 DEF Counted, AcceptedIn
<1> HIDE DEF A, F, last
<1>9. CASE h \in F
  <2>1. Cardinality(A') = a + 1
    BY <1>4, <1>5, <1>8, <1>9, FS_AddElement
  <2>2. Cardinality(F') = f - 1
    BY <1>2, <1>5, <1>9, FS_RemoveElement
  <2>3. (a + 1) + (f - 1) <= b
    BY <1>5, <1>6, <1>7
  <2> QED
    BY <1>6, <2>1, <2>2, <2>3 DEF A, F, Bounded
<1>10. CASE h \notin F
  <2>1. A' = A /\ F' = F
    BY <1>2, <1>4, <1>10
  <2> QED
    BY <1>5, <1>6, <1>7, <2>1 DEF A, F, Bounded
<1> QED
  BY <1>9, <1>10

(* Every step keeps the bound: only the first SELECT of a snapshot admits  *)
(* a handler to the flight, only record_request_log adds a row.            *)
LEMMA BoundedNext ==
    ASSUME TypeOK, [Next]_vars, NEW i, NEW start \in Nat, NEW W, NEW limit \in Int,
           Bounded(i, start, W, limit), Strict(W, limit)
    PROVE  Bounded(i, start, W, limit)'
<1>1. CASE \E h \in Handlers : LoadVolume(h)
  BY <1>1, BoundedVolume
<1>2. CASE \E h \in Handlers : RecordLog(h)
  BY <1>2, BoundedRow
<1>3. CASE \A h \in Handlers : ~LoadVolume(h) /\ ~RecordLog(h)
  <2>1. UNCHANGED request_logs /\ \A g \in Handlers : Quiet(g)
    BY <1>3, QuietStep
  <2>2. ASSUME NEW g \in InFlight(i, start, W, limit)'
        PROVE  g \in InFlight(i, start, W, limit)
    <3>1. g \in Handlers /\ Serves(g, i, start)' /\ req'[g].work \in W /\ Quiet(g)
      BY <2>1, <2>2 DEF InFlight
    <3>2. CASE Waiting(g)' /\ snapshot'[g].recent_requests < limit
      BY <3>1, <3>2 DEF Quiet, InFlight, Serves
    <3>3. CASE Cleared(g)'
      <4>1. req[g].work \in W /\ Serves(g, i, start)
        BY <3>1, <3>3 DEF Quiet, Serves
      <4>2. Cleared(g) \/ (pc[g] = "validate" /\ Passes(req[g], snapshot[g], clock))
        BY <3>1, <3>3 DEF Quiet
      <4>3. Cleared(g) \/ (Waiting(g) /\ snapshot[g].recent_requests < limit)
        BY <3>1, <4>1, <4>2 DEF Strict, Waiting
      <4> QED
        BY <3>1, <4>1, <4>3 DEF InFlight
    <3> QED
      BY <2>2, <3>2, <3>3 DEF InFlight
  <2> QED
    BY <2>1, <2>2, BoundedQuiet
<1> QED
  BY <1>1, <1>2, <1>3

-----------------------------------------------------------------------------
(* The request limit.                                                      *)

RequestInv ==
    \A i \in Identities : \A start \in 0 .. MaxTime : Bounded(i, start, Int, MaxRequests)

(* Nothing is accepted before the first request.                           *)
LEMMA RequestInit == Init => RequestInv
BY BoundedInit, Limits DEF RequestInv

(* enforce_rate_limits refuses on a snapshot of max_requests.              *)
LEMMA RequestNext == TypeOK /\ RequestInv /\ [Next]_vars => RequestInv'
<1> SUFFICES ASSUME TypeOK, RequestInv, [Next]_vars, NEW i \in Identities, NEW start \in 0 .. MaxTime
             PROVE  Bounded(i, start, Int, MaxRequests)'
  BY DEF RequestInv
<1>1. start \in Nat /\ MaxRequests \in Int
  BY Limits
<1>2. Strict(Int, MaxRequests)
  <2>1. \A g \in Handlers : snapshot[g].recent_requests \in Nat
    BY DEF TypeOK, SnapshotSet
  <2> QED
    BY <1>1, <2>1 DEF Strict, Passes, WithinLimits
<1>3. Bounded(i, start, Int, MaxRequests)
  BY DEF RequestInv
<1> QED
  BY <1>1, <1>2, <1>3, BoundedNext

(* The rate limit holds up to the race: whatever max_requests, the number  *)
(* of concurrent put_card, put_slot and put_inbox handlers and their       *)
(* interleaving, an identity never gets more than max_requests - 1         *)
(* requests and one per concurrent handler accepted in a window.           *)
THEOREM RequestOvershootTheorem == Spec => []RequestOvershootBounded
<1>1. TypeOK /\ RequestInv => RequestOvershootBounded
  <2> SUFFICES ASSUME TypeOK, RequestInv, NEW i \in Identities, NEW start \in 0 .. MaxTime
               PROVE  Cardinality(AcceptedIn(i, start)) <= MaxRequests - 1 + Cardinality(Handlers)
    BY DEF RequestOvershootBounded
  <2>1. AcceptedIn(i, start) = Counted(i, start, Int)
    <3>1. \A n \in DOMAIN request_logs : request_logs[n] \in RowSet
      BY DEF TypeOK
    <3>2. \A n \in DOMAIN request_logs : request_logs[n].work \in Int
      BY <3>1 DEF RowSet
    <3> QED
      BY <3>2 DEF Counted, AcceptedIn
  <2>2. Bounded(i, start, Int, MaxRequests) /\ MaxRequests \in Int
    BY Limits DEF RequestInv
  <2> QED
    BY <2>1, <2>2, CountedBound
<1> QED
  BY <1>1, TypeInit, TypeNext, RequestInit, RequestNext, PTL DEF Spec

-----------------------------------------------------------------------------
(* Difficulty.                                                             *)

(* Integer division rounds down.                                           *)
LEMMA DivBounds ==
    ASSUME NEW x \in Nat, NEW k \in Nat \ {0}
    PROVE  x \div k \in Nat /\ k * (x \div k) <= x /\ x < k * ((x \div k) + 1)
OBVIOUS

(* Products grow with a factor.                                            *)
LEMMA FactorMonotone ==
    ASSUME NEW k \in Nat, NEW m \in Int, NEW n \in Int, m <= n
    PROVE  k * m <= k * n /\ k * m \in Int /\ k * n \in Int
OBVIOUS

(* Integer division is monotone.                                           *)
LEMMA DivMonotone ==
    ASSUME NEW x \in Nat, NEW y \in Nat, x <= y, NEW k \in Nat \ {0}
    PROVE  x \div k <= y \div k
<1>1. PICK p : p = x \div k /\ p \in Nat /\ k * p <= x
  BY DivBounds
<1>2. PICK q : q = y \div k /\ q \in Nat /\ y < k * (q + 1)
  BY DivBounds
<1>3. ASSUME q + 1 <= p PROVE FALSE
  <2>1. k * (q + 1) <= k * p /\ k * (q + 1) \in Int /\ k * p \in Int
    BY <1>1, <1>2, <1>3, FactorMonotone
  <2> QED
    BY <1>1, <1>2, <2>1
<1> QED
  BY <1>1, <1>2, <1>3

CheapLimit(level) == StepRequests * (level + MaxScore \div RepStep)

(* required_pow_params and validate_puzzle: a puzzle below a level of work *)
(* only passes on a snapshot with fewer requests than the level allows.    *)
LEMMA CheapSnapshot ==
    ASSUME NEW r, r.work \in Int, NEW s \in SnapshotSet, s.reputation_score <= MaxScore,
           PuzzleValid(r, s), NEW level \in Int, r.work < level
    PROVE  s.recent_requests < CheapLimit(level)
<1>1. /\ StepRequests \in Nat \ {0} /\ StepBytes \in Nat \ {0} /\ RepStep \in Nat \ {0}
      /\ MaxScore \in Nat
  BY Limits
<1>2. s.recent_requests \in Nat /\ s.recent_bytes \in Nat /\ s.reputation_score \in Int
  BY DEF SnapshotSet
<1>3. PICK p : /\ p = s.recent_requests \div StepRequests /\ p \in Nat
               /\ s.recent_requests < StepRequests * (p + 1)
  BY <1>1, <1>2, DivBounds
<1>4. PICK b : b = s.recent_bytes \div StepBytes /\ b \in Nat
  BY <1>1, <1>2, DivBounds
<1>5. PICK q : q = MaxScore \div RepStep /\ q \in Nat
  BY <1>1, DivBounds
<1>6. PICK bonus : /\ bonus = (IF s.reputation_score > 0 THEN s.reputation_score \div RepStep ELSE 0)
                   /\ bonus \in Nat /\ bonus <= q
  <2>1. CASE s.reputation_score > 0
    <3>1. s.reputation_score \in Nat
      BY <1>2, <2>1
    <3>2. s.reputation_score \div RepStep <= MaxScore \div RepStep
      BY <1>1, <3>1, DivMonotone
    <3>3. s.reputation_score \div RepStep \in Nat
      BY <1>1, <3>1, DivBounds
    <3> QED
      BY <1>5, <2>1, <3>2, <3>3
  <2>2. CASE ~(s.reputation_score > 0)
    BY <1>5, <2>2
  <2> QED
    BY <2>1, <2>2
<1>7. RequiredWork(s) =
        LET volume == IF p >= b THEN p ELSE b
        IN  IF volume > bonus THEN volume - bonus ELSE 0
  BY <1>3, <1>4, <1>6 DEF RequiredWork
<1>8. p - q <= r.work
  <2>1. p - bonus <= RequiredWork(s) /\ RequiredWork(s) \in Int
    BY <1>3, <1>4, <1>6, <1>7
  <2>2. r.work >= RequiredWork(s)
    BY DEF PuzzleValid
  <2> QED
    BY <1>3, <1>5, <1>6, <2>1, <2>2
<1>9. p + 1 <= level + q
  BY <1>3, <1>5, <1>8
<1>10. StepRequests * (p + 1) <= StepRequests * (level + q)
       /\ StepRequests * (p + 1) \in Int /\ StepRequests * (level + q) \in Int
  BY <1>1, <1>3, <1>5, <1>9, FactorMonotone
<1>11. CheapLimit(level) = StepRequests * (level + q)
  BY <1>5 DEF CheapLimit
<1> QED
  BY <1>2, <1>3, <1>10, <1>11

(* No score exceeds max_score: neither a stored one, nor one               *)
(* update_reputation has read, nor the one in a snapshot.                  *)
ScoreRange ==
    /\ \A i \in Identities : reputation[i] <= MaxScore
    /\ \A h \in Handlers : current[h] <= MaxScore /\ snapshot[h].reputation_score <= MaxScore

(* Scores start at zero.                                                   *)
LEMMA ScoreRangeInit == Init => ScoreRange
<1> SUFFICES ASSUME Init PROVE ScoreRange
  OBVIOUS
<1>1. 0 <= MaxScore
  BY Limits
<1> QED
  BY <1>1 DEF Init, ScoreRange, NoSnapshot

(* update_reputation caps what it writes; the other steps copy scores.     *)
LEMMA ScoreRangeNext == TypeOK /\ ScoreRange /\ [Next]_vars => ScoreRange'
<1> SUFFICES ASSUME TypeOK, ScoreRange, [Next]_vars PROVE ScoreRange'
  OBVIOUS
<1>1. /\ MaxScore \in Nat /\ MaxDebt \in Nat
      /\ NoSnapshot.reputation_score = 0
  BY Limits DEF NoSnapshot
<1>2. /\ \A i \in Identities : reputation[i] <= MaxScore
      /\ \A g \in Handlers : current[g] <= MaxScore /\ snapshot[g].reputation_score <= MaxScore
  BY DEF ScoreRange
<1>14. DOMAIN snapshot = Handlers /\ DOMAIN current = Handlers
  BY DEF TypeOK
<1>3. ASSUME NEW h \in Handlers, LoadVolume(h) PROVE ScoreRange'
  <2>1. PICK n, b : snapshot' = [snapshot EXCEPT
                        ![h] = [recent_requests |-> n, recent_bytes |-> b, reputation_score |-> 0]]
    BY <1>3 DEF LoadVolume
  <2>2. UNCHANGED <<reputation, current>>
    BY <1>3 DEF LoadVolume, db
  <2>3. \A g \in Handlers : snapshot'[g].reputation_score <= MaxScore
    BY <1>1, <1>2, <1>14, <2>1
  <2> QED
    BY <1>2, <2>2, <2>3 DEF ScoreRange
<1>4. ASSUME NEW h \in Handlers, LoadStanding(h) PROVE ScoreRange'
  <2>1. req[h] \in Requests
    BY <1>4 DEF LoadStanding, TypeOK, Steps
  <2>2. PICK x : /\ x = reputation[Identity(req[h])] /\ x <= MaxScore
                 /\ snapshot' = [snapshot EXCEPT ![h].reputation_score = x]
    BY <1>2, <1>4, <2>1, IdentityType DEF LoadStanding
  <2>3. snapshot[h] \in SnapshotSet /\ DOMAIN snapshot = Handlers
    BY DEF TypeOK
  <2>4. snapshot'[h].reputation_score = x
    BY <2>2, <2>3 DEF SnapshotSet
  <2>5. \A g \in Handlers \ {h} : snapshot'[g] = snapshot[g]
    BY <2>2, <2>3
  <2>6. UNCHANGED <<reputation, current>>
    BY <1>4 DEF LoadStanding, db
  <2> QED
    BY <1>2, <2>2, <2>4, <2>5, <2>6 DEF ScoreRange
<1>5. ASSUME NEW h \in Handlers, Validate(h) PROVE ScoreRange'
  <2>1. snapshot' = [snapshot EXCEPT ![h] = NoSnapshot] /\ UNCHANGED <<reputation, current>>
    BY <1>5 DEF Validate, db
  <2>2. \A g \in Handlers : snapshot'[g].reputation_score <= MaxScore
    BY <1>1, <1>2, <1>14, <2>1
  <2> QED
    BY <1>2, <2>1, <2>2 DEF ScoreRange
<1>6. ASSUME NEW h \in Handlers, ReadScore(h) PROVE ScoreRange'
  <2>1. req[h] \in Requests
    BY <1>6 DEF ReadScore, TypeOK, Steps
  <2>2. PICK x : x <= MaxScore /\ current' = [current EXCEPT ![h] = x]
    BY <1>2, <1>6, <2>1, IdentityType DEF ReadScore
  <2>3. UNCHANGED <<reputation, snapshot>>
    BY <1>6 DEF ReadScore, db
  <2>4. \A g \in Handlers : current'[g] <= MaxScore
    BY <1>2, <1>14, <2>2
  <2> QED
    BY <1>2, <2>3, <2>4 DEF ScoreRange
<1>7. ASSUME NEW h \in Handlers, Release(h),
             \A i \in Identities : reputation'[i] <= MaxScore
      PROVE  ScoreRange'
  <2>1. /\ snapshot' = [snapshot EXCEPT ![h] = NoSnapshot]
        /\ current' = [current EXCEPT ![h] = 0]
    BY <1>7 DEF Release
  <2>2. \A g \in Handlers : snapshot'[g].reputation_score <= MaxScore
    BY <1>1, <1>2, <1>14, <2>1
  <2>3. \A g \in Handlers : current'[g] <= MaxScore
    BY <1>1, <1>2, <1>14, <2>1
  <2> QED
    BY <1>7, <2>2, <2>3 DEF ScoreRange
<1>8. ASSUME NEW h \in Handlers, WriteScore(h) PROVE ScoreRange'
  <2>1. current[h] \in Int /\ current[h] <= MaxScore
    BY <1>2 DEF TypeOK
  <2>2. NextScore(current[h], outcome[h]) <= MaxScore
    BY <1>1, <2>1 DEF NextScore
  <2>3. PICK x : /\ x <= MaxScore
                 /\ reputation' = [reputation EXCEPT ![Identity(req[h])] = x]
    BY <1>8, <2>2 DEF WriteScore
  <2>4. \A i \in Identities : reputation'[i] <= MaxScore
    BY <1>2, <2>3 DEF TypeOK
  <2>5. Release(h)
    BY <1>8 DEF WriteScore
  <2> QED
    BY <1>7, <2>4, <2>5
<1>9. ASSUME NEW h \in Handlers, Abort(h) PROVE ScoreRange'
  <2>1. Release(h) /\ UNCHANGED reputation
    BY <1>9 DEF Abort, db
  <2> QED
    BY <1>2, <1>7, <2>1
<1>10. CASE Restart
  <2>1. /\ UNCHANGED reputation
        /\ \A h \in Handlers : current'[h] = 0 /\ snapshot'[h] = NoSnapshot
    BY <1>10 DEF Restart, db
  <2> QED
    BY <1>1, <1>2, <2>1 DEF ScoreRange
<1>11. CASE UNCHANGED <<reputation, current, snapshot>>
  BY <1>2, <1>11 DEF ScoreRange
<1>12. ASSUME NEW h \in Handlers,
              \/ Receive(h) \/ StoreEntry(h) \/ StoreInboxKey(h) \/ StoreInboxItem(h)
              \/ RecordLog(h)
       PROVE  UNCHANGED <<reputation, current, snapshot>>
  BY <1>12 DEF Receive, StoreEntry, StoreInboxKey, StoreInboxItem, RecordLog, locals, db
<1>13. CASE Tick \/ UNCHANGED vars
  BY <1>11, <1>13 DEF Tick, vars, locals, db
<1> QED
  BY <1>3, <1>4, <1>5, <1>6, <1>8, <1>9, <1>10, <1>11, <1>12, <1>13 DEF Next, HandlerStep

Levels == {r.work + 1 : r \in Requests}

Below(level) == {w \in Int : w < level}

CheapInv ==
    \A i \in Identities : \A start \in 0 .. MaxTime : \A level \in Levels :
        level > 0 => Bounded(i, start, Below(level), CheapLimit(level))

(* A level of work that some request is below is an integer, and allows at *)
(* least one request.                                                      *)
LEMMA LevelType ==
    ASSUME NEW level \in Levels
    PROVE  level \in Int /\ CheapLimit(level) \in Int /\ (level > 0 => CheapLimit(level) >= 1)
<1>1. level \in Int
  <2>1. PICK r \in Requests : level = r.work + 1
    BY DEF Levels
  <2>2. r.work \in Int
    BY <2>1, BridgeAssumption DEF RequestSet
  <2> QED
    BY <2>1, <2>2
<1>2. PICK q : q = MaxScore \div RepStep /\ q \in Nat
  BY Limits, DivBounds
<1>3. StepRequests \in Nat \ {0}
  BY Limits
<1>4. CheapLimit(level) = StepRequests * (level + q)
  BY <1>2 DEF CheapLimit
<1>5. ASSUME level > 0 PROVE StepRequests * (level + q) >= 1
  <2>1. 1 <= level + q
    BY <1>1, <1>2, <1>5
  <2>2. StepRequests * 1 <= StepRequests * (level + q) /\ StepRequests * (level + q) \in Int
    BY <1>1, <1>2, <1>3, <2>1, FactorMonotone
  <2> QED
    BY <1>3, <2>2
<1> QED
  BY <1>1, <1>2, <1>3, <1>4, <1>5

(* Nothing is accepted before the first request.                           *)
LEMMA CheapInit == Init => CheapInv
<1> SUFFICES ASSUME Init, NEW i \in Identities, NEW start \in 0 .. MaxTime, NEW level \in Levels,
                    level > 0
             PROVE  Bounded(i, start, Below(level), CheapLimit(level))
  BY DEF CheapInv
<1>1. CheapLimit(level) \in Nat \ {0}
  BY LevelType
<1> QED
  BY <1>1, BoundedInit

(* A verdict on a puzzle below the level is favourable only for a snapshot *)
(* below its limit.                                                        *)
LEMMA CheapNext == TypeOK /\ ScoreRange /\ CheapInv /\ [Next]_vars => CheapInv'
<1> SUFFICES ASSUME TypeOK, ScoreRange, CheapInv, [Next]_vars,
                    NEW i \in Identities, NEW start \in 0 .. MaxTime, NEW level \in Levels, level > 0
             PROVE  Bounded(i, start, Below(level), CheapLimit(level))'
  BY DEF CheapInv
<1>1. start \in Nat /\ level \in Int /\ CheapLimit(level) \in Int
  BY Limits, LevelType
<1>2. Strict(Below(level), CheapLimit(level))
  <2>1. ASSUME NEW g \in Handlers, pc[g] = "validate", req[g].work \in Below(level),
               Passes(req[g], snapshot[g], clock)
        PROVE  snapshot[g].recent_requests < CheapLimit(level)
    <3>1. PICK r, s : r = req[g] /\ s = snapshot[g]
      OBVIOUS
    <3>2. r.work \in Int /\ r.work < level
      BY <2>1, <3>1 DEF Below
    <3>3. s \in SnapshotSet /\ s.reputation_score <= MaxScore
      BY <3>1 DEF TypeOK, ScoreRange
    <3>4. PuzzleValid(r, s)
      BY <2>1, <3>1 DEF Passes
    <3>5. s.recent_requests < CheapLimit(level)
      BY <1>1, <3>2, <3>3, <3>4, CheapSnapshot
    <3> QED
      BY <3>1, <3>5
  <2> QED
    BY <2>1 DEF Strict
<1>3. Bounded(i, start, Below(level), CheapLimit(level))
  BY DEF CheapInv
<1>4. PICK W, limit : W = Below(level) /\ limit = CheapLimit(level)
  OBVIOUS
<1>5. Bounded(i, start, W, limit)'
  BY <1>1, <1>2, <1>3, <1>4, BoundedNext
<1> QED
  BY <1>4, <1>5

(* Volume costs work: whatever the limits and however the handlers race,   *)
(* an identity gets at most step_requests requests through per window for  *)
(* every step of difficulty it stays below and every step of reputation    *)
(* bonus it can hold, beyond one per concurrent handler.                   *)
THEOREM CheapRequestsTheorem == Spec => []CheapRequestsBounded
<1>1. TypeOK /\ CheapInv => CheapRequestsBounded
  <2> SUFFICES ASSUME TypeOK, CheapInv, NEW i \in Identities, NEW start \in 0 .. MaxTime,
                      NEW level \in Levels, level > 0
               PROVE  Cardinality({n \in AcceptedIn(i, start) : request_logs[n].work < level})
                        <= StepRequests * (level + MaxScore \div RepStep) - 1 + Cardinality(Handlers)
    BY DEF CheapRequestsBounded, Levels
  <2>1. {n \in AcceptedIn(i, start) : request_logs[n].work < level} = Counted(i, start, Below(level))
    <3>1. \A n \in DOMAIN request_logs : request_logs[n] \in RowSet
      BY DEF TypeOK
    <3>2. \A n \in AcceptedIn(i, start) : request_logs[n].work \in Int
      BY <3>1 DEF RowSet, AcceptedIn
    <3> QED
      BY <3>2 DEF Counted, Below
  <2>2. Bounded(i, start, Below(level), CheapLimit(level)) /\ CheapLimit(level) \in Int
    BY LevelType DEF CheapInv
  <2>3. Cardinality(Counted(i, start, Below(level))) <= CheapLimit(level) - 1 + Cardinality(Handlers)
    BY <2>2, CountedBound
  <2> QED
    BY <2>1, <2>3 DEF CheapLimit
<1> QED
  BY <1>1, TypeInit, TypeNext, ScoreRangeInit, ScoreRangeNext, CheapInit, CheapNext, PTL DEF Spec

-----------------------------------------------------------------------------
(* Sums of bytes, as sizes of disjoint unions.                             *)

Stack(S, f) == {p \in S \X (1 .. MaxBody) : p[2] <= f[p[1]]}

(* There are k numbers from 1 to k.                                        *)
LEMMA FirstNumbers ==
    ASSUME NEW k \in Nat
    PROVE  IsFiniteSet(1 .. k) /\ Cardinality(1 .. k) = k
BY FS_Interval

(* A finite set has finitely many bytes, at most MaxBody for each element, *)
(* and a subset has no more than the whole.                                *)
LEMMA StackFinite ==
    ASSUME NEW S, IsFiniteSet(S), NEW f
    PROVE  /\ IsFiniteSet(Stack(S, f)) /\ Cardinality(Stack(S, f)) \in Nat
           /\ Cardinality(Stack(S, f)) <= Cardinality(S) * MaxBody
           /\ \A T \in SUBSET S : Cardinality(Stack(T, f)) <= Cardinality(Stack(S, f))
<1>1. IsFiniteSet(1 .. MaxBody) /\ Cardinality(1 .. MaxBody) = MaxBody /\ MaxBody \in Nat
  BY FirstNumbers, Limits
<1>2. /\ IsFiniteSet(S \X (1 .. MaxBody))
      /\ Cardinality(S \X (1 .. MaxBody)) = Cardinality(S) * MaxBody
  BY <1>1, FS_Product
<1>3. Stack(S, f) \in SUBSET (S \X (1 .. MaxBody))
  BY DEF Stack
<1>4. /\ IsFiniteSet(Stack(S, f))
      /\ Cardinality(Stack(S, f)) <= Cardinality(S) * MaxBody
  BY <1>2, <1>3, FS_Subset
<1>5. ASSUME NEW T \in SUBSET S
      PROVE  Cardinality(Stack(T, f)) <= Cardinality(Stack(S, f))
  <2>1. Stack(T, f) \in SUBSET Stack(S, f)
    BY DEF Stack
  <2> QED
    BY <1>4, <2>1, FS_Subset
<1> QED
  BY <1>4, <1>5, FS_CardinalityType

(* One more element adds its bytes.                                        *)
LEMMA StackAdd ==
    ASSUME NEW S, IsFiniteSet(S), NEW f, NEW e, e \notin S, f[e] \in 0 .. MaxBody
    PROVE  Cardinality(Stack(S \cup {e}, f)) = Cardinality(Stack(S, f)) + f[e]
<1> DEFINE slice == {e} \X (1 .. f[e])
<1>1. MaxBody \in Nat /\ f[e] \in Nat
  BY Limits
<1>2. IsFiniteSet(1 .. f[e]) /\ Cardinality(1 .. f[e]) = f[e]
  BY <1>1, FirstNumbers
<1>3. IsFiniteSet(slice) /\ Cardinality(slice) = f[e]
  <2>1. IsFiniteSet({e}) /\ Cardinality({e}) = 1
    BY FS_Singleton
  <2>2. IsFiniteSet(slice) /\ Cardinality(slice) = Cardinality({e}) * Cardinality(1 .. f[e])
    BY <1>2, <2>1, FS_Product
  <2> HIDE DEF slice
  <2> QED
    BY <1>1, <1>2, <2>1, <2>2
<1>4. \A p \in slice : p \in Stack(S \cup {e}, f) /\ p \notin Stack(S, f)
  <2>1. ASSUME NEW k \in 1 .. f[e]
        PROVE  <<e, k>> \in Stack(S \cup {e}, f) /\ <<e, k>> \notin Stack(S, f)
    <3>1. k \in 1 .. MaxBody /\ k <= f[e]
      BY <1>1, <2>1
    <3> QED
      BY <3>1 DEF Stack
  <2> QED
    BY <2>1
<1>5. \A p \in Stack(S \cup {e}, f) : p \in Stack(S, f) \/ p \in slice
  <2>1. ASSUME NEW s \in S \cup {e}, NEW k \in 1 .. MaxBody, k <= f[s]
        PROVE  <<s, k>> \in Stack(S, f) \/ <<s, k>> \in slice
    <3>1. CASE s \in S
      BY <2>1, <3>1 DEF Stack
    <3>2. CASE s = e
      BY <1>1, <2>1, <3>2
    <3> QED
      BY <3>1, <3>2
  <2> QED
    BY <2>1 DEF Stack
<1>6. Stack(S, f) \subseteq Stack(S \cup {e}, f)
  BY DEF Stack
<1> HIDE DEF slice
<1>7. Stack(S \cup {e}, f) = Stack(S, f) \cup slice /\ Stack(S, f) \cap slice = {}
  BY <1>4, <1>5, <1>6
<1>8. IsFiniteSet(Stack(S, f)) /\ Cardinality(Stack(S, f)) \in Nat
  BY StackFinite
<1>9. Cardinality(Stack(S, f) \cup slice)
        = Cardinality(Stack(S, f)) + Cardinality(slice) - Cardinality(Stack(S, f) \cap slice)
  BY <1>3, <1>8, FS_Union
<1>10. PICK c \in Nat, k \in Nat : c = Cardinality(Stack(S, f)) /\ k = f[e]
  BY <1>1, <1>8
<1>11. Cardinality(Stack(S, f) \cap slice) = 0
  BY <1>7, FS_EmptySet
<1>12. Cardinality(Stack(S \cup {e}, f)) = c + k - 0
  BY <1>3, <1>7, <1>9, <1>10, <1>11
<1> QED
  BY <1>10, <1>12

(* The same, read backwards.                                               *)
LEMMA StackRemove ==
    ASSUME NEW S, IsFiniteSet(S), NEW f, NEW e \in S, f[e] \in 0 .. MaxBody
    PROVE  Cardinality(Stack(S, f)) = Cardinality(Stack(S \ {e}, f)) + f[e]
<1>1. PICK T : T = S \ {e}
  OBVIOUS
<1>2. IsFiniteSet(T) /\ e \notin T /\ T \cup {e} = S
  BY <1>1, FS_Subset
<1>3. Cardinality(Stack(T \cup {e}, f)) = Cardinality(Stack(T, f)) + f[e]
  BY <1>2, StackAdd
<1> QED
  BY <1>1, <1>2, <1>3

(* Only the bytes of the elements themselves count.                        *)
LEMMA StackSame ==
    ASSUME NEW S, NEW f, NEW g, \A s \in S : f[s] = g[s]
    PROVE  Stack(S, f) = Stack(S, g)
BY DEF Stack

RowBytes == [n \in DOMAIN request_logs |-> request_logs[n].bytes]

(* SUM(bytes) over rows of the log.                                        *)
LEMMA TotalIsStack ==
    ASSUME NEW rows \in SUBSET DOMAIN request_logs
    PROVE  TotalBytes(rows) = Cardinality(Stack(rows, RowBytes))
<1>1. ByteSet(rows) = Stack(rows, RowBytes)
  <2>1. \A p \in rows \X (1 .. MaxBody) : RowBytes[p[1]] = request_logs[p[1]].bytes
    BY DEF RowBytes
  <2> QED
    BY <2>1 DEF ByteSet, Stack
<1> QED
  BY <1>1 DEF TotalBytes

-----------------------------------------------------------------------------
(* Bytes.                                                                  *)

FlightSize == [h \in Handlers |-> Size[req[h].data]]

ByteFlight(i, start) ==
    {h \in Handlers :
        /\ Serves(h, i, start)
        /\ \/ Waiting(h) /\ snapshot[h].recent_bytes + Size[req[h].data] <= MaxBytes
           \/ Cleared(h)}

FlightBytes(i, start) == Cardinality(Stack(ByteFlight(i, start), FlightSize))

ByteBound == MaxBytes + (Cardinality(Handlers) - 1) * MaxBody

(* The inductive form: the bytes accepted and the bytes still in flight    *)
(* are bounded together.                                                   *)
ByteInv ==
    \A i \in Identities : \A start \in 0 .. MaxTime :
        TotalBytes(AcceptedIn(i, start)) + FlightBytes(i, start)
            <= ByteBound

(* No rows, no bytes.                                                      *)
LEMMA StackEmpty ==
    ASSUME NEW f
    PROVE  Cardinality(Stack({}, f)) = 0
<1>1. Stack({}, f) = {}
  BY DEF Stack
<1> QED
  BY <1>1, FS_EmptySet

(* The bound is a number.                                                  *)
LEMMA ByteBoundType == ByteBound \in Int
<1>1. PICK c : c = Cardinality(Handlers) - 1 /\ c \in Int
  BY FlightFinite
<1>2. MaxBytes \in Int /\ c * MaxBody \in Int
  BY <1>1, Limits
<1> QED
  BY <1>1, <1>2 DEF ByteBound

(* More handlers, more bodies.                                             *)
LEMMA BodiesMonotone ==
    ASSUME NEW m \in Int, NEW n \in Int, m <= n, NEW k \in Nat
    PROVE  m * k <= n * k /\ m * k \in Int /\ n * k \in Int
OBVIOUS

(* One handler within max_bytes, and a body for each of the others.        *)
LEMMA BytesFit ==
    ASSUME NEW n \in Nat, n <= Cardinality(Handlers) - 1,
           NEW total \in Nat, NEW body \in Nat, total + body <= MaxBytes,
           NEW rest \in Nat, rest <= n * MaxBody
    PROVE  total + (rest + body) <= ByteBound
<1>1. PICK c : c = Cardinality(Handlers) - 1 /\ c \in Int
  BY FlightFinite
<1>2. MaxBody \in Nat /\ MaxBytes \in Nat
  BY Limits
<1>3. PICK q : q = n * MaxBody /\ q \in Int /\ rest <= q
  BY <1>2
<1>4. PICK p : p = c * MaxBody /\ p \in Int /\ q <= p
  BY <1>1, <1>2, <1>3, BodiesMonotone
<1>5. ByteBound = MaxBytes + p
  BY <1>1, <1>4 DEF ByteBound
<1> QED
  BY <1>2, <1>3, <1>4, <1>5

(* Before any request there are no bytes, accepted or in flight.           *)
LEMMA ByteInit == ASSUME Handlers # {} PROVE Init => ByteInv
<1> SUFFICES ASSUME Init, NEW i \in Identities, NEW start \in 0 .. MaxTime
             PROVE  TotalBytes(AcceptedIn(i, start)) + FlightBytes(i, start)
                        <= ByteBound
  BY DEF ByteInv
<1>1. AcceptedIn(i, start) = {} /\ ByteFlight(i, start) = {}
  <2>1. DOMAIN request_logs = {}
    BY DEF Init
  <2>2. \A h \in Handlers : req[h] = None
    BY DEF Init
  <2> QED
    BY <2>1, <2>2 DEF AcceptedIn, ByteFlight, Serves
<1>2. TotalBytes(AcceptedIn(i, start)) = 0
  BY <1>1, TotalIsStack, StackEmpty
<1>3. FlightBytes(i, start) = 0
  BY <1>1, StackEmpty DEF FlightBytes
<1>4. PICK c \in Nat : c = Cardinality(Handlers) - 1
  <2>1. PICK h : h \in Handlers \ {}
    OBVIOUS
  <2>2. Cardinality({}) \in Nat /\ Cardinality({}) <= Cardinality(Handlers) - 1 /\ Cardinality(Handlers) \in Nat
    BY <2>1, FlightFinite
  <2> QED
    BY <2>2
<1>5. MaxBytes \in Nat /\ MaxBody \in Nat /\ c * MaxBody \in Nat
  BY <1>4, Limits
<1>6. 0 <= ByteBound
  BY <1>4, <1>5 DEF ByteBound
<1> QED
  BY <1>2, <1>3, <1>6

(* A step that adds no row and admits no handler to the flight keeps both  *)
(* sums in bounds.                                                         *)
LEMMA ByteQuiet ==
    ASSUME TypeOK, ByteInv, NEW i \in Identities, NEW start \in 0 .. MaxTime,
           UNCHANGED request_logs, ByteFlight(i, start)' \subseteq ByteFlight(i, start),
           \A g \in ByteFlight(i, start)' : req'[g] = req[g]
    PROVE  (TotalBytes(AcceptedIn(i, start)) + FlightBytes(i, start))'
               <= ByteBound
<1> DEFINE F == ByteFlight(i, start)
<1>1. F \in SUBSET Handlers /\ F' \in SUBSET Handlers
  BY DEF ByteFlight
<1>2. TotalBytes(AcceptedIn(i, start))' = TotalBytes(AcceptedIn(i, start))
  BY DEF TotalBytes, ByteSet, AcceptedIn
<1>3. Stack(F', FlightSize') = Stack(F', FlightSize)
  <2>1. \A g \in F' : FlightSize'[g] = FlightSize[g]
    BY <1>1 DEF FlightSize
  <2> QED
    BY <2>1, StackSame
<1>4. FlightBytes(i, start)' = Cardinality(Stack(F', FlightSize))
  <2>1. FlightBytes(i, start)' = Cardinality(Stack(F', FlightSize'))
    BY DEF FlightBytes, Stack
  <2> QED
    BY <1>3, <2>1
<1>5. Cardinality(Stack(F', FlightSize)) <= FlightBytes(i, start) /\ FlightBytes(i, start) \in Nat
      /\ Cardinality(Stack(F', FlightSize)) \in Nat
  <2>1. IsFiniteSet(F) /\ IsFiniteSet(F') /\ F' \in SUBSET F
    BY <1>1, FlightFinite
  <2> QED
    BY <2>1, StackFinite DEF FlightBytes
<1>6. TotalBytes(AcceptedIn(i, start)) \in Nat
  <2>1. AcceptedIn(i, start) \in SUBSET DOMAIN request_logs /\ IsFiniteSet(AcceptedIn(i, start))
    BY RowsFinite DEF AcceptedIn
  <2> QED
    BY <2>1, TotalIsStack, StackFinite
<1>7. TotalBytes(AcceptedIn(i, start)) + FlightBytes(i, start)
          <= ByteBound
  BY DEF ByteInv
<1>8. PICK b : b = ByteBound /\ b \in Int
  BY ByteBoundType
<1> HIDE DEF F
<1>9. PICK t, f, g : /\ t = TotalBytes(AcceptedIn(i, start)) /\ t \in Nat
                     /\ f = FlightBytes(i, start) /\ f \in Nat
                     /\ g = Cardinality(Stack(F', FlightSize)) /\ g \in Nat /\ g <= f
  BY <1>5, <1>6
<1>10. t + g <= b
  <2>1. t + f <= b
    BY <1>7, <1>8, <1>9
  <2>2. t \in Nat /\ f \in Nat /\ g \in Nat /\ g <= f /\ b \in Int
    BY <1>8, <1>9
  <2> QED
    BY ONLY <2>1, <2>2
<1> QED
  BY <1>2, <1>4, <1>8, <1>9, <1>10

(* A snapshot that lets its handler through has summed up every accepted   *)
(* row of the window; every other handler in flight adds at most one body. *)
LEMMA ByteVolume ==
    ASSUME TypeOK, ByteInv, NEW i \in Identities, NEW start \in 0 .. MaxTime,
           NEW h \in Handlers, LoadVolume(h)
    PROVE  (TotalBytes(AcceptedIn(i, start)) + FlightBytes(i, start))'
               <= ByteBound
<1> DEFINE F == ByteFlight(i, start)
<1> DEFINE A == AcceptedIn(i, start)
<1>1. /\ UNCHANGED <<request_logs, req, now, outcome>>
      /\ pc'[h] = "standing" /\ req[h] \in Requests /\ req[h].data \in Data /\ now[h] \in Nat
      /\ snapshot'[h].recent_bytes = TotalBytes(Recent(Identity(req[h]), now[h]))
      /\ \A g \in Handlers \ {h} : pc'[g] = pc[g] /\ snapshot'[g] = snapshot[g]
  BY VolumeStep
<1>2. F \in SUBSET Handlers /\ F' \in SUBSET Handlers
  BY DEF ByteFlight
<1>3. CASE h \notin F'
  <2>1. F' \subseteq F
    BY <1>1, <1>3 DEF ByteFlight, Serves, Waiting, Cleared
  <2>2. \A g \in F' : req'[g] = req[g]
    BY <1>1
  <2> QED
    BY <1>1, <2>1, <2>2, ByteQuiet
<1>4. CASE h \in F'
  <2>1. PICK total : total = TotalBytes(A) /\ total \in Nat
    BY RowsFinite DEF AcceptedIn
  <2>2. PICK body : body = Size[req[h].data] /\ body \in 0 .. MaxBody
    BY <1>1, BridgeAssumption
  <2>3. /\ Identity(req[h]) = i /\ now[h] \in start .. start + Window
        /\ TotalBytes(Recent(i, now[h])) + body <= MaxBytes
    BY <1>1, <1>4, <2>2 DEF ByteFlight, Serves, Waiting, Cleared
  <2>4. total <= TotalBytes(Recent(i, now[h])) /\ TotalBytes(Recent(i, now[h])) \in Nat
    <3>1. A \in SUBSET Recent(i, now[h])
      <4>1. start \in Nat
        BY Limits
      <4> QED
        BY <2>3, <4>1, SnapshotCountsWindow
    <3>2. /\ Recent(i, now[h]) \in SUBSET DOMAIN request_logs
          /\ IsFiniteSet(Recent(i, now[h])) /\ TotalBytes(Recent(i, now[h])) \in Nat
      BY RowsFinite DEF Recent
    <3>3. Cardinality(Stack(A, RowBytes)) <= Cardinality(Stack(Recent(i, now[h]), RowBytes))
      BY <3>1, <3>2, StackFinite
    <3>4. total = Cardinality(Stack(A, RowBytes))
      BY <2>1, <3>1, <3>2, TotalIsStack
    <3>5. TotalBytes(Recent(i, now[h])) = Cardinality(Stack(Recent(i, now[h]), RowBytes))
      BY <3>2, TotalIsStack
    <3> QED
      BY <3>2, <3>3, <3>4, <3>5
  <2>5. PICK n : n = Cardinality(F' \ {h}) /\ n \in Nat /\ n <= Cardinality(Handlers) - 1
    <3>1. F' \ {h} \in SUBSET Handlers /\ h \in Handlers \ (F' \ {h})
      BY <1>2
    <3> QED
      BY <3>1, FlightFinite
  <2>6. PICK rest : /\ rest = Cardinality(Stack(F' \ {h}, FlightSize))
                    /\ rest \in Nat /\ rest <= n * MaxBody
    <3>1. F' \ {h} \in SUBSET Handlers
      BY <1>2
    <3>2. IsFiniteSet(F' \ {h})
      BY <3>1, FlightFinite
    <3> QED
      BY <2>5, <3>2, StackFinite
  <2>7. FlightBytes(i, start)' = rest + body
    <3>1. IsFiniteSet(F')
      BY <1>2, FlightFinite
    <3>2. FlightSize[h] = body
      BY <2>2 DEF FlightSize
    <3>3. FlightBytes(i, start)' = Cardinality(Stack(F', FlightSize'))
      BY DEF FlightBytes, Stack
    <3>4. FlightSize' = FlightSize
      BY <1>1 DEF FlightSize
    <3> HIDE DEF F
    <3>5. Cardinality(Stack(F', FlightSize)) = rest + body
      <4>1. FlightSize[h] \in 0 .. MaxBody
        BY <2>2, <3>2
      <4>2. Cardinality(Stack(F', FlightSize)) = Cardinality(Stack(F' \ {h}, FlightSize)) + FlightSize[h]
        BY <1>4, <3>1, <4>1, StackRemove
      <4> QED
        BY <2>6, <3>2, <4>2
    <3> QED
      BY <3>3, <3>4, <3>5
  <2>8. TotalBytes(A)' = total
    BY <1>1, <2>1 DEF TotalBytes, ByteSet, AcceptedIn
  <2>9. body \in Nat /\ MaxBytes \in Nat
    BY <2>2, Limits
  <2>10. total + body <= MaxBytes
    <3>1. PICK seen : seen = TotalBytes(Recent(i, now[h])) /\ seen \in Nat
      BY <2>4
    <3>2. total \in Nat /\ total <= seen /\ seen + body <= MaxBytes
      BY <2>1, <2>3, <2>4, <3>1
    <3>3. seen \in Nat
      BY <3>1
    <3> QED
      BY ONLY <2>9, <3>2, <3>3
  <2>11. total + (rest + body) <= ByteBound
    BY <2>1, <2>5, <2>6, <2>9, <2>10, BytesFit
  <2> HIDE DEF A, F
  <2> QED
    BY <2>7, <2>8, <2>11 DEF A
<1> QED
  BY <1>3, <1>4

(* A recorded row moves the bytes of its handler from the flight to the    *)
(* rows.                                                                   *)
LEMMA ByteRow ==
    ASSUME TypeOK, ByteInv, NEW i \in Identities, NEW start \in 0 .. MaxTime,
           NEW h \in Handlers, RecordLog(h)
    PROVE  (TotalBytes(AcceptedIn(i, start)) + FlightBytes(i, start))'
               <= ByteBound
<1> DEFINE F == ByteFlight(i, start)
<1> DEFINE A == AcceptedIn(i, start)
<1> DEFINE last == Len(request_logs) + 1
<1>1. /\ last \notin DOMAIN request_logs
      /\ DOMAIN request_logs' = DOMAIN request_logs \cup {last}
      /\ \A n \in DOMAIN request_logs : request_logs'[n] = request_logs[n]
      /\ request_logs'[last] = LogRow(h)
      /\ pc[h] = "log" /\ pc'[h] = "read_score" /\ UNCHANGED <<req, now, outcome, snapshot>>
      /\ req[h] \in Requests /\ req[h].data \in Data
      /\ \A g \in Handlers \ {h} : pc'[g] = pc[g]
  BY RowStep
<1>2. F \in SUBSET Handlers /\ F' \in SUBSET Handlers /\ A \in SUBSET DOMAIN request_logs
      /\ A' \in SUBSET DOMAIN request_logs'
  BY DEF ByteFlight, AcceptedIn
<1>3. F' = F \ {h}
  BY <1>1 DEF ByteFlight, Serves, Waiting, Cleared
<1>4. start \in Nat
  BY Limits
<1>5. A' = IF h \in F THEN A \cup {last} ELSE A
  <2>1. h \in F <=> /\ Identity(req[h]) = i /\ outcome[h] = "accepted"
                    /\ now[h] \in start .. start + Window
    BY <1>1, BridgeAssumption DEF ByteFlight, Serves, Waiting, Cleared
  <2> QED
    BY <1>4, <2>1, AcceptedInAppend
<1>6. PICK body : body = Size[req[h].data] /\ body \in 0 .. MaxBody
  BY <1>1, BridgeAssumption
<1>7. /\ \A n \in DOMAIN request_logs : RowBytes'[n] = RowBytes[n]
      /\ RowBytes'[last] = body
  <2>1. LogRow(h).bytes = body
    BY <1>6 DEF LogRow
  <2> QED
    BY <1>1, <2>1 DEF RowBytes
<1>8. PICK total : total = Cardinality(Stack(A, RowBytes)) /\ total \in Nat /\ total = TotalBytes(A)
  <2>1. IsFiniteSet(A)
    BY <1>2, RowsFinite
  <2> QED
    BY <1>2, <2>1, StackFinite, TotalIsStack
<1>9. TotalBytes(A)' = Cardinality(Stack(A', RowBytes'))
  <2>1. ByteSet(A)' = Stack(A', RowBytes')
    <3>1. \A p \in A' \X (1 .. MaxBody) : RowBytes'[p[1]] = request_logs'[p[1]].bytes
      BY <1>2 DEF RowBytes
    <3> HIDE DEF A
    <3> QED
      BY <3>1 DEF ByteSet, Stack
  <2> QED
    BY <2>1 DEF TotalBytes
<1>10. Stack(A, RowBytes') = Stack(A, RowBytes)
  BY <1>2, <1>7, StackSame
<1>11. FlightBytes(i, start)' = Cardinality(Stack(F \ {h}, FlightSize))
  <2>1. FlightSize' = FlightSize
    BY <1>1 DEF FlightSize
  <2>2. FlightBytes(i, start)' = Cardinality(Stack(F', FlightSize'))
    BY DEF FlightBytes, Stack
  <2> HIDE DEF F
  <2> QED
    BY <1>3, <2>1, <2>2
<1>12. PICK b : b = ByteBound /\ b \in Int
  BY ByteBoundType
<1>13. total + Cardinality(Stack(F, FlightSize)) <= b
  BY <1>8, <1>12 DEF ByteInv, FlightBytes
<1>14. CASE h \in F
  <2>1. TotalBytes(A)' = total + body
    <3>1. IsFiniteSet(A) /\ last \notin A
      BY <1>1, <1>2, RowsFinite
    <3> HIDE DEF A, last
    <3>2. Cardinality(Stack(A \cup {last}, RowBytes')) = Cardinality(Stack(A, RowBytes')) + RowBytes'[last]
      <4>1. RowBytes'[last] \in 0 .. MaxBody
        BY <1>6, <1>7
      <4> QED
        BY <3>1, <4>1, StackAdd
    <3>3. A' = A \cup {last}
      BY <1>5, <1>14
    <3> QED
      BY <1>7, <1>8, <1>9, <1>10, <3>2, <3>3
  <2>2. PICK rest : rest = Cardinality(Stack(F \ {h}, FlightSize)) /\ rest \in Nat
    <3>1. IsFiniteSet(F \ {h})
      BY <1>2, FlightFinite
    <3> QED
      BY <3>1, StackFinite
  <2>3. Cardinality(Stack(F, FlightSize)) = rest + body
    <3>1. IsFiniteSet(F)
      BY <1>2, FlightFinite
    <3>2. FlightSize[h] = body
      BY <1>6 DEF FlightSize
    <3> HIDE DEF F
    <3>3. FlightSize[h] \in 0 .. MaxBody
      BY <1>6, <3>2
    <3>4. Cardinality(Stack(F, FlightSize)) = Cardinality(Stack(F \ {h}, FlightSize)) + FlightSize[h]
      BY <1>14, <3>1, <3>3, StackRemove
    <3> QED
      BY <2>2, <3>2, <3>4
  <2>4. (total + body) + rest <= b
    <3>1. body \in Nat
      BY <1>6, Limits
    <3>2. total + (rest + body) <= b
      BY <1>13, <2>3
    <3> QED
      BY <1>8, <1>12, <2>2, <3>1, <3>2
  <2> HIDE DEF A, F, last
  <2> QED
    BY <1>11, <1>12, <2>1, <2>2, <2>4 DEF A
<1>15. CASE h \notin F
  <2> HIDE DEF A, F, last
  <2>1. F \ {h} = F
    BY <1>15
  <2>2. TotalBytes(A)' = total
    BY <1>5, <1>8, <1>9, <1>10, <1>15
  <2> QED
    BY <1>11, <1>12, <1>13, <2>1, <2>2 DEF A
<1> QED
  BY <1>14, <1>15

(* Every step keeps the bytes accepted and in flight in bounds.            *)
LEMMA ByteNext == TypeOK /\ ByteInv /\ [Next]_vars => ByteInv'
<1> SUFFICES ASSUME TypeOK, ByteInv, [Next]_vars, NEW i \in Identities, NEW start \in 0 .. MaxTime
             PROVE  (TotalBytes(AcceptedIn(i, start)) + FlightBytes(i, start))'
                        <= ByteBound
  BY DEF ByteInv
<1>1. CASE \E h \in Handlers : LoadVolume(h)
  BY <1>1, ByteVolume
<1>2. CASE \E h \in Handlers : RecordLog(h)
  BY <1>2, ByteRow
<1>3. CASE \A h \in Handlers : ~LoadVolume(h) /\ ~RecordLog(h)
  <2>1. UNCHANGED request_logs /\ \A g \in Handlers : Quiet(g)
    BY <1>3, QuietStep
  <2>2. ASSUME NEW g \in ByteFlight(i, start)'
        PROVE  g \in ByteFlight(i, start) /\ req'[g] = req[g]
    <3>1. g \in Handlers /\ Serves(g, i, start)' /\ Quiet(g)
      BY <2>1, <2>2 DEF ByteFlight
    <3>2. CASE Waiting(g)' /\ snapshot'[g].recent_bytes + Size[req'[g].data] <= MaxBytes
      BY <3>1, <3>2 DEF Quiet, ByteFlight, Serves
    <3>3. CASE Cleared(g)'
      <4>1. req'[g] = req[g] /\ Serves(g, i, start)
        BY <3>1, <3>3 DEF Quiet, Serves
      <4>2. CASE Cleared(g)
        BY <3>1, <4>1, <4>2 DEF ByteFlight
      <4>3. CASE pc[g] = "validate" /\ Passes(req[g], snapshot[g], clock)
        BY <3>1, <4>1, <4>3 DEF ByteFlight, Waiting, Passes, WithinLimits
      <4> QED
        BY <3>1, <3>3, <4>2, <4>3 DEF Quiet
    <3> QED
      BY <2>2, <3>2, <3>3 DEF ByteFlight
  <2> QED
    BY <2>1, <2>2, ByteQuiet
<1> QED
  BY <1>1, <1>2, <1>3

(* The byte limit holds up to the race: whatever the limits, the number of *)
(* concurrent put_card, put_slot and put_inbox handlers and their          *)
(* interleaving, an identity never gets more than max_bytes and one body   *)
(* per further handler through within a window.  A bridge that serves      *)
(* nobody is left out: its bound would be max_bytes less one body.         *)
THEOREM ByteOvershootTheorem ==
    ASSUME Handlers # {}
    PROVE  Spec => []ByteOvershootBounded
<1>1. Init => ByteInv
  BY ByteInit
<1>2. TypeOK /\ ByteInv => ByteOvershootBounded
  <2> SUFFICES ASSUME TypeOK, ByteInv, NEW i \in Identities, NEW start \in 0 .. MaxTime
               PROVE  TotalBytes(AcceptedIn(i, start))
                          <= MaxBytes + (Cardinality(Handlers) - 1) * MaxBody
    BY DEF ByteOvershootBounded
  <2>1. PICK total : total = TotalBytes(AcceptedIn(i, start)) /\ total \in Nat
    BY RowsFinite DEF AcceptedIn
  <2>2. PICK flight : flight = FlightBytes(i, start) /\ flight \in Nat
    <3>1. IsFiniteSet(ByteFlight(i, start))
      BY FlightFinite DEF ByteFlight
    <3> QED
      BY <3>1, StackFinite DEF FlightBytes
  <2>3. PICK b : b = ByteBound /\ b \in Int
    BY ByteBoundType
  <2>4. total + flight <= b
    BY <2>1, <2>2, <2>3 DEF ByteInv
  <2>5. total <= b
    BY <2>1, <2>2, <2>3, <2>4
  <2> QED
    BY <2>1, <2>3, <2>5 DEF ByteBound
<1> QED
  BY <1>1, <1>2, TypeCorrect, ByteNext, PTL DEF Spec
=============================================================================
