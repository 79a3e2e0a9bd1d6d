------------------------------ MODULE KeyProofs ------------------------------
(* Proofs about KeyHistory, for any number of environments, keys, entries  *)
(* and imports, and any maximal age of recovery keys, and about MlsGroup,  *)
(* for any replicas, members and commits of others, and forks and          *)
(* recoveries of any length.                                               *)
EXTENDS KeyHistory, MlsGroup, FiniteSetTheorems, TLAPS

-----------------------------------------------------------------------------
(* The history of keys: types.                                             *)

IdentitySet == [user: Fresh, key: Fresh]

(* The log of s grows by two entries.                                      *)
GrownTwice(s, d, e) == entries' = [entries EXCEPT ![s] = Append(Append(@, d), e)]

(* What RevocationsJustified asks of one entry and of one log.             *)
Justifies(before, e) ==
    /\ Has(before, "Key", e.user, e.key)
    /\ ~Has(before, "Revocation", e.user, e.key)
    /\ e.recovery # Absent =>
          \E m \in DOMAIN before :
              /\ before[m].type = "Recovery" /\ before[m].user = e.user
              /\ before[m].key = e.recovery
              /\ e.at - before[m].at <= MaxAge

Justified(log) ==
    \A n \in DOMAIN log : ByOperator(log[n]) => Justifies(SubSeq(log, 1, n - 1), log[n])

(* Entries made now with values drawn so far have their type.              *)
LEMMA EntryTypes ==
    ASSUME HistoryTypeOK, NEW user \in Fresh, NEW key \in Fresh,
           NEW recovery \in Fresh \cup {Absent}, NEW by \in {"rotation", "operator"}
    PROVE  /\ KeyEntry(user, key) \in EntrySet
           /\ RecoveryEntry(user, key) \in EntrySet
           /\ RevocationEntry(user, key, recovery, by) \in EntrySet
BY DEF HistoryTypeOK, EntrySet, KeyEntry, RecoveryEntry, RevocationEntry

(* Two entries appended at once are appended one after the other.          *)
LEMMA AppendTwo ==
    ASSUME NEW S, NEW log \in Seq(S), NEW d \in S, NEW e \in S
    PROVE  log \o <<d, e>> = Append(Append(log, d), e)
OBVIOUS

(* A rotation appends the revocation of the key it replaces and the new    *)
(* key.                                                                    *)
LEMMA RotationGrows ==
    ASSUME HistoryTypeOK, NEW s \in Sites, RotateIdentity(s)
    PROVE  /\ identity[s] \in IdentitySet /\ fresh + 1 \in Fresh
           /\ GrownTwice(s, RevocationEntry(identity[s].user, identity[s].key, Absent, "rotation"),
                            KeyEntry(identity[s].user, fresh + 1))
<1>1. identity[s] \in IdentitySet /\ entries[s] \in Seq(EntrySet)
  BY DEF RotateIdentity, HistoryTypeOK, IdentitySet
<1>2. fresh + 1 \in Fresh
  BY HistoryAssumption DEF RotateIdentity, HistoryTypeOK, Fresh
<1> DEFINE d == RevocationEntry(identity[s].user, identity[s].key, Absent, "rotation")
           e == KeyEntry(identity[s].user, fresh + 1)
<1>3. d \in EntrySet /\ e \in EntrySet
  BY <1>1, <1>2, EntryTypes DEF IdentitySet
<1>4. entries[s] \o <<d, e>> = Append(Append(entries[s], d), e)
  BY <1>1, <1>3, AppendTwo
<1> QED
  BY <1>1, <1>2, <1>4 DEF RotateIdentity, SaveLog, GrownTwice

(* The other commands that write to a log append one entry, which is no    *)
(* revocation by rotation and, if it is one by revoke-key, is justified by *)
(* the log as it was.                                                      *)
LEMMA OtherGrows ==
    ASSUME HistoryTypeOK, NEW s \in Sites, AppendCheckpoint(s) \/ CreateRecoveryKey(s) \/ RevokeKey(s)
    PROVE  \E e \in EntrySet :
              /\ entries' = [entries EXCEPT ![s] = Append(@, e)]
              /\ e.by # "rotation"
              /\ ByOperator(e) => Justifies(entries[s], e)
<1>0. MaxFresh \in Nat /\ fresh \in Nat /\ Absent # "rotation" /\ Absent # "operator"
  BY HistoryAssumption DEF HistoryTypeOK
<1>1. identity[s] \in IdentitySet
  BY DEF AppendCheckpoint, CreateRecoveryKey, RevokeKey, HistoryTypeOK, IdentitySet
<1>2. CASE AppendCheckpoint(s)
  <2> DEFINE e == KeyEntry(identity[s].user, identity[s].key)
  <2>1. entries' = [entries EXCEPT ![s] = Append(@, e)] /\ e \in EntrySet
    BY <1>1, <1>2, EntryTypes DEF AppendCheckpoint, SaveLog, IdentitySet
  <2>2. e.by = Absent
    BY DEF KeyEntry
  <2> QED
    BY <1>0, <2>1, <2>2 DEF ByOperator
<1>3. CASE CreateRecoveryKey(s)
  <2> DEFINE e == RecoveryEntry(identity[s].user, fresh + 1)
  <2>1. fresh + 1 \in Fresh
    BY <1>0, <1>3 DEF CreateRecoveryKey, Fresh
  <2>2. entries' = [entries EXCEPT ![s] = Append(@, e)] /\ e \in EntrySet
    BY <1>1, <1>3, <2>1, EntryTypes DEF CreateRecoveryKey, SaveLog, IdentitySet
  <2>3. e.by = Absent
    BY DEF RecoveryEntry
  <2> QED
    BY <1>0, <2>2, <2>3 DEF ByOperator
<1>4. CASE RevokeKey(s)
  <2>1. 1 .. fresh \subseteq Fresh
    BY <1>0 DEF HistoryTypeOK, Fresh
  <2>2. PICK key \in Fresh, recovery \in Fresh \cup {Absent} :
            /\ MayRevoke(entries[s], identity[s].user, key, recovery)
            /\ entries' = [entries EXCEPT ![s] =
                   Append(entries[s], RevocationEntry(identity[s].user, key, recovery, "operator"))]
    BY <1>4, <2>1 DEF RevokeKey, SaveLog
  <2> DEFINE e == RevocationEntry(identity[s].user, key, recovery, "operator")
  <2>3. e \in EntrySet /\ e.by = "operator"
    BY <1>1, EntryTypes DEF RevocationEntry, IdentitySet
  <2>4. Justifies(entries[s], e)
    BY <2>2 DEF MayRevoke, RecoveryValid, Justifies, RevocationEntry
  <2> QED
    BY <2>2, <2>3, <2>4
<1> QED
  BY <1>2, <1>3, <1>4

(* The environments start without identities and with empty logs.          *)
LEMMA TypeInit == HistoryInit => HistoryTypeOK
BY HistoryAssumption DEF HistoryInit, HistoryTypeOK

(* Commands append well-typed entries, and imports replace a log by one    *)
(* that was exported.                                                      *)
LEMMA TypeNext == HistoryTypeOK /\ [HistoryNext]_historyVars => HistoryTypeOK'
<1> SUFFICES ASSUME HistoryTypeOK, [HistoryNext]_historyVars PROVE HistoryTypeOK'
  OBVIOUS
<1>0. /\ MaxFresh \in Nat /\ MaxTime \in Nat /\ fresh \in Nat /\ clock \in Nat
      /\ entries \in [Sites -> Seq(EntrySet)]
  BY HistoryAssumption DEF HistoryTypeOK
<1>1. ASSUME NEW s \in Sites, CreateIdentity(s) PROVE HistoryTypeOK'
  BY <1>0, <1>1 DEF CreateIdentity, HistoryTypeOK, Fresh
<1>2. ASSUME NEW s \in Sites, RotateIdentity(s) PROVE HistoryTypeOK'
  <2> DEFINE d == RevocationEntry(identity[s].user, identity[s].key, Absent, "rotation")
             e == KeyEntry(identity[s].user, fresh + 1)
  <2>1. /\ identity[s] \in IdentitySet /\ fresh + 1 \in Fresh
        /\ entries' = [entries EXCEPT ![s] = Append(Append(@, d), e)]
    BY <1>2, RotationGrows DEF GrownTwice
  <2>2. d \in EntrySet /\ e \in EntrySet
    BY <2>1, EntryTypes DEF IdentitySet
  <2> HIDE DEF d, e
  <2>3. entries' \in [Sites -> Seq(EntrySet)]
    <3>1. Append(Append(entries[s], d), e) \in Seq(EntrySet)
      BY <1>0, <2>2
    <3> QED
      BY <1>0, <2>1, <3>1
  <2>4. identity' \in [Sites -> IdentitySet \cup {Absent}]
    BY <1>2, <2>1 DEF RotateIdentity, HistoryTypeOK, IdentitySet
  <2>5. fresh' \in 0 .. MaxFresh
    BY <1>0, <1>2 DEF RotateIdentity
  <2> QED
    BY <1>2, <2>3, <2>4, <2>5 DEF RotateIdentity, HistoryTypeOK, IdentitySet
<1>3. ASSUME NEW s \in Sites, AppendCheckpoint(s) \/ CreateRecoveryKey(s) \/ RevokeKey(s)
      PROVE  HistoryTypeOK'
  <2>1. PICK e \in EntrySet : entries' = [entries EXCEPT ![s] = Append(@, e)]
    BY <1>3, OtherGrows
  <2>2. entries' \in [Sites -> Seq(EntrySet)]
    <3>1. Append(entries[s], e) \in Seq(EntrySet)
      BY <1>0, <2>1
    <3> QED
      BY <1>0, <2>1, <3>1
  <2>3. UNCHANGED <<clock, identity, exported>> /\ fresh' \in 0 .. MaxFresh
    BY <1>0, <1>3 DEF AppendCheckpoint, CreateRecoveryKey, RevokeKey, HistoryTypeOK
  <2> QED
    BY <2>2, <2>3 DEF HistoryTypeOK
<1>4. ASSUME NEW s \in Sites, ExportLog(s) PROVE HistoryTypeOK'
  BY <1>0, <1>4 DEF ExportLog, HistoryTypeOK
<1>5. ASSUME NEW s \in Sites, ImportLog(s) PROVE HistoryTypeOK'
  <2>1. /\ exported \in Seq(EntrySet) /\ entries' = [entries EXCEPT ![s] = exported]
        /\ UNCHANGED <<clock, fresh, identity, exported>>
    BY <1>5 DEF ImportLog, SaveLog, HistoryTypeOK
  <2> QED
    BY <2>1 DEF HistoryTypeOK
<1>6. CASE Tick
  BY <1>0, <1>6 DEF Tick, HistoryTypeOK
<1>7. CASE UNCHANGED historyVars
  BY <1>7 DEF historyVars, HistoryTypeOK
<1> QED
  BY <1>1, <1>2, <1>3, <1>4, <1>5, <1>6, <1>7 DEF HistoryNext

(* Identities, entries and exported logs have their types in every         *)
(* environment, whatever is created, rotated, revoked or imported.         *)
THEOREM HistoryTypes == HistorySpec => []HistoryTypeOK
  BY TypeInit, TypeNext, PTL DEF HistorySpec

-----------------------------------------------------------------------------
(* The history of keys: keys in use.                                       *)

(* The keys a log says were rotated out have been drawn and are in nobody's *)
(* use.                                                                    *)
OutOfUse(log) ==
    \A n \in DOMAIN log :
        log[n].by = "rotation" =>
            /\ log[n].key <= fresh
            /\ \A t \in Sites : identity[t] # Absent => log[n].key # identity[t].key

(* Keys in use are drawn and distinct, and logs, the exported one included, *)
(* tell the truth about those that are not.                                *)
UseInv ==
    /\ \A s \in Sites : identity[s] # Absent => identity[s].key <= fresh
    /\ \A s, t \in Sites :
          identity[s] # Absent /\ identity[t] # Absent /\ s # t => identity[s].key # identity[t].key
    /\ \A s \in Sites : OutOfUse(entries[s])
    /\ exported # Absent => OutOfUse(exported)

(* Nobody has a key and no log says anything.                              *)
LEMMA UseInit == HistoryInit => UseInv
BY DEF HistoryInit, UseInv, OutOfUse

(* A log that grows by an entry that is true of the keys in use; what is   *)
(* said of a log is said of it after the step.                             *)
LEMMA OutOfUseAppendLater ==
    ASSUME NEW log \in Seq(EntrySet), NEW e \in EntrySet, OutOfUse(log)',
           e.by = "rotation" =>
               /\ e.key <= fresh'
               /\ \A t \in Sites : identity'[t] # Absent => e.key # identity'[t].key
    PROVE  OutOfUse(Append(log, e))' /\ Append(log, e) \in Seq(EntrySet)
<1>1. /\ Len(log) \in Nat /\ DOMAIN log = 1 .. Len(log)
      /\ DOMAIN Append(log, e) = 1 .. Len(log) + 1
      /\ \A n \in 1 .. Len(log) : Append(log, e)[n] = log[n]
      /\ Append(log, e)[Len(log) + 1] = e
  OBVIOUS
<1> QED
  BY <1>1 DEF OutOfUse

(* Logs that nobody touches stay true when what they say does.             *)
LEMMA LogsStay ==
    ASSUME HistoryTypeOK, UseInv, NEW t \in Sites, entries'[t] = entries[t],
           \A log \in Seq(EntrySet) : OutOfUse(log) => OutOfUse(log)'
    PROVE  OutOfUse(entries[t])'
<1>1. PICK log \in Seq(EntrySet) : log = entries[t]
  BY DEF HistoryTypeOK
<1>2. OutOfUse(log)'
  BY <1>1 DEF UseInv
<1> QED
  BY <1>1, <1>2 DEF OutOfUse

(* The same for the exported log.                                          *)
LEMMA ExportStays ==
    ASSUME HistoryTypeOK, UseInv, exported' = exported, exported' # Absent,
           \A log \in Seq(EntrySet) : OutOfUse(log) => OutOfUse(log)'
    PROVE  OutOfUse(exported)'
<1>1. PICK log \in Seq(EntrySet) : log = exported
  BY DEF HistoryTypeOK
<1>2. OutOfUse(log)'
  BY <1>1 DEF UseInv
<1> QED
  BY <1>1, <1>2 DEF OutOfUse

(* Keys are new when they come into use, so what logs say of old ones      *)
(* remains true, wherever the logs are carried.                            *)
LEMMA UseNext == HistoryTypeOK /\ HistoryTypeOK' /\ UseInv /\ [HistoryNext]_historyVars => UseInv'
<1> SUFFICES ASSUME HistoryTypeOK, HistoryTypeOK', UseInv, [HistoryNext]_historyVars PROVE UseInv'
  OBVIOUS
<1>0. /\ fresh \in Nat /\ entries \in [Sites -> Seq(EntrySet)]
      /\ \A s \in Sites : identity[s] # Absent => identity[s].key \in Nat
      /\ \A e \in EntrySet : e.key \in Nat
  <2>1. MaxFresh \in Nat /\ Fresh \subseteq Nat
    BY HistoryAssumption DEF Fresh
  <2>2. \A s \in Sites : identity[s] # Absent => identity[s] \in IdentitySet
    BY DEF HistoryTypeOK, IdentitySet
  <2>3. fresh \in Nat /\ entries \in [Sites -> Seq(EntrySet)]
    BY <2>1 DEF HistoryTypeOK
  <2>4. \A e \in EntrySet : e.key \in Nat
    BY <2>1 DEF EntrySet
  <2>5. \A i \in IdentitySet : i.key \in Nat
    BY <2>1 DEF IdentitySet
  <2> QED
    BY <2>2, <2>3, <2>4, <2>5
(* A new key at site s takes none away from the others.                    *)
<1>1. ASSUME NEW s \in Sites, NEW k \in Nat, k > fresh, k <= fresh', fresh' \in Nat,
             identity'[s] # Absent => identity'[s].key = k,
             \A t \in Sites \ {s} : identity'[t] = identity[t]
      PROVE  /\ \A t \in Sites : identity'[t] # Absent => identity'[t].key <= fresh'
             /\ \A t, u \in Sites :
                  identity'[t] # Absent /\ identity'[u] # Absent /\ t # u
                      => identity'[t].key # identity'[u].key
             /\ \A log \in Seq(EntrySet) : OutOfUse(log) => OutOfUse(log)'
  <2>1. \A t \in Sites : identity[t] # Absent => identity[t].key <= fresh
    BY DEF UseInv
  <2>2. \A t \in Sites : identity'[t] # Absent => identity'[t].key <= fresh'
    BY <1>0, <1>1, <2>1
  <2>3. \A t, u \in Sites :
           identity'[t] # Absent /\ identity'[u] # Absent /\ t # u
               => identity'[t].key # identity'[u].key
    <3>1. \A t \in Sites \ {s} : identity'[t] # Absent => identity'[t].key # k
      BY <1>0, <1>1, <2>1
    <3>2. \A t, u \in Sites \ {s} :
             identity'[t] # Absent /\ identity'[u] # Absent /\ t # u
                 => identity'[t].key # identity'[u].key
      BY <1>1 DEF UseInv
    <3> QED
      BY <1>1, <3>1, <3>2
  <2>4. ASSUME NEW log \in Seq(EntrySet), OutOfUse(log) PROVE OutOfUse(log)'
    <3>1. \A n \in DOMAIN log : log[n].key \in Nat
      BY <1>0
    <3> QED
      BY <1>0, <1>1, <2>4, <3>1 DEF OutOfUse
  <2> QED
    BY <2>2, <2>3, <2>4
<1>2. ASSUME NEW s \in Sites, CreateIdentity(s) PROVE UseInv'
  <2>1. /\ identity' = [identity EXCEPT ![s] = [user |-> fresh + 1, key |-> fresh + 2]]
        /\ fresh' = fresh + 2 /\ UNCHANGED <<entries, exported>>
    BY <1>2 DEF CreateIdentity
  <2>2. identity'[s] = [user |-> fresh + 1, key |-> fresh + 2]
        /\ \A t \in Sites \ {s} : identity'[t] = identity[t]
    BY <2>1 DEF HistoryTypeOK
  <2>3. \A log \in Seq(EntrySet) : OutOfUse(log) => OutOfUse(log)'
    BY <1>0, <1>1, <2>1, <2>2
  <2>4. /\ \A t \in Sites : identity'[t] # Absent => identity'[t].key <= fresh'
        /\ \A t, u \in Sites :
              identity'[t] # Absent /\ identity'[u] # Absent /\ t # u
                  => identity'[t].key # identity'[u].key
    BY <1>0, <1>1, <2>1, <2>2
  <2>5. /\ \A t \in Sites : OutOfUse(entries[t])'
        /\ exported' # Absent => OutOfUse(exported)'
    BY <2>1, <2>3, LogsStay, ExportStays
  <2> QED
    BY <2>4, <2>5 DEF UseInv
<1>3. ASSUME NEW s \in Sites, RotateIdentity(s) PROVE UseInv'
  <2> DEFINE d == RevocationEntry(identity[s].user, identity[s].key, Absent, "rotation")
             e == KeyEntry(identity[s].user, fresh + 1)
  <2>1. /\ identity[s] \in IdentitySet /\ identity[s] # Absent /\ fresh + 1 \in Fresh
        /\ entries' = [entries EXCEPT ![s] = Append(Append(@, d), e)]
        /\ fresh' = fresh + 1 /\ exported' = exported
        /\ identity' = [identity EXCEPT ![s].key = fresh + 1]
    BY <1>3, RotationGrows DEF RotateIdentity, GrownTwice
  <2>2. identity'[s].key = fresh + 1 /\ \A t \in Sites \ {s} : identity'[t] = identity[t]
    BY <2>1 DEF HistoryTypeOK, IdentitySet
  <2>3. PICK k \in Nat : k = fresh + 1 /\ k > fresh /\ k = fresh' /\ identity'[s].key = k
    BY <1>0, <2>1, <2>2
  <2>4. /\ \A t \in Sites : identity'[t] # Absent => identity'[t].key <= fresh'
        /\ \A t, u \in Sites :
              identity'[t] # Absent /\ identity'[u] # Absent /\ t # u
                  => identity'[t].key # identity'[u].key
        /\ \A log \in Seq(EntrySet) : OutOfUse(log) => OutOfUse(log)'
    BY <1>1, <2>2, <2>3
  <2>5. OutOfUse(entries[s])'
    <3>1. PICK log \in Seq(EntrySet) : log = entries[s]
      BY <1>0
    <3>2. PICK old, new \in EntrySet : old = d /\ new = e
      BY <2>1, EntryTypes DEF IdentitySet
    <3>3. entries'[s] = Append(Append(log, old), new)
      BY <1>0, <2>1, <3>1, <3>2
    <3>4. OutOfUse(log)'
      BY <2>4, <3>1 DEF UseInv
    <3>5. /\ old.key <= fresh'
          /\ \A t \in Sites : identity'[t] # Absent => old.key # identity'[t].key
      <4>1. old.key = identity[s].key /\ old.key \in Nat /\ old.key <= fresh
        BY <1>0, <2>1, <3>2 DEF RevocationEntry, UseInv
      <4>2. \A t \in Sites \ {s} : identity[t] # Absent => old.key # identity[t].key
        BY <2>1, <4>1 DEF UseInv
      <4> QED
        BY <1>0, <2>1, <2>2, <4>1, <4>2
    <3>6. new.by # "rotation"
      BY <3>2, HistoryAssumption DEF KeyEntry
    <3>7. OutOfUse(Append(log, old))' /\ Append(log, old) \in Seq(EntrySet)
      BY <3>4, <3>5, OutOfUseAppendLater
    <3>8. PICK more \in Seq(EntrySet) : more = Append(log, old)
      BY <3>7
    <3>9. OutOfUse(Append(more, new))'
      BY <3>6, <3>7, <3>8, OutOfUseAppendLater
    <3> QED
      BY <3>3, <3>8, <3>9 DEF OutOfUse
  <2>6. \A t \in Sites : OutOfUse(entries[t])'
    <3> SUFFICES ASSUME NEW t \in Sites PROVE OutOfUse(entries[t])'
      OBVIOUS
    <3>1. t # s => entries'[t] = entries[t]
      BY <1>0, <2>1
    <3> QED
      BY <2>4, <2>5, <3>1, LogsStay
  <2>7. exported' # Absent => OutOfUse(exported)'
    BY <2>1, <2>4, ExportStays
  <2> QED
    BY <2>4, <2>6, <2>7 DEF UseInv
(* Commands that leave the identities alone.                               *)
<1>4. ASSUME UNCHANGED identity, fresh' \in Nat, fresh <= fresh'
      PROVE  /\ \A t \in Sites : identity'[t] # Absent => identity'[t].key <= fresh'
             /\ \A t, u \in Sites :
                  identity'[t] # Absent /\ identity'[u] # Absent /\ t # u
                      => identity'[t].key # identity'[u].key
             /\ \A log \in Seq(EntrySet) : OutOfUse(log) => OutOfUse(log)'
  <2>1. ASSUME NEW log \in Seq(EntrySet), OutOfUse(log) PROVE OutOfUse(log)'
    <3>1. \A n \in DOMAIN log : log[n].key \in Nat
      BY <1>0
    <3> QED
      BY <1>0, <1>4, <2>1, <3>1 DEF OutOfUse
  <2> QED
    BY <1>0, <1>4, <2>1 DEF UseInv
<1>5. ASSUME NEW s \in Sites, AppendCheckpoint(s) \/ CreateRecoveryKey(s) \/ RevokeKey(s)
      PROVE  UseInv'
  <2>1. PICK e \in EntrySet : /\ entries' = [entries EXCEPT ![s] = Append(@, e)]
                              /\ e.by # "rotation"
    BY <1>5, OtherGrows
  <2>2. UNCHANGED <<identity, exported>> /\ fresh' \in Nat /\ fresh <= fresh'
    BY <1>0, <1>5 DEF AppendCheckpoint, CreateRecoveryKey, RevokeKey
  <2>3. OutOfUse(entries[s])'
    <3>1. PICK log \in Seq(EntrySet) : log = entries[s]
      BY <1>0
    <3>2. OutOfUse(Append(log, e))'
      BY <1>4, <2>1, <2>2, <3>1, OutOfUseAppendLater DEF UseInv
    <3>3. entries'[s] = Append(log, e)
      BY <1>0, <2>1, <3>1
    <3> QED
      BY <3>2, <3>3 DEF OutOfUse
  <2>4. \A t \in Sites : OutOfUse(entries[t])'
    <3> SUFFICES ASSUME NEW t \in Sites PROVE OutOfUse(entries[t])'
      OBVIOUS
    <3>1. t # s => entries'[t] = entries[t]
      BY <1>0, <2>1
    <3> QED
      BY <1>4, <2>2, <2>3, <3>1, LogsStay
  <2>5. exported' # Absent => OutOfUse(exported)'
    BY <1>4, <2>2, ExportStays
  <2> QED
    BY <1>4, <2>2, <2>4, <2>5 DEF UseInv
<1>6. ASSUME NEW s \in Sites, ExportLog(s) PROVE UseInv'
  BY <1>6 DEF ExportLog, UseInv, OutOfUse
<1>7. ASSUME NEW s \in Sites, ImportLog(s) PROVE UseInv'
  <2>1. /\ exported # Absent /\ entries' = [entries EXCEPT ![s] = exported]
        /\ UNCHANGED <<fresh, identity, exported>>
    BY <1>7 DEF ImportLog, SaveLog
  <2>2. \A t \in Sites : entries'[t] = entries[t] \/ entries'[t] = exported
    BY <1>0, <2>1
  <2> QED
    BY <2>1, <2>2 DEF UseInv, OutOfUse
<1>8. CASE Tick \/ UNCHANGED historyVars
  BY <1>8 DEF Tick, historyVars, UseInv, OutOfUse
<1> QED
  BY <1>2, <1>3, <1>5, <1>6, <1>7, <1>8 DEF HistoryNext

(* A key that is in use is never revoked behind its owner's back: whatever *)
(* logs were exported and imported, the rotation that revokes a key has    *)
(* replaced it.                                                            *)
THEOREM OutOfUseTheorem == HistorySpec => []RotatedOutOfUse
<1>1. UseInv => RotatedOutOfUse
  BY DEF UseInv, OutOfUse, RotatedOutOfUse
<1> QED
  BY <1>1, TypeInit, TypeNext, UseInit, UseNext, PTL DEF HistorySpec

-----------------------------------------------------------------------------
(* The history of keys: revocations.                                       *)

JustInv ==
    /\ \A s \in Sites : Justified(entries[s])
    /\ exported # Absent => Justified(exported)

(* What a justified log is followed by.                                    *)
LEMMA JustifiedAppend ==
    ASSUME NEW log \in Seq(EntrySet), NEW e \in EntrySet, Justified(log),
           ByOperator(e) => Justifies(log, e)
    PROVE  Justified(Append(log, e))
<1>1. /\ Len(log) \in Nat /\ DOMAIN log = 1 .. Len(log)
      /\ DOMAIN Append(log, e) = 1 .. Len(log) + 1
      /\ \A n \in 1 .. Len(log) : Append(log, e)[n] = log[n]
      /\ Append(log, e)[Len(log) + 1] = e
  OBVIOUS
<1>2. ASSUME NEW n \in 1 .. Len(log)
      PROVE  SubSeq(Append(log, e), 1, n - 1) = SubSeq(log, 1, n - 1)
  BY <1>1
<1>3. SubSeq(Append(log, e), 1, (Len(log) + 1) - 1) = log
  BY <1>1
<1>4. ASSUME NEW n \in DOMAIN Append(log, e), ByOperator(Append(log, e)[n])
      PROVE  Justifies(SubSeq(Append(log, e), 1, n - 1), Append(log, e)[n])
  <2>1. CASE n = Len(log) + 1
    BY <1>1, <1>3, <1>4, <2>1
  <2>2. CASE n # Len(log) + 1
    <3>1. n \in 1 .. Len(log)
      BY <1>1, <2>2
    <3> QED
      BY <1>1, <1>2, <1>4, <3>1 DEF Justified
  <2> QED
    BY <2>1, <2>2
<1> QED
  BY <1>4 DEF Justified

(* Empty logs justify themselves.                                          *)
LEMMA JustInit == HistoryInit => JustInv
BY DEF HistoryInit, JustInv, Justified

(* Rotations append no revocation that revoke-key made, revoke-key checks  *)
(* what it appends, and imports carry whole logs.                          *)
LEMMA JustNext == HistoryTypeOK /\ JustInv /\ [HistoryNext]_historyVars => JustInv'
<1> SUFFICES ASSUME HistoryTypeOK, JustInv, [HistoryNext]_historyVars PROVE JustInv'
  OBVIOUS
<1>0. entries \in [Sites -> Seq(EntrySet)]
  BY DEF HistoryTypeOK
<1>1. ASSUME NEW s \in Sites, RotateIdentity(s) PROVE JustInv'
  <2> DEFINE d == RevocationEntry(identity[s].user, identity[s].key, Absent, "rotation")
             e == KeyEntry(identity[s].user, fresh + 1)
  <2>1. /\ identity[s] \in IdentitySet /\ fresh + 1 \in Fresh
        /\ entries' = [entries EXCEPT ![s] = Append(Append(@, d), e)]
    BY <1>1, RotationGrows DEF GrownTwice
  <2>2. d \in EntrySet /\ e \in EntrySet
    BY <2>1, EntryTypes DEF IdentitySet
  <2>3. ~ByOperator(d) /\ ~ByOperator(e)
    BY DEF ByOperator, RevocationEntry, KeyEntry
  <2> HIDE DEF d, e
  <2>4. Append(entries[s], d) \in Seq(EntrySet) /\ Justified(Append(entries[s], d))
    BY <1>0, <2>2, <2>3, JustifiedAppend DEF JustInv
  <2>5. Justified(Append(Append(entries[s], d), e))
    BY <2>2, <2>3, <2>4, JustifiedAppend
  <2>6. exported' = exported
    BY <1>1 DEF RotateIdentity
  <2> QED
    BY <1>0, <2>1, <2>5, <2>6 DEF JustInv
<1>2. ASSUME NEW s \in Sites, AppendCheckpoint(s) \/ CreateRecoveryKey(s) \/ RevokeKey(s)
      PROVE  JustInv'
  <2>1. PICK e \in EntrySet : /\ entries' = [entries EXCEPT ![s] = Append(@, e)]
                              /\ ByOperator(e) => Justifies(entries[s], e)
    BY <1>2, OtherGrows
  <2>2. Justified(Append(entries[s], e))
    BY <1>0, <2>1, JustifiedAppend DEF JustInv
  <2>3. exported' = exported
    BY <1>2 DEF AppendCheckpoint, CreateRecoveryKey, RevokeKey
  <2> QED
    BY <1>0, <2>1, <2>2, <2>3 DEF JustInv
<1>3. ASSUME NEW s \in Sites, ExportLog(s) PROVE JustInv'
  BY <1>3 DEF ExportLog, JustInv
<1>4. ASSUME NEW s \in Sites, ImportLog(s) PROVE JustInv'
  BY <1>0, <1>4 DEF ImportLog, SaveLog, JustInv
<1>5. ASSUME NEW s \in Sites, CreateIdentity(s) PROVE JustInv'
  BY <1>5 DEF CreateIdentity, JustInv
<1>6. CASE Tick \/ UNCHANGED historyVars
  BY <1>6 DEF Tick, historyVars, JustInv
<1> QED
  BY <1>1, <1>2, <1>3, <1>4, <1>5, <1>6 DEF HistoryNext

(* What revoke-key did is justified by the log it is found in, in every    *)
(* environment and after every import: the key had been issued and was not *)
(* revoked, and a recovery key that was used had been registered in time.  *)
THEOREM JustifiedTheorem == HistorySpec => []RevocationsJustified
<1>1. JustInv => RevocationsJustified
  BY DEF JustInv, Justified, Justifies, RevocationsJustified
<1> QED
  BY <1>1, TypeInit, TypeNext, JustInit, JustNext, PTL DEF HistorySpec

-----------------------------------------------------------------------------
(* Groups: induction.                                                      *)

(* A set of numbers has a smallest one.                                    *)
LEMMA LeastNatural ==
    ASSUME NEW S \in SUBSET Nat, S # {}
    PROVE  \E n \in S : \A m \in S : n <= m
<1> DEFINE R == {ss \in Nat \X Nat : ss[1] < ss[2]}
<1>1. IsWellFoundedOn(R, Nat)
  BY NatLessThanWellFounded DEF OpToRel
<1>2. PICK n \in S : \A m \in S : ~(<<m, n>> \in R)
  <2> HIDE DEF R
  <2> QED
    BY <1>1, WFMin
<1>3. \A m \in S : ~(m < n)
  BY <1>2
<1> QED
  BY <1>3

(* A set with 0 and all successors is the set of natural numbers.          *)
LEMMA Induction ==
    ASSUME NEW S \in SUBSET Nat, 0 \in S, \A n \in S : n + 1 \in S
    PROVE  S = Nat
<1> SUFFICES ASSUME Nat \ S # {} PROVE FALSE
  OBVIOUS
<1>1. PICK n \in Nat \ S : \A m \in Nat \ S : n <= m
  BY LeastNatural
<1>2. n - 1 \in Nat /\ ~(n <= n - 1) /\ (n - 1) + 1 = n
  BY <1>1
<1> QED
  BY <1>1, <1>2

(* Numbers up to a bound have a largest one.                               *)
LEMMA Greatest ==
    ASSUME NEW n \in Nat, NEW S \in SUBSET (0 .. n), S # {}
    PROVE  \E i \in S : \A j \in S : j <= i
<1> DEFINE T == {m \in Nat : n - m \in S}
<1>1. \A i \in S : n - i \in T /\ n - (n - i) = i
  OBVIOUS
<1>2. PICK m \in T : \A k \in T : m <= k
  BY <1>1, LeastNatural
<1>3. \A j \in S : m <= n - j
  BY <1>1, <1>2
<1>4. n - m \in S /\ \A j \in S : j <= n - m
  BY <1>2, <1>3
<1> QED
  BY <1>4

-----------------------------------------------------------------------------
(* Groups: the states along a chain of commits.                            *)

(* Along is the function its definition describes.                         *)
LEMMA AlongDef ==
    ASSUME NEW g, NEW chain, Len(chain) \in Nat
    PROVE  Along(g, chain) =
             [i \in 0 .. Len(chain) |->
                 IF i = 0 THEN g ELSE Applied(Along(g, chain)[i - 1], chain[i])]
<1> DEFINE Is(f, n) ==
             f = [i \in 0 .. n |-> IF i = 0 THEN g ELSE Applied(f[i - 1], chain[i])]
           S == {n \in Nat : \E f : Is(f, n)}
<1>1. 0 \in S
  <2>1. Is([i \in 0 .. 0 |-> g], 0)
    OBVIOUS
  <2> QED
    BY <2>1
<1>2. ASSUME NEW n \in S PROVE n + 1 \in S
  <2>1. PICK f : Is(f, n)
    OBVIOUS
  <2> DEFINE h == [i \in 0 .. n + 1 |-> IF i <= n THEN f[i] ELSE Applied(f[n], chain[n + 1])]
  <2>2. ASSUME NEW i \in 0 .. n + 1
        PROVE  h[i] = IF i = 0 THEN g ELSE Applied(h[i - 1], chain[i])
    <3>1. CASE i = 0
      BY <2>1, <3>1
    <3>2. CASE i \in 1 .. n
      <4>1. h[i] = f[i] /\ h[i - 1] = f[i - 1] /\ i \in 0 .. n
        BY <3>2
      <4> QED
        BY <2>1, <3>2, <4>1
    <3>3. CASE i = n + 1
      BY <3>3
    <3> QED
      BY <3>1, <3>2, <3>3
  <2>3. Is(h, n + 1)
    <3> HIDE DEF h
    <3>1. h = [i \in 0 .. n + 1 |-> h[i]]
      BY DEF h
    <3> QED
      BY <2>2, <3>1
  <2> QED
    BY <2>3
<1>3. S = Nat
  <2> HIDE DEF S
  <2>1. S \in SUBSET Nat
    BY DEF S
  <2> QED
    BY <1>1, <1>2, <2>1, Induction
<1>4. \E f : Is(f, Len(chain))
  BY <1>3
<1> QED
  BY <1>4 DEF Along

(* Its first value, and the step to each of the others.                    *)
LEMMA AlongStep ==
    ASSUME NEW g, NEW chain, Len(chain) \in Nat
    PROVE  /\ Along(g, chain)[0] = g
           /\ \A i \in 1 .. Len(chain) :
                 Along(g, chain)[i] = Applied(Along(g, chain)[i - 1], chain[i])
<1> DEFINE f == Along(g, chain)
<1>1. f = [i \in 0 .. Len(chain) |-> IF i = 0 THEN g ELSE Applied(f[i - 1], chain[i])]
  BY AlongDef
<1> HIDE DEF f
<1>2. f[0] = g /\ \A i \in 1 .. Len(chain) : f[i] = Applied(f[i - 1], chain[i])
  BY <1>1
<1> QED
  BY <1>2 DEF f

(* A group and a commit give a group.                                      *)
LEMMA AppliedType ==
    ASSUME NEW g \in GroupSet, NEW c \in CommitSet
    PROVE  Applied(g, c) \in GroupSet
<1>1. /\ c.epoch \in Nat /\ c.suite \in Suites \cup {None} /\ c.secret \in Secrets \cup {None}
      /\ c.added \in SUBSET Members /\ c.removed \in SUBSET Members
  BY DEF CommitSet
<1>2. /\ g.suite \in Suites /\ g.members \in SUBSET Members
      /\ g.secret \in Seq(Secrets \cup {Seed} \cup Nat)
  BY DEF GroupSet
<1>3. (IF c.secret # None THEN <<c.secret>> ELSE Append(g.secret, c.epoch))
         \in Seq(Secrets \cup {Seed} \cup Nat)
  <2> DEFINE V == Secrets \cup {Seed} \cup Nat
  <2>1. g.secret \in Seq(V) /\ c.epoch \in V /\ (c.secret # None => c.secret \in V)
    BY <1>1, <1>2
  <2> HIDE DEF V
  <2>2. c.secret # None => <<c.secret>> \in Seq(V)
    BY <2>1
  <2>3. Append(g.secret, c.epoch) \in Seq(V)
    BY <2>1
  <2>4. (IF c.secret # None THEN <<c.secret>> ELSE Append(g.secret, c.epoch)) \in Seq(V)
    BY <2>2, <2>3
  <2> QED
    BY <2>4 DEF V
<1>4. (IF c.suite = None THEN g.suite ELSE c.suite) \in Suites
  BY <1>1, <1>2
<1>5. (g.members \cup c.added) \ c.removed \in SUBSET Members
  BY <1>1, <1>2
<1> QED
  BY <1>1, <1>3, <1>4, <1>5 DEF Applied, GroupSet

(* All states along a chain are groups.                                    *)
LEMMA AlongType ==
    ASSUME NEW g \in GroupSet, NEW chain \in Seq(CommitSet), NEW i \in 0 .. Len(chain)
    PROVE  Along(g, chain)[i] \in GroupSet
<1> DEFINE S == {n \in Nat : n <= Len(chain) => Along(g, chain)[n] \in GroupSet}
<1>1. 0 \in S
  BY AlongStep
<1>2. ASSUME NEW n \in S PROVE n + 1 \in S
  <2> SUFFICES ASSUME n + 1 <= Len(chain) PROVE Along(g, chain)[n + 1] \in GroupSet
    OBVIOUS
  <2>1. /\ n + 1 \in 1 .. Len(chain) /\ (n + 1) - 1 = n /\ chain[n + 1] \in CommitSet
        /\ Along(g, chain)[n] \in GroupSet
    OBVIOUS
  <2>2. Along(g, chain)[n + 1] = Applied(Along(g, chain)[n], chain[n + 1])
    BY <2>1, AlongStep
  <2> QED
    BY <2>1, <2>2, AppliedType
<1>3. S = Nat
  <2> HIDE DEF S
  <2>1. S \in SUBSET Nat
    BY DEF S
  <2> QED
    BY <1>1, <1>2, <2>1, Induction
<1> QED
  BY <1>3

(* What a history of commits makes of a group that was just created, as    *)
(* far as refused commits do not touch it.                                 *)
Agree(g, h) == g.members = h.members /\ g.secret = h.secret

Reached(history) == Along(Created, history)[Len(history)]

(* A commit keeps the agreement of two groups.                             *)
LEMMA AppliedAgree ==
    ASSUME NEW g, NEW h, NEW c, Agree(g, h)
    PROVE  Agree(Applied(g, c), Applied(h, c))
BY DEF Agree, Applied

(* One more commit takes a history one step further.                       *)
LEMMA ReachedAppend ==
    ASSUME NEW p \in Seq(CommitSet), NEW c \in CommitSet
    PROVE  Reached(Append(p, c)) = Applied(Reached(p), c)
<1> DEFINE q == Append(p, c)
           S == {n \in Nat : n <= Len(p) => Along(Created, q)[n] = Along(Created, p)[n]}
<1>1. /\ q \in Seq(CommitSet) /\ Len(p) \in Nat /\ Len(q) = Len(p) + 1
      /\ q[Len(p) + 1] = c /\ \A i \in 1 .. Len(p) : q[i] = p[i]
  OBVIOUS
<1> HIDE DEF q
<1>2. 0 \in S
  BY <1>1, AlongStep
<1>3. ASSUME NEW n \in S PROVE n + 1 \in S
  <2> SUFFICES ASSUME n + 1 <= Len(p) PROVE Along(Created, q)[n + 1] = Along(Created, p)[n + 1]
    OBVIOUS
  <2>1. /\ n + 1 \in 1 .. Len(p) /\ n + 1 \in 1 .. Len(q) /\ (n + 1) - 1 = n
        /\ q[n + 1] = p[n + 1] /\ Along(Created, q)[n] = Along(Created, p)[n]
    BY <1>1
  <2>2. Along(Created, q)[n + 1] = Applied(Along(Created, q)[n], q[n + 1])
    <3>1. Len(q) \in Nat
      BY <1>1
    <3> QED
      BY <2>1, <3>1, AlongStep
  <2>3. Along(Created, p)[n + 1] = Applied(Along(Created, p)[n], p[n + 1])
    <3>1. Len(p) \in Nat
      BY <1>1
    <3> QED
      BY <2>1, <3>1, AlongStep
  <2> QED
    BY <2>1, <2>2, <2>3
<1>4. S = Nat
  <2> HIDE DEF S
  <2>1. S \in SUBSET Nat
    BY DEF S
  <2> QED
    BY <1>2, <1>3, <2>1, Induction
<1>5. Along(Created, q)[Len(p)] = Along(Created, p)[Len(p)]
  BY <1>1, <1>4
<1>6. /\ Along(Created, q)[Len(q)] = Applied(Along(Created, q)[Len(p)], c)
  <2>1. Len(q) \in 1 .. Len(q) /\ Len(q) - 1 = Len(p) /\ q[Len(q)] = c
    BY <1>1
  <2> QED
    BY <1>1, <2>1, AlongStep
<1> QED
  BY <1>5, <1>6 DEF Reached, q

(* A group that agrees with a history keeps doing so along a chain.        *)
LEMMA AlongReached ==
    ASSUME NEW p \in Seq(CommitSet), NEW g, Agree(g, Reached(p)),
           NEW chain \in Seq(CommitSet), NEW i \in 0 .. Len(chain)
    PROVE  Agree(Along(g, chain)[i], Reached(p \o SubSeq(chain, 1, i)))
<1> DEFINE S == {n \in Nat : n <= Len(chain) =>
                    Agree(Along(g, chain)[n], Reached(p \o SubSeq(chain, 1, n)))}
<1>1. 0 \in S
  <2>1. p \o SubSeq(chain, 1, 0) = p
    OBVIOUS
  <2>2. Along(g, chain)[0] = g
    BY AlongStep
  <2> QED
    BY <2>1, <2>2
<1>2. ASSUME NEW n \in S PROVE n + 1 \in S
  <2> SUFFICES ASSUME n + 1 <= Len(chain)
               PROVE  Agree(Along(g, chain)[n + 1], Reached(p \o SubSeq(chain, 1, n + 1)))
    OBVIOUS
  <2> DEFINE q == p \o SubSeq(chain, 1, n)
  <2>1. /\ n + 1 \in 1 .. Len(chain) /\ (n + 1) - 1 = n /\ chain[n + 1] \in CommitSet
        /\ Agree(Along(g, chain)[n], Reached(q))
    OBVIOUS
  <2>2. Along(g, chain)[n + 1] = Applied(Along(g, chain)[n], chain[n + 1])
    BY <2>1, AlongStep
  <2>3. q \in Seq(CommitSet)
    OBVIOUS
  <2>4. p \o SubSeq(chain, 1, n + 1) = Append(q, chain[n + 1])
    BY <2>1
  <2> HIDE DEF q
  <2>5. Reached(Append(q, chain[n + 1])) = Applied(Reached(q), chain[n + 1])
    BY <2>1, <2>3, ReachedAppend
  <2> QED
    BY <2>1, <2>2, <2>4, <2>5, AppliedAgree
<1>3. S = Nat
  <2> HIDE DEF S
  <2>1. S \in SUBSET Nat
    BY DEF S
  <2> QED
    BY <1>1, <1>2, <2>1, Induction
<1> QED
  BY <1>3

-----------------------------------------------------------------------------
(* Groups: refused commits and recoveries.                                 *)

(* A refused commit changes neither the epoch, nor the members, nor the    *)
(* secret.                                                                 *)
LEMMA RefusedKeeps ==
    ASSUME NEW g \in GroupSet, NEW c \in CommitSet
    PROVE  /\ Refused(g, c) \in GroupSet
           /\ Refused(g, c).epoch = g.epoch
           /\ Agree(Refused(g, c), g)
BY DEF Refused, Agree, GroupSet, CommitSet

(* A list of n values is a sequence.                                       *)
LEMMA Listed ==
    ASSUME NEW n \in Nat, NEW S, NEW f, \A i \in 1 .. n : f[i] \in S
    PROVE  /\ [i \in 1 .. n |-> f[i]] \in Seq(S)
           /\ Len([i \in 1 .. n |-> f[i]]) = n
OBVIOUS

(* The sorted commits of a contiguous gap, and the target at their end,    *)
(* carry the epochs that follow the group's one by one.                    *)
LEMMA ChainOfGap ==
    ASSUME NEW g \in GroupSet, NEW target \in CommitSet, target.epoch > g.epoch + 1,
           NEW missing \in SUBSET CommitSet, IsFiniteSet(missing), target \notin missing,
           Contiguous(g, target, missing)
    PROVE  /\ Ordered(missing \cup {target}, g.epoch + 1) \in Seq(CommitSet)
           /\ \A i \in 1 .. Len(Ordered(missing \cup {target}, g.epoch + 1)) :
                 Ordered(missing \cup {target}, g.epoch + 1)[i].epoch = g.epoch + i
<1> DEFINE chain == Ordered(missing \cup {target}, g.epoch + 1)
           commits == missing \cup {target}
           n == Cardinality(commits)
<1>1. g.epoch \in Nat /\ target.epoch \in Nat
  BY DEF GroupSet, CommitSet
<1>2. n = target.epoch - g.epoch /\ n \in Nat
  <2>1. n = Cardinality(missing) + 1
    BY FS_AddElement
  <2> QED
    BY <1>1, <2>1 DEF Contiguous
<1>3. ASSUME NEW i \in 1 .. n
      PROVE  \E c \in commits : c.epoch = (g.epoch + 1) + i - 1
  <2>1. CASE i = n
    BY <1>1, <1>2, <2>1
  <2>2. CASE i # n
    <3>1. g.epoch + i \in (g.epoch + 1) .. (target.epoch - 1)
      BY <1>1, <1>2, <2>2
    <3>2. PICK c \in missing : c.epoch = g.epoch + i
      BY <3>1 DEF Contiguous
    <3> QED
      BY <1>1, <1>2, <3>2
  <2> QED
    BY <2>1, <2>2
<1>4. chain = [i \in 1 .. n |-> CHOOSE c \in commits : c.epoch = (g.epoch + 1) + i - 1]
  BY DEF Ordered
<1>5. commits \subseteq CommitSet
  OBVIOUS
<1> HIDE DEF commits, n, chain
<1>6. \A i \in 1 .. n : chain[i] \in CommitSet /\ chain[i].epoch = (g.epoch + 1) + i - 1
  BY <1>3, <1>4, <1>5
<1>7. chain \in Seq(CommitSet) /\ Len(chain) = n
  <2>1. chain = [i \in 1 .. n |-> chain[i]]
    BY <1>4
  <2>2. \A i \in 1 .. n : chain[i] \in CommitSet
    BY <1>6
  <2> DEFINE listed == [i \in 1 .. n |-> chain[i]]
  <2>3. listed \in Seq(CommitSet) /\ Len(listed) = n
    BY <1>2, <2>2, Listed
  <2>4. chain = listed
    BY <2>1
  <2> HIDE DEF listed
  <2> QED
    BY <2>3, <2>4
<1>8. \A i \in 1 .. n : (g.epoch + 1) + i - 1 = g.epoch + i
  BY <1>1, <1>2
<1> QED
  BY <1>6, <1>7, <1>8 DEF chain

(* A history in order, followed by such a chain, is in order.              *)
LEMMA Continued ==
    ASSUME NEW p \in Seq(CommitSet), \A n \in DOMAIN p : p[n].epoch = n,
           NEW tail \in Seq(CommitSet),
           \A i \in 1 .. Len(tail) : tail[i].epoch = Len(p) + i
    PROVE  /\ p \o tail \in Seq(CommitSet) /\ Len(p \o tail) = Len(p) + Len(tail)
           /\ \A n \in DOMAIN (p \o tail) : (p \o tail)[n].epoch = n
<1>1. /\ p \o tail \in Seq(CommitSet) /\ Len(p \o tail) = Len(p) + Len(tail)
      /\ \A i \in 1 .. Len(p) + Len(tail) :
            (p \o tail)[i] = IF i <= Len(p) THEN p[i] ELSE tail[i - Len(p)]
  OBVIOUS
<1>2. Len(p) \in Nat /\ Len(tail) \in Nat /\ DOMAIN p = 1 .. Len(p)
      /\ DOMAIN (p \o tail) = 1 .. Len(p) + Len(tail)
  BY <1>1
<1>3. ASSUME NEW n \in 1 .. Len(p) + Len(tail) PROVE (p \o tail)[n].epoch = n
  <2>1. CASE n <= Len(p)
    BY <1>1, <1>2, <2>1
  <2>2. CASE ~(n <= Len(p))
    <3>1. n - Len(p) \in 1 .. Len(tail) /\ Len(p) + (n - Len(p)) = n
      BY <1>2, <2>2
    <3> QED
      BY <1>1, <2>2, <3>1
  <2> QED
    BY <2>1, <2>2
<1> QED
  BY <1>1, <1>2, <1>3

(* Along such a chain the epochs follow one by one.                        *)
LEMMA AlongEpoch ==
    ASSUME NEW g \in GroupSet, NEW chain \in Seq(CommitSet),
           \A i \in 1 .. Len(chain) : chain[i].epoch = g.epoch + i,
           NEW n \in 0 .. Len(chain)
    PROVE  Along(g, chain)[n].epoch = g.epoch + n
<1>1. CASE n = 0
  BY <1>1, AlongStep DEF GroupSet
<1>2. CASE n # 0
  <2>1. n \in 1 .. Len(chain) /\ Len(chain) \in Nat
    BY <1>2
  <2>2. Along(g, chain)[n] = Applied(Along(g, chain)[n - 1], chain[n])
    BY <2>1, AlongStep
  <2> QED
    BY <2>1, <2>2 DEF Applied
<1> QED
  BY <1>1, <1>2

-----------------------------------------------------------------------------
(* The invariant.  That a group is what its history makes of a new one     *)
(* does not speak of two replicas, and each step preserves it.             *)
Inv ==
    /\ TypeOK
    /\ IsFiniteSet(net)
    /\ AppliedInOrder
    /\ \A r \in Replicas : Agree(group[r], Reached(applied[r]))

(* What a call on one replica must establish for the invariant.            *)
LEMMA OneReplica ==
    ASSUME Inv, NEW r \in Replicas,
           NEW g \in GroupSet, NEW history \in Seq(CommitSet),
           group' = [group EXCEPT ![r] = g],
           applied' = [applied EXCEPT ![r] = history],
           refused' \in [Replicas -> BOOLEAN],
           net' \subseteq CommitSet, IsFiniteSet(net'),
           Len(history) = g.epoch,
           \A n \in DOMAIN history : history[n].epoch = n,
           Agree(g, Reached(history))
    PROVE  Inv'
<1>1. TypeOK'
  BY DEF Inv, TypeOK
<1>2. \A q \in Replicas : /\ group'[q] = IF q = r THEN g ELSE group[q]
                          /\ applied'[q] = IF q = r THEN history ELSE applied[q]
  BY DEF Inv, TypeOK
<1>3. AppliedInOrder'
  BY <1>2 DEF Inv, AppliedInOrder
<1>4. \A q \in Replicas : Agree(group'[q], Reached(applied'[q]))
  BY <1>2 DEF Inv
<1> QED
  BY <1>1, <1>3, <1>4 DEF Inv

(* apply_commit and a local change: the next commit takes both the group   *)
(* and its history one step further.                                       *)
LEMMA StepForward ==
    ASSUME Inv, NEW r \in Replicas, NEW c \in CommitSet, c.epoch = group[r].epoch + 1,
           group' = [group EXCEPT ![r] = Applied(@, c)],
           applied' = [applied EXCEPT ![r] = Append(@, c)],
           refused' = [refused EXCEPT ![r] = FALSE],
           net' \subseteq CommitSet, IsFiniteSet(net')
    PROVE  Inv'
<1> DEFINE g == Applied(group[r], c)
           p == applied[r]
           history == Append(p, c)
<1>1. /\ group[r] \in GroupSet /\ p \in Seq(CommitSet)
      /\ group[r].epoch \in Nat /\ Len(p) = group[r].epoch
      /\ \A n \in DOMAIN p : p[n].epoch = n
      /\ Agree(group[r], Reached(p))
      /\ refused \in [Replicas -> BOOLEAN]
  BY DEF Inv, TypeOK, AppliedInOrder, GroupSet
<1>2. group' = [group EXCEPT ![r] = g] /\ applied' = [applied EXCEPT ![r] = history]
  OBVIOUS
<1>3. g \in GroupSet
  BY <1>1, AppliedType
<1>4. g.epoch = Len(p) + 1
  BY <1>1 DEF Applied
<1>5. Agree(g, Reached(history))
  BY <1>1, ReachedAppend, AppliedAgree
<1> HIDE DEF p
<1>6. /\ history \in Seq(CommitSet) /\ Len(history) = Len(p) + 1
      /\ \A n \in DOMAIN history : history[n].epoch = n
  BY <1>1
<1>7. refused' \in [Replicas -> BOOLEAN]
  BY <1>1
<1> HIDE DEF g, history
<1> QED
  BY <1>2, <1>3, <1>4, <1>5, <1>6, <1>7, OneReplica

(* apply_commit on any commit.                                             *)
LEMMA DeliverInv ==
    ASSUME Inv, NEW r \in Replicas, NEW c \in net, Deliver(r, c)
    PROVE  Inv'
<1>1. c \in CommitSet /\ net' = net /\ net' \subseteq CommitSet /\ IsFiniteSet(net')
  BY DEF Inv, TypeOK, Deliver
<1>2. CASE Accepts(group[r], c)
  BY <1>1, <1>2, StepForward DEF Deliver, Accepts
<1>3. CASE ~Accepts(group[r], c)
  <2> DEFINE g == Refused(group[r], c)
  <2>1. /\ group[r] \in GroupSet /\ applied[r] \in Seq(CommitSet)
        /\ Len(applied[r]) = group[r].epoch
        /\ \A n \in DOMAIN applied[r] : applied[r][n].epoch = n
        /\ Agree(group[r], Reached(applied[r]))
        /\ refused \in [Replicas -> BOOLEAN]
    BY DEF Inv, TypeOK, AppliedInOrder
  <2>2. g \in GroupSet /\ g.epoch = group[r].epoch /\ Agree(g, group[r])
    BY <1>1, <2>1, RefusedKeeps
  <2>3. Agree(g, Reached(applied[r]))
    BY <2>1, <2>2 DEF Agree
  <2>4. group' = [group EXCEPT ![r] = g] /\ refused' = [refused EXCEPT ![r] = TRUE]
    BY <1>3 DEF Deliver
  <2>5. applied' = [applied EXCEPT ![r] = applied[r]]
    BY <1>3 DEF Deliver, Inv, TypeOK
  <2>6. refused' \in [Replicas -> BOOLEAN]
    BY <2>1, <2>4
  <2> HIDE DEF g
  <2> QED
    BY <1>1, <2>1, <2>2, <2>3, <2>4, <2>5, <2>6, OneReplica
<1> QED
  BY <1>2, <1>3

(* apply_commit_with_recovery, wherever in the gap it stops.               *)
LEMMA RecoverInv ==
    ASSUME Inv, NEW r \in Replicas, NEW target \in net,
           NEW missing \in SUBSET (net \ {target}), Recover(r, target, missing)
    PROVE  Inv'
<1> DEFINE g == group[r]
           p == applied[r]
           chain == Ordered(missing \cup {target}, g.epoch + 1)
           good == {i \in 0 .. Len(chain) : \A j \in 1 .. i : chain[j].supported}
           last == CHOOSE i \in good : \A j \in good : j <= i
           state == Along(g, chain)[last]
           h == IF last = Len(chain) THEN state ELSE Refused(state, chain[last + 1])
           history == p \o SubSeq(chain, 1, last)
<1>1. /\ net' = net /\ net' \subseteq CommitSet /\ IsFiniteSet(net')
      /\ target \in CommitSet /\ missing \in SUBSET CommitSet /\ target \notin missing
      /\ IsFiniteSet(missing)
  <2>1. net' = net /\ net \subseteq CommitSet /\ IsFiniteSet(net)
    BY DEF Inv, TypeOK, Recover
  <2>2. IsFiniteSet(missing)
    BY <2>1, FS_Subset
  <2> QED
    BY <2>1, <2>2
<1>2. /\ g \in GroupSet /\ p \in Seq(CommitSet) /\ g.epoch \in Nat /\ Len(p) = g.epoch
      /\ \A n \in DOMAIN p : p[n].epoch = n
      /\ Agree(g, Reached(p))
      /\ refused \in [Replicas -> BOOLEAN]
  BY DEF Inv, TypeOK, AppliedInOrder, GroupSet
<1>3. CASE ~Contiguous(g, target, missing)
  <2>1. group' = group /\ applied' = applied /\ refused' = [refused EXCEPT ![r] = TRUE]
    BY <1>3 DEF Recover
  <2>2. /\ group' = [group EXCEPT ![r] = g] /\ applied' = [applied EXCEPT ![r] = p]
        /\ refused' \in [Replicas -> BOOLEAN]
    BY <1>2, <2>1 DEF Inv, TypeOK
  <2> HIDE DEF g, p
  <2> QED
    BY <1>1, <1>2, <2>2, OneReplica
<1>4. CASE Contiguous(g, target, missing)
  <2>1. /\ target.epoch > g.epoch + 1
        /\ group' = [group EXCEPT ![r] = h]
        /\ applied' = [applied EXCEPT ![r] = history]
        /\ refused' = [refused EXCEPT ![r] = last # Len(chain)]
    BY <1>4 DEF Recover
  <2>2. /\ chain \in Seq(CommitSet)
        /\ \A i \in 1 .. Len(chain) : chain[i].epoch = g.epoch + i
    <3> HIDE DEF g
    <3> QED
      BY <1>1, <1>2, <1>4, <2>1, ChainOfGap
  <2> HIDE DEF g, p, chain
  <2>3. last \in 0 .. Len(chain)
    <3>1. good \in SUBSET (0 .. Len(chain)) /\ 0 \in good /\ Len(chain) \in Nat
      BY <2>2
    <3> HIDE DEF good
    <3>2. \E i \in good : \A j \in good : j <= i
      BY <3>1, Greatest
    <3> QED
      BY <3>1, <3>2
  <2> HIDE DEF last
  <2>4. /\ state \in GroupSet
        /\ state.epoch = g.epoch + last
        /\ Agree(state, Reached(history))
    BY <1>2, <2>2, <2>3, AlongType, AlongEpoch, AlongReached
  <2>5. /\ history \in Seq(CommitSet) /\ Len(history) = Len(p) + last
        /\ \A n \in DOMAIN history : history[n].epoch = n
    <3>1. /\ SubSeq(chain, 1, last) \in Seq(CommitSet) /\ Len(SubSeq(chain, 1, last)) = last
          /\ \A i \in 1 .. last : SubSeq(chain, 1, last)[i] = chain[i]
      BY <2>2, <2>3
    <3> DEFINE tail == SubSeq(chain, 1, last)
    <3>2. /\ tail \in Seq(CommitSet) /\ Len(tail) = last
          /\ \A i \in 1 .. Len(tail) : tail[i].epoch = Len(p) + i
      BY <1>2, <2>2, <2>3, <3>1
    <3> HIDE DEF tail
    <3>3. /\ p \o tail \in Seq(CommitSet) /\ Len(p \o tail) = Len(p) + Len(tail)
          /\ \A n \in DOMAIN (p \o tail) : (p \o tail)[n].epoch = n
      BY <1>2, <3>2, Continued
    <3> QED
      BY <3>2, <3>3 DEF tail
  <2> HIDE DEF state, history
  <2>6. h \in GroupSet /\ h.epoch = state.epoch /\ Agree(h, state)
    <3>1. CASE last = Len(chain)
      BY <2>4, <3>1 DEF Agree
    <3>2. CASE last # Len(chain)
      <4>1. last + 1 \in 1 .. Len(chain)
        BY <2>2, <2>3, <3>2
      <4>2. chain[last + 1] \in CommitSet
        BY <2>2, <4>1
      <4> QED
        BY <2>4, <3>2, <4>2, RefusedKeeps
    <3> QED
      BY <3>1, <3>2
  <2>7. Agree(h, Reached(history))
    BY <2>4, <2>6 DEF Agree
  <2>8. refused' \in [Replicas -> BOOLEAN]
    BY <1>2, <2>1
  <2> HIDE DEF h
  <2>9. Len(history) = h.epoch
    BY <1>2, <2>3, <2>4, <2>5, <2>6
  <2> QED
    BY <1>1, <2>1, <2>5, <2>6, <2>7, <2>8, <2>9, OneReplica
<1> QED
  BY <1>3, <1>4

(* A local change is a commit.                                             *)
LEMMA ChangeType ==
    ASSUME NEW added \in SUBSET Members, NEW removed \in SUBSET Members, NEW n \in Nat
    PROVE  Change(added, removed, n) \in CommitSet /\ Change(added, removed, n).epoch = n
BY DEF Change, CommitSet

(* The commits of a local change.                                          *)
LEMMA CommitChangeInv ==
    ASSUME Inv, NEW r \in Replicas,
           NEW added \in SUBSET Members, NEW removed \in SUBSET Members,
           CommitChange(r, Change(added, removed, group[r].epoch + 1))
    PROVE  Inv'
<1> DEFINE c == Change(added, removed, group[r].epoch + 1)
<1>1. group[r].epoch \in Nat /\ net \subseteq CommitSet /\ IsFiniteSet(net)
  BY DEF Inv, TypeOK, GroupSet
<1>2. c \in CommitSet /\ c.epoch = group[r].epoch + 1
  <2>1. PICK n \in Nat : n = group[r].epoch + 1
    BY <1>1
  <2> QED
    BY <2>1, ChangeType
<1> HIDE DEF c
<1>3. net' = net \cup {c} /\ net' \subseteq CommitSet /\ IsFiniteSet(net')
  <2>1. net' = net \cup {c}
    BY DEF CommitChange, c
  <2> QED
    BY <1>1, <1>2, <2>1, FS_AddElement
<1>4. /\ group' = [group EXCEPT ![r] = Applied(@, c)]
      /\ applied' = [applied EXCEPT ![r] = Append(@, c)]
      /\ refused' = [refused EXCEPT ![r] = FALSE]
  BY DEF CommitChange, c
<1> QED
  BY <1>2, <1>3, <1>4, StepForward

(* The invariant holds in every state of every behaviour.                  *)
THEOREM GroupInvariant == Spec => []Inv
<1>1. Init => Inv
  <2> SUFFICES ASSUME Init PROVE Inv
    OBVIOUS
  <2>1. Created \in GroupSet
    <3>1. <<Seed, 0>> \in Seq(Secrets \cup {Seed} \cup Nat)
      OBVIOUS
    <3> QED
      BY <3>1, GroupAssumption DEF Created, GroupSet
  <2>2. TypeOK /\ IsFiniteSet(net)
    BY <2>1, GroupAssumption DEF Init, TypeOK
  <2>3. AppliedInOrder
    BY DEF Init, AppliedInOrder, Created
  <2>4. ASSUME NEW r \in Replicas PROVE Agree(group[r], Reached(applied[r]))
    <3>1. Reached(<<>>) = Created
      BY AlongStep DEF Reached
    <3> QED
      BY <3>1 DEF Init, Agree
  <2> QED
    BY <2>2, <2>3, <2>4 DEF Inv
<1>2. Inv /\ [Next]_vars => Inv'
  <2> SUFFICES ASSUME Inv, [Next]_vars PROVE Inv'
    OBVIOUS
  <2>1. ASSUME NEW r \in Committers, AddMember(r) PROVE Inv'
    <3>1. PICK m \in Members : CommitChange(r, Change({m}, {}, group[r].epoch + 1))
      BY <2>1 DEF AddMember
    <3>2. r \in Replicas /\ {m} \in SUBSET Members /\ {} \in SUBSET Members
      BY GroupAssumption
    <3> QED
      BY <3>1, <3>2, CommitChangeInv
  <2>2. ASSUME NEW r \in Committers, RemoveMember(r) PROVE Inv'
    <3>1. PICK m \in Members : CommitChange(r, Change({}, {m}, group[r].epoch + 1))
      BY <2>2 DEF RemoveMember
    <3>2. r \in Replicas /\ {m} \in SUBSET Members /\ {} \in SUBSET Members
      BY GroupAssumption
    <3> QED
      BY <3>1, <3>2, CommitChangeInv
  <2>3. ASSUME NEW r \in Replicas, NEW c \in net, Deliver(r, c) PROVE Inv'
    BY <2>3, DeliverInv
  <2>4. ASSUME NEW r \in Replicas, NEW c \in net, NEW missing \in SUBSET (net \ {c}),
               Recover(r, c, missing)
        PROVE  Inv'
    BY <2>4, RecoverInv
  <2>5. CASE UNCHANGED vars
    <3>1. group' = group /\ net' = net /\ applied' = applied /\ refused' = refused
      BY <2>5 DEF vars
    <3>2. TypeOK' /\ AppliedInOrder' /\ IsFiniteSet(net')
      BY <3>1 DEF Inv, TypeOK, AppliedInOrder
    <3>3. \A r \in Replicas : Agree(group'[r], Reached(applied'[r]))
      BY <3>1 DEF Inv
    <3> QED
      BY <3>2, <3>3 DEF Inv
  <2> QED
    BY <2>1, <2>2, <2>3, <2>4, <2>5 DEF Next
<1> QED
  BY <1>1, <1>2, PTL DEF Spec

(* Groups, commits and histories keep their types.                         *)
THEOREM GroupTypes == Spec => []TypeOK
<1>1. Inv => TypeOK
  BY DEF Inv
<1> QED
  BY <1>1, GroupInvariant, PTL

(* However commits are reordered, repeated, lost, forked or recovered, a   *)
(* replica's history carries the epochs 1, 2, ... and ends at its epoch.   *)
THEOREM HistoriesInOrder == Spec => []AppliedInOrder
<1>1. Inv => AppliedInOrder
  BY DEF Inv
<1> QED
  BY <1>1, GroupInvariant, PTL

(* Two replicas with the same history have the same members and the same   *)
(* secret: each is what the history makes of a new group.                  *)
THEOREM HistoryDecides == Spec => []SameHistorySameSecret
<1>1. Inv => SameHistorySameSecret
  BY DEF Inv, SameHistorySameSecret, Agree
<1> QED
  BY <1>1, GroupInvariant, PTL
=============================================================================
