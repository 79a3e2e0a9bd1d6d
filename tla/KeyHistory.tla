----------------------------- MODULE KeyHistory -----------------------------
(***************************************************************************)
(* The life of a client's keys in its checkpoint log (spex-client lib.rs   *)
(* and the log and identity commands of spex-cli): identities are created  *)
(* and rotated, keys are checkpointed and revoked, recovery keys are       *)
(* issued and expire, and logs are exported and imported between the       *)
(* environments of users.  Every command loads the log, appends to it and  *)
(* saves it; the Merkle state of a log is the subject of MerkleLog.        *)
(*                                                                         *)
(* Users and keys are random values, so a new one is a fresh number.       *)
(***************************************************************************)
EXTENDS Integers, FiniteSets, Sequences

CONSTANTS
    Sites,          \* environments, each with a LocalState
    Absent,         \* an absent option
    MaxAge,         \* recovery_max_age_seconds
    MaxFresh,       \* bounds of the model: fresh values,
    MaxLen,         \*   entries of a log,
    MaxTime         \*   time

ASSUME HistoryAssumption ==
    /\ {MaxAge, MaxFresh, MaxLen, MaxTime} \subseteq Nat
    /\ Absent \notin Nat \cup {"rotation", "operator"}

VARIABLES
    clock,      \* now_unix()
    fresh,      \* random values drawn so far
    identity,   \* identity[s]: [user, key] or Absent
    entries,    \* entries[s]: the log in checkpoint_log.log_base64
    exported    \* the log in the file last written by log export, or Absent

historyVars == <<clock, fresh, identity, entries, exported>>

HistoryInit ==
    /\ clock = 0 /\ fresh = 0
    /\ identity = [s \in Sites |-> Absent]
    /\ entries = [s \in Sites |-> <<>>]
    /\ exported = Absent

-----------------------------------------------------------------------------
(* CheckpointEntry.  by tells the revocations of append_rotation_checkpoint *)
(* ("key rotation") from those of the revoke-key command.                  *)

KeyEntry(user, key) ==
    [type |-> "Key", user |-> user, key |-> key, at |-> clock, recovery |-> Absent, by |-> Absent]

RecoveryEntry(user, key) ==
    [type |-> "Recovery", user |-> user, key |-> key, at |-> clock, recovery |-> Absent, by |-> Absent]

RevocationEntry(user, key, recovery, by) ==
    [type |-> "Revocation", user |-> user, key |-> key, at |-> clock,
     recovery |-> recovery, by |-> by]

Has(log, type, user, key) ==
    \E n \in DOMAIN log : log[n].type = type /\ log[n].user = user /\ log[n].key = key

SaveLog(s, log) ==
    /\ Len(log) <= MaxLen
    /\ entries' = [entries EXCEPT ![s] = log]

-----------------------------------------------------------------------------
(* Commands.                                                               *)

(* Variants of a name each hold one mistake the properties must detect.    *)
CreateIdentity_OneDraw(s) ==
    /\ fresh + 2 <= MaxFresh
    /\ identity' = [identity EXCEPT ![s] = [user |-> fresh, key |-> fresh + 1]]
    /\ fresh' = fresh + 1
    /\ UNCHANGED <<clock, entries, exported>>

(* identity new replaces an identity that exists, user id included.        *)
CreateIdentity(s) ==
    /\ fresh + 2 <= MaxFresh
    /\ identity' = [identity EXCEPT ![s] = [user |-> fresh + 1, key |-> fresh + 2]]
    /\ fresh' = fresh + 2
    /\ UNCHANGED <<clock, entries, exported>>

RotateIdentity_RevokesNew(s) ==
    /\ identity[s] # Absent /\ fresh < MaxFresh
    /\ identity' = [identity EXCEPT ![s].key = fresh + 1]
    /\ fresh' = fresh + 1
    /\ LET id == identity[s]
       IN  SaveLog(s, entries[s] \o <<RevocationEntry(id.user, fresh + 1, Absent, "rotation"),
                                      KeyEntry(id.user, fresh + 1)>>)
    /\ UNCHANGED <<clock, exported>>

(* identity rotate: rotate_identity_in_state, append_rotation_checkpoint.  *)
RotateIdentity(s) ==
    /\ identity[s] # Absent /\ fresh < MaxFresh
    /\ identity' = [identity EXCEPT ![s].key = fresh + 1]
    /\ fresh' = fresh + 1
    /\ LET id == identity[s]
       IN  SaveLog(s, entries[s] \o <<RevocationEntry(id.user, id.key, Absent, "rotation"),
                                      KeyEntry(id.user, fresh + 1)>>)
    /\ UNCHANGED <<clock, exported>>

(* log append-checkpoint.                                                  *)
AppendCheckpoint(s) ==
    /\ identity[s] # Absent
    /\ SaveLog(s, Append(entries[s], KeyEntry(identity[s].user, identity[s].key)))
    /\ UNCHANGED <<clock, fresh, identity, exported>>

(* log create-recovery-key.                                                *)
CreateRecoveryKey(s) ==
    /\ identity[s] # Absent /\ fresh < MaxFresh
    /\ SaveLog(s, Append(entries[s], RecoveryEntry(identity[s].user, fresh + 1)))
    /\ fresh' = fresh + 1
    /\ UNCHANGED <<clock, identity, exported>>

(* A recovery key of the user, not older than the maximal age.             *)
RecoveryValid(log, user, recovery) ==
    \E n \in DOMAIN log :
        /\ log[n].type = "Recovery" /\ log[n].user = user /\ log[n].key = recovery
        /\ clock - log[n].at <= MaxAge

MayRevoke_NotIdempotent(log, user, key, recovery) ==
    /\ Has(log, "Key", user, key)
    /\ recovery # Absent => RecoveryValid(log, user, recovery)

(* append_revocation_entry_checked: the key was issued, is not revoked yet *)
(* and a recovery key that is named is valid.                              *)
MayRevoke(log, user, key, recovery) ==
    /\ Has(log, "Key", user, key)
    /\ ~Has(log, "Revocation", user, key)
    /\ recovery # Absent => RecoveryValid(log, user, recovery)

(* log revoke-key, for any key and any recovery key; refused or already    *)
(* revoked, it changes nothing.                                            *)
RevokeKey(s) ==
    \E key \in 1 .. fresh : \E recovery \in (1 .. fresh) \cup {Absent} :
        /\ identity[s] # Absent
        /\ MayRevoke(entries[s], identity[s].user, key, recovery)
        /\ SaveLog(s, Append(entries[s],
                             RevocationEntry(identity[s].user, key, recovery, "operator")))
        /\ UNCHANGED <<clock, fresh, identity, exported>>

(* log export and log import; an import replaces the log.                  *)
ExportLog(s) ==
    /\ exported' = entries[s]
    /\ UNCHANGED <<clock, fresh, identity, entries>>

ImportLog(s) ==
    /\ exported # Absent
    /\ SaveLog(s, exported)
    /\ UNCHANGED <<clock, fresh, identity, exported>>

Tick ==
    /\ clock < MaxTime
    /\ clock' = clock + 1
    /\ UNCHANGED <<fresh, identity, entries, exported>>

HistoryNext ==
    \/ \E s \in Sites :
          \/ CreateIdentity(s) \/ RotateIdentity(s) \/ AppendCheckpoint(s)
          \/ CreateRecoveryKey(s) \/ RevokeKey(s) \/ ExportLog(s) \/ ImportLog(s)
    \/ Tick

HistorySpec == HistoryInit /\ [][HistoryNext]_historyVars

-----------------------------------------------------------------------------
(* What a log says.                                                        *)

Fresh == 1 .. MaxFresh

EntrySet ==
    [type: {"Key", "Recovery", "Revocation"}, user: Fresh, key: Fresh, at: 0 .. MaxTime,
     recovery: Fresh \cup {Absent}, by: {"rotation", "operator", Absent}]

(* Identities and entries have their types.                                *)
HistoryTypeOK ==
    /\ clock \in 0 .. MaxTime /\ fresh \in 0 .. MaxFresh
    /\ identity \in [Sites -> [user: Fresh, key: Fresh] \cup {Absent}]
    /\ entries \in [Sites -> Seq(EntrySet)]
    /\ exported # Absent => exported \in Seq(EntrySet)

ByOperator(e) == e.type = "Revocation" /\ e.by = "operator"

(* Every log, imported ones included, justifies what revoke-key did: "the  *)
(* target key must exist in checkpoint history", it was not revoked before *)
(* ("operation is idempotent"), and a recovery key that is named was       *)
(* registered by the same user at most the maximal age before.             *)
RevocationsJustified ==
    \A s \in Sites : \A n \in DOMAIN entries[s] :
        LET e == entries[s][n]
            before == SubSeq(entries[s], 1, n - 1)
        IN  ByOperator(e) =>
                /\ Has(before, "Key", e.user, e.key)
                /\ ~Has(before, "Revocation", e.user, e.key)
                /\ e.recovery # Absent =>
                      \E m \in DOMAIN before :
                          /\ before[m].type = "Recovery" /\ before[m].user = e.user
                          /\ before[m].key = e.recovery
                          /\ e.at - before[m].at <= MaxAge

(* A key that is in use is never revoked behind its owner's back: the      *)
(* rotation that revokes a key, in whatever log it is found, has already   *)
(* replaced it.                                                            *)
RotatedOutOfUse ==
    \A s, t \in Sites : \A n \in DOMAIN entries[s] :
        entries[s][n].by = "rotation" /\ identity[t] # Absent =>
            entries[s][n].key # identity[t].key
=============================================================================
