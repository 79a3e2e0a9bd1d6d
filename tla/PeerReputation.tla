--------------------------- MODULE PeerReputation ---------------------------
(***************************************************************************)
(* Peer scores, probation and bans of a P2P node (spex-transport p2p.rs),  *)
(* and the snapshot that carries them over a restart (transport.rs).       *)
(*                                                                         *)
(* Time is counted in ticks, Second of them to a second, because the       *)
(* snapshot keeps whole seconds while the node compares exact instants.    *)
(* clock is both the Instant and the wall clock.  Writing the snapshot is  *)
(* atomic: it goes to a temporary file that nothing reads and is renamed,  *)
(* so a crash, or a write that fails, leaves the old snapshot or the new   *)
(* one.                                                                    *)
(***************************************************************************)
EXTENDS Integers, FiniteSets, FiniteSetsExt

CONSTANTS
    Peers,
    Configured,                             \* node_config.peers and bootstrap_nodes
    None, Damaged,
    Second, Minute,                         \* ticks to a second, seconds to a minute
    ban_duration, probation_duration,       \* in ticks
    score_recovery_per_minute,
    ProbationDebt, BanDebt, ClearDebt,      \* the negated score thresholds
    invalid_payload_ban_threshold,
    inconsistent_response_ban_threshold,
    TickSteps,                              \* by how much the clock may advance
    MaxTime, MaxReports, MaxRestarts        \* bounds of the model

(* PeerScore, PersistedPeerReputation and PersistedBootstrapState.         *)
Until == Nat \cup {None}
Familiarity == {"unknown", "bare", "addressed"}
PeerScores ==
    [score: Int, timeouts: Nat, invalid: Nat, inconsistent: Nat,
     probation_until: Until, banned_until: Until, last_decay_at: Nat]
PersistedScores ==
    [score: Int, timeouts: Nat, invalid: Nat, inconsistent: Nat,
     probation_until: Until, banned_until: Until]
Snapshots ==
    [scores: [Peers -> PersistedScores \cup {None}], known: [Peers -> Familiarity]]

ASSUME ReputationAssumption ==
    /\ Configured \subseteq Peers
    /\ {Second, Minute} \subseteq Nat \ {0}
    /\ {ban_duration, probation_duration, score_recovery_per_minute, ProbationDebt, BanDebt,
        ClearDebt, invalid_payload_ban_threshold, inconsistent_response_ban_threshold,
        MaxTime, MaxReports, MaxRestarts} \subseteq Nat
    /\ TickSteps \subseteq Nat \ {0}
    /\ None \notin Nat \cup PeerScores \cup PersistedScores \cup Snapshots
    /\ Damaged \notin Snapshots

VARIABLES
    clock,
    phase,      \* "down", "loading" (inside P2pTransport::new) or "up"
    scores,     \* peer_scores: a PeerScore for each peer that has one
    known,      \* peer_store: peer -> "unknown", "bare" or "addressed"
    explicit,   \* gossipsub's explicit peers
    file,       \* the snapshot: [scores, known], None or Damaged
    reports,    \* interactions reported so far
    restarts,   \* starts of the node so far
    sentence,   \* history: [until, reloads] of the last ban of a peer
    filed,      \* history: what sentence was when the snapshot was written
    unsaved     \* history: the last write failed

memory == <<scores, known, explicit>>
history == <<sentence, filed, unsaved>>
vars == <<clock, phase, scores, known, explicit, file, reports, restarts, sentence, filed, unsaved>>

-----------------------------------------------------------------------------
(* Scores.                                                                 *)

MaxScore == 20

neutral ==
    [score |-> 0, timeouts |-> 0, invalid |-> 0, inconsistent |-> 0,
     probation_until |-> None, banned_until |-> None, last_decay_at |-> clock]

ScoreOf(p) == IF scores[p] = None THEN neutral ELSE scores[p]

Pending(until) == until # None /\ clock < until

is_peer_banned(p) == scores[p] # None /\ Pending(scores[p].banned_until)
is_peer_probationary(p) == scores[p] # None /\ Pending(scores[p].probation_until)

apply_score_decay(s) ==
    LET elapsed == (clock - s.last_decay_at) \div Second
        recovered == (elapsed * score_recovery_per_minute) \div Minute
    IN  IF recovered > 0
        THEN [s EXCEPT !.score = Min({@ + recovered, MaxScore}), !.last_decay_at = clock]
        ELSE s

reached_ban_threshold(s) ==
    \/ s.score <= -BanDebt
    \/ s.invalid >= invalid_payload_ban_threshold
    \/ s.inconsistent >= inconsistent_response_ban_threshold

(* The three reports: penalty and counter.                                 *)
Penalty == [timeouts |-> 8, invalid |-> 30, inconsistent |-> 18]

Penalised(s, kind) ==
    [apply_score_decay(s) EXCEPT !.score = @ - Penalty[kind], ![kind] = @ + 1]

-----------------------------------------------------------------------------
(* The snapshot.                                                           *)

UnixNow == clock \div Second

(* instant_to_unix_seconds and unix_seconds_to_instant.  Variants of a     *)
(* name each hold one mistake the properties must detect.                  *)
ToUnix(until) ==
    IF until = None THEN None ELSE UnixNow + Max({until - clock, 0}) \div Second

ToInstant_FromZero(unix) == IF unix = None THEN None ELSE unix

ToInstant(unix) ==
    IF unix = None THEN None ELSE clock + Max({unix - UnixNow, 0}) * Second

persist_peer_score(s) ==
    [score |-> s.score, timeouts |-> s.timeouts, invalid |-> s.invalid,
     inconsistent |-> s.inconsistent,
     probation_until |-> ToUnix(s.probation_until), banned_until |-> ToUnix(s.banned_until)]

load_peer_score(r) ==
    [score |-> r.score, timeouts |-> r.timeouts, invalid |-> r.invalid,
     inconsistent |-> r.inconsistent,
     probation_until |-> ToInstant(r.probation_until),
     banned_until |-> ToInstant(r.banned_until), last_decay_at |-> clock]

(* persist_state, in an action that has set scores', known' and sentence': *)
(* the snapshot is replaced, or an error leaves it as it was.              *)
Saved ==
    /\ file' = [scores |-> [p \in Peers |-> IF scores'[p] = None THEN None
                                            ELSE persist_peer_score(scores'[p])],
                known |-> known']
    /\ filed' = sentence' /\ unsaved' = FALSE

NotSaved == UNCHANGED <<file, filed>> /\ unsaved' = TRUE

persist_state == Saved \/ NotSaved

-----------------------------------------------------------------------------
NoSentence == [p \in Peers |-> [until |-> 0, reloads |-> 0]]

Init ==
    /\ clock = 0 /\ phase = "down"
    /\ scores = [p \in Peers |-> None]
    /\ known = [p \in Peers |-> "unknown"]
    /\ explicit = {}
    /\ file = None
    /\ reports = 0 /\ restarts = 0
    /\ sentence = NoSentence /\ filed = NoSentence /\ unsaved = FALSE

(* new, load_persisted_state: a damaged snapshot is moved away and an empty *)
(* one written in its place.  When either fails, the start goes on without *)
(* a snapshot all the same.                                                *)
EmptySnapshot == [scores |-> [p \in Peers |-> None], known |-> [p \in Peers |-> "unknown"]]

Load ==
    /\ phase = "down" /\ restarts < MaxRestarts
    /\ phase' = "loading"
    /\ restarts' = restarts + 1
    /\ LET found == IF file \in {None, Damaged} THEN EmptySnapshot ELSE file
       IN  /\ scores' = [p \in Peers |-> IF found.scores[p] = None THEN None
                                         ELSE load_peer_score(found.scores[p])]
           /\ known' = found.known
    /\ explicit' = {}
    /\ file' \in IF file = Damaged THEN {EmptySnapshot, None, Damaged} ELSE {file}
    /\ sentence' = [p \in Peers |-> [filed[p] EXCEPT !.reloads = @ + 1]]
    /\ filed' = sentence'
    /\ UNCHANGED <<clock, reports, unsaved>>

Configure_BannedToo ==
    LET dialled == {p \in Peers : p \in Configured \/ known[p] = "addressed"}
    IN  /\ phase = "loading"
        /\ phase' = "up"
        /\ explicit' = dialled
        /\ known' = [p \in Peers |-> IF p \in dialled THEN "addressed" ELSE known[p]]
        /\ UNCHANGED <<scores, sentence>>
        /\ Saved
        /\ UNCHANGED <<clock, reports, restarts>>

(* new, configure_peers: configured peers and peers with a persisted       *)
(* address are dialled unless they are banned, and the state is persisted. *)
(* If that fails so does the start, as in a crash.                         *)
Configure ==
    LET dialled == {p \in Peers : /\ p \in Configured \/ known[p] = "addressed"
                                  /\ ~is_peer_banned(p)}
    IN  /\ phase = "loading"
        /\ phase' = "up"
        /\ explicit' = dialled
        /\ known' = [p \in Peers |-> IF p \in dialled THEN "addressed" ELSE known[p]]
        /\ UNCHANGED <<scores, sentence>>
        /\ Saved
        /\ UNCHANGED <<clock, reports, restarts>>

(* dial_peer observes the peer without an address.  A dial that fails has  *)
(* already registered the peer with gossipsub, and so has one whose write  *)
(* fails, though the caller gets an error either way.                      *)
DialPeer(p) ==
    /\ phase = "up" /\ ~is_peer_banned(p)
    /\ explicit' = explicit \cup {p}
    /\ UNCHANGED <<scores, sentence>>
    /\ \/ /\ known' = [known EXCEPT ![p] = IF @ = "unknown" THEN "bare" ELSE @]
          /\ persist_state
       \/ UNCHANGED <<known, file, filed, unsaved>>
    /\ UNCHANGED <<clock, phase, reports, restarts>>

(* publish_to_inboxes and recover_payloads_for_inbox add to the manifests  *)
(* and index keys of the snapshot and write all of it.                     *)
PublishOrRecover ==
    /\ phase = "up"
    /\ UNCHANGED <<scores, known, sentence>>
    /\ persist_state
    /\ UNCHANGED <<clock, phase, explicit, reports, restarts>>

ApplyPenalty_ProbationRenewed(p, kind) ==
    LET s == Penalised(ScoreOf(p), kind)
        banned == reached_ban_threshold(s)
    IN  /\ phase = "up" /\ reports < MaxReports
        /\ reports' = reports + 1
        /\ scores' = [scores EXCEPT ![p] =
             IF banned
             THEN [s EXCEPT !.banned_until = clock + ban_duration, !.probation_until = None]
             ELSE [s EXCEPT !.probation_until = clock + probation_duration]]
        /\ explicit' = IF banned THEN explicit \ {p} ELSE explicit
        /\ sentence' = IF banned
                       THEN [sentence EXCEPT ![p] = [until |-> clock + ban_duration, reloads |-> 0]]
                       ELSE sentence
        /\ known' = known
        /\ persist_state
        /\ UNCHANGED <<clock, phase, restarts>>

(* apply_penalty, for one kind of report; an error of persist_state is     *)
(* dropped.                                                                *)
ApplyPenalty(p, kind) ==
    LET s == Penalised(ScoreOf(p), kind)
        banned == reached_ban_threshold(s)
    IN  /\ phase = "up" /\ reports < MaxReports
        /\ reports' = reports + 1
        /\ scores' = [scores EXCEPT ![p] =
             IF banned
             THEN [s EXCEPT !.banned_until = clock + ban_duration, !.probation_until = None]
             ELSE IF s.score <= -ProbationDebt
             THEN [s EXCEPT !.probation_until = clock + probation_duration]
             ELSE s]
        /\ explicit' = IF banned THEN explicit \ {p} ELSE explicit
        /\ sentence' = IF banned
                       THEN [sentence EXCEPT ![p] = [until |-> clock + ban_duration, reloads |-> 0]]
                       ELSE sentence
        /\ known' = known
        /\ persist_state
        /\ UNCHANGED <<clock, phase, restarts>>

ReportSuccess_NoCeiling(p) ==
    LET s == [ScoreOf(p) EXCEPT !.score = @ + 6]
    IN  /\ phase = "up" /\ reports < MaxReports
        /\ reports' = reports + 1
        /\ scores' = [scores EXCEPT ![p] =
             IF s.score > -ClearDebt THEN [s EXCEPT !.probation_until = None] ELSE s]
        /\ UNCHANGED <<known, sentence>>
        /\ persist_state
        /\ UNCHANGED <<clock, phase, explicit, restarts>>

ReportSuccess_NotPersisted(p) ==
    LET s == [ScoreOf(p) EXCEPT !.score = Min({@ + 6, MaxScore})]
    IN  /\ phase = "up" /\ reports < MaxReports
        /\ reports' = reports + 1
        /\ scores' = [scores EXCEPT ![p] =
             IF s.score > -ClearDebt THEN [s EXCEPT !.probation_until = None] ELSE s]
        /\ UNCHANGED <<clock, phase, known, explicit, file, restarts, history>>

(* report_successful_interaction drops the error as well.                  *)
ReportSuccess(p) ==
    LET s == [ScoreOf(p) EXCEPT !.score = Min({@ + 6, MaxScore})]
    IN  /\ phase = "up" /\ reports < MaxReports
        /\ reports' = reports + 1
        /\ scores' = [scores EXCEPT ![p] =
             IF s.score > -ClearDebt THEN [s EXCEPT !.probation_until = None] ELSE s]
        /\ UNCHANGED <<known, sentence>>
        /\ persist_state
        /\ UNCHANGED <<clock, phase, explicit, restarts>>

(* The process stops at any point; its memory is gone.                     *)
Crash ==
    /\ phase # "down"
    /\ phase' = "down"
    /\ scores' = [p \in Peers |-> None]
    /\ known' = [p \in Peers |-> "unknown"]
    /\ explicit' = {}
    /\ sentence' = filed /\ unsaved' = FALSE
    /\ UNCHANGED <<clock, file, reports, restarts, filed>>

(* The snapshot is damaged from outside while the node is down.            *)
Corrupt ==
    /\ phase = "down" /\ file # None
    /\ file' = Damaged /\ filed' = NoSentence /\ sentence' = NoSentence
    /\ UNCHANGED <<clock, phase, memory, reports, restarts, unsaved>>

Tick ==
    /\ \E d \in TickSteps : clock + d <= MaxTime /\ clock' = clock + d
    /\ UNCHANGED <<phase, memory, file, reports, restarts, history>>

Next ==
    \/ Load \/ Configure \/ PublishOrRecover \/ Crash \/ Corrupt \/ Tick
    \/ \E p \in Peers :
          \/ DialPeer(p) \/ ReportSuccess(p)
          \/ \E kind \in DOMAIN Penalty : ApplyPenalty(p, kind)

Spec == Init /\ [][Next]_vars

-----------------------------------------------------------------------------
(* Every score and every snapshot is well formed: scores do not exceed     *)
(* their ceiling, decay does not run ahead of the clock.                   *)
TypeOK ==
    /\ clock \in Nat /\ phase \in {"down", "loading", "up"}
    /\ scores \in [Peers -> PeerScores \cup {None}]
    /\ \A p \in Peers : scores[p] # None =>
          scores[p].score <= MaxScore /\ scores[p].last_decay_at <= clock
    /\ known \in [Peers -> Familiarity]
    /\ explicit \subseteq Peers
    /\ file \in Snapshots \cup {None, Damaged}
    /\ reports \in Nat /\ restarts \in Nat
    /\ sentence \in [Peers -> [until: Nat, reloads: Nat]]
    /\ filed \in [Peers -> [until: Nat, reloads: Nat]]
    /\ unsaved \in BOOLEAN

(* A banned peer is never among gossipsub's explicit peers, however bans,  *)
(* dials and restarts are interleaved.                                     *)
BannedNotExplicit == \A p \in explicit : ~is_peer_banned(p)

(* What a score recovers during a probation, started seconds included, is  *)
(* no more than the smallest penalty: 20 to 45 seconds at 3 to 6 points a  *)
(* minute in P2pNodeConfig::default and its profiles.                      *)
SlowRecovery ==
    /\ ClearDebt <= ProbationDebt
    /\ (probation_duration \div Second + 1) * score_recovery_per_minute <= 8 * Minute

(* A peer is in probation only while its score is at or below the score    *)
(* that clears probation.                                                  *)
ProbationIsDeserved ==
    \A p \in Peers : is_peer_probationary(p) => scores[p].score <= -ClearDebt

(* "Stores persisted reputation status so runtime recovery can preserve    *)
(* abuse decisions": a restart costs a ban less than two seconds, because  *)
(* the whole seconds of the snapshot are rounded down twice.  Only a ban   *)
(* whose write failed, and that no later write stored, is forgotten.       *)
BanErosionBounded ==
    phase # "down" =>
        \A p \in Peers :
            clock + 2 * Second * sentence[p].reloads < sentence[p].until => is_peer_banned(p)

(* A running node has nothing to forget unless its last write failed:      *)
(* whichever operation writes next makes up for the errors that            *)
(* apply_penalty and report_successful_interaction dropped.                *)
SnapshotIsCurrent ==
    phase = "up" /\ ~unsaved =>
        /\ file.known = known
        /\ \A p \in Peers :
              IF scores[p] = None THEN file.scores[p] = None
              ELSE /\ file.scores[p] # None
                   /\ \A f \in {"score", "timeouts", "invalid", "inconsistent"} :
                         file.scores[p][f] = scores[p][f]
=============================================================================
