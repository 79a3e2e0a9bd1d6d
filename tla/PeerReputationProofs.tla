------------------------ MODULE PeerReputationProofs ------------------------
(* Proofs about PeerReputation, for any peers, thresholds and durations,   *)
(* any number of reports and restarts, and writes that fail at will.       *)
EXTENDS PeerReputation, TLAPS

(* The larger and the smaller of two integers.                             *)
LEMMA MaxPair ==
    ASSUME NEW a \in Int, NEW b \in Int
    PROVE  Max({a, b}) \in Int /\ Max({a, b}) >= a /\ Max({a, b}) >= b
<1>1. \E x \in {a, b} : \A y \in {a, b} : x >= y
  OBVIOUS
<1> QED
  BY <1>1 DEF Max

(* The smaller of two numbers is one of them and exceeds neither.          *)
LEMMA MinPair ==
    ASSUME NEW a \in Int, NEW b \in Int
    PROVE  Min({a, b}) \in Int /\ Min({a, b}) <= a /\ Min({a, b}) <= b
<1>1. \E x \in {a, b} : \A y \in {a, b} : x <= y
  OBVIOUS
<1> QED
  BY <1>1 DEF Min

(* The two seconds each of a number of restarts costs add up to a number.  *)
LEMMA LossIsNat == \A n \in Nat : 2 * Second * n \in Nat
<1>1. \A m, n \in Nat : m * n \in Nat
  OBVIOUS
<1>2. 2 * Second \in Nat
  BY ReputationAssumption
<1> QED
  BY <1>1, <1>2

(* What is over at a time is over later.                                   *)
LEMMA LaterStill ==
    \A now, later, lost, until \in Nat :
        later >= now /\ now + lost >= until => later + lost >= until
OBVIOUS

(* Whole seconds lose less than a second.                                  *)
LEMMA WholeSeconds ==
    ASSUME NEW n \in Nat
    PROVE  /\ n \div Second \in Nat
           /\ Second * (n \div Second) <= n
           /\ n < Second * (n \div Second) + Second
BY ReputationAssumption

(* A timer written to the snapshot keeps all but two seconds of itself.    *)
LEMMA ToUnixBound ==
    ASSUME NEW until \in Nat, clock \in Nat
    PROVE  /\ ToUnix(until) \in Nat
           /\ Second * ToUnix(until) > until - 2 * Second
<1> DEFINE rest == Max({until - clock, 0})
<1>1. rest \in Nat /\ rest >= until - clock
  BY MaxPair
<1>2. ToUnix(until) = clock \div Second + rest \div Second
  BY ReputationAssumption DEF ToUnix, UnixNow
<1> HIDE DEF rest
<1>3. /\ clock \div Second \in Nat /\ clock < Second * (clock \div Second) + Second
      /\ rest \div Second \in Nat /\ rest < Second * (rest \div Second) + Second
  BY <1>1, WholeSeconds
<1> DEFINE a == clock \div Second
           b == rest \div Second
<1>4. Second * (a + b) = Second * a + Second * b
  BY <1>3, ReputationAssumption
<1> HIDE DEF a, b
<1>5. Second * a \in Nat /\ Second * b \in Nat /\ Second \in Nat
  BY <1>3, ReputationAssumption DEF a, b
<1> QED
  BY <1>1, <1>2, <1>3, <1>4, <1>5 DEF a, b

(* A timer read from the snapshot loses nothing more.                      *)
LEMMA ToInstantBound ==
    ASSUME NEW unix \in Nat, clock \in Nat
    PROVE  /\ ToInstant(unix) \in Nat
           /\ ToInstant(unix) >= Second * unix
<1> DEFINE a == clock \div Second
           rest == Max({unix - a, 0})
<1>1. a \in Nat /\ Second * a <= clock
  BY WholeSeconds
<1>2. rest \in Nat /\ rest >= unix - a
  BY <1>1, MaxPair
<1>3. ToInstant(unix) = clock + rest * Second
  BY ReputationAssumption DEF ToInstant, UnixNow
<1> HIDE DEF a, rest
<1>4. rest * Second \in Nat /\ Second \in Nat /\ Second * a \in Nat /\ Second * unix \in Nat
  BY <1>1, <1>2, ReputationAssumption
<1>5. rest * Second >= Second * unix - Second * a
  BY <1>1, <1>2, <1>4
<1> QED
  BY <1>1, <1>3, <1>4, <1>5

-----------------------------------------------------------------------------
(* Types of the operators on scores.                                       *)

(* A score that apply_penalty and report_successful_interaction may start  *)
(* from.                                                                   *)
GoodScore(s) == s \in PeerScores /\ s.score <= MaxScore /\ s.last_decay_at <= clock

(* The score the manager works with, stored or neutral, is well formed.    *)
LEMMA ScoreOfType ==
    ASSUME TypeOK, NEW p \in Peers
    PROVE  GoodScore(ScoreOf(p))
<1>1. CASE scores[p] = None
  BY <1>1 DEF TypeOK, ScoreOf, neutral, GoodScore, PeerScores, Until, MaxScore
<1>2. CASE scores[p] # None
  BY <1>2 DEF TypeOK, ScoreOf, GoodScore
<1> QED
  BY <1>1, <1>2

(* The decay of a score over time is well formed and keeps the ban.        *)
LEMMA DecayType ==
    ASSUME NEW s, GoodScore(s), clock \in Nat
    PROVE  /\ GoodScore(apply_score_decay(s))
           /\ apply_score_decay(s).banned_until = s.banned_until
<1> DEFINE elapsed == (clock - s.last_decay_at) \div Second
           recovered == (elapsed * score_recovery_per_minute) \div Minute
<1>1. clock - s.last_decay_at \in Nat /\ s.score \in Int
  BY DEF GoodScore, PeerScores
<1>2. elapsed \in Nat
  BY <1>1, WholeSeconds
<1>3. elapsed * score_recovery_per_minute \in Nat
  BY <1>2, ReputationAssumption
<1>4. recovered \in Int
  BY <1>3, ReputationAssumption
<1>5. Min({s.score + recovered, MaxScore}) \in Int /\ Min({s.score + recovered, MaxScore}) <= MaxScore
  BY <1>1, <1>4, MinPair DEF MaxScore
<1>6. apply_score_decay(s) = IF recovered > 0
        THEN [s EXCEPT !.score = Min({s.score + recovered, MaxScore}), !.last_decay_at = clock]
        ELSE s
  BY DEF apply_score_decay
<1> DEFINE m == Min({s.score + recovered, MaxScore})
<1> HIDE DEF recovered, m
<1>7. CASE recovered > 0
  <2>1. apply_score_decay(s) = [s EXCEPT !.score = m, !.last_decay_at = clock]
    BY <1>6, <1>7 DEF m
  <2>2. m \in Int /\ m <= MaxScore
    BY <1>5 DEF m
  <2>3. [s EXCEPT !.score = m, !.last_decay_at = clock] \in PeerScores
    BY <2>2 DEF GoodScore, PeerScores
  <2> QED
    BY <2>1, <2>2, <2>3 DEF GoodScore, PeerScores
<1>8. CASE ~(recovered > 0)
  BY <1>6, <1>8
<1> QED
  BY <1>7, <1>8

(* A penalty gives a well-formed score and does not itself move the ban.   *)
LEMMA PenalisedType ==
    ASSUME NEW s, GoodScore(s), clock \in Nat, NEW kind \in DOMAIN Penalty
    PROVE  GoodScore(Penalised(s, kind)) /\ Penalised(s, kind).banned_until = s.banned_until
<1> DEFINE d == apply_score_decay(s)
<1>1. GoodScore(d) /\ d.banned_until = s.banned_until
  BY DecayType
<1>2. kind \in {"timeouts", "invalid", "inconsistent"} /\ Penalty[kind] \in Nat
  BY DEF Penalty
<1>3. Penalised(s, kind) = [d EXCEPT !.score = d.score - Penalty[kind], ![kind] = d[kind] + 1]
  BY <1>1, <1>2 DEF Penalised, GoodScore, PeerScores
<1> DEFINE x == Penalty[kind]
<1> HIDE DEF d, x
<1>4. /\ x \in Nat /\ d.score - x \in Int
      /\ d.timeouts + 1 \in Nat /\ d.invalid + 1 \in Nat /\ d.inconsistent + 1 \in Nat
  BY <1>1, <1>2 DEF GoodScore, PeerScores, x
<1> DEFINE Same(r, a) ==
             /\ r \in PeerScores /\ r.score = a
             /\ r.last_decay_at = d.last_decay_at /\ r.banned_until = d.banned_until
<1>5. ASSUME NEW r, Same(r, d.score - x)
      PROVE  GoodScore(r) /\ r.banned_until = s.banned_until
  BY <1>1, <1>4, <1>5 DEF GoodScore, PeerScores, MaxScore
<1>6. CASE kind = "timeouts"
  <2>1. Penalised(s, kind) = [d EXCEPT !.score = d.score - x, !.timeouts = d.timeouts + 1]
    BY <1>3, <1>6 DEF x
  <2>2. ASSUME NEW a \in Int, NEW b \in Nat
        PROVE  Same([d EXCEPT !.score = a, !.timeouts = b], a)
    BY <1>1 DEF GoodScore, PeerScores
  <2> HIDE DEF Same
  <2>3. Same(Penalised(s, kind), d.score - x)
    BY <1>4, <2>1, <2>2
  <2> QED
    BY <1>5, <2>3
<1>7. CASE kind = "invalid"
  <2>1. Penalised(s, kind) = [d EXCEPT !.score = d.score - x, !.invalid = d.invalid + 1]
    BY <1>3, <1>7 DEF x
  <2>2. ASSUME NEW a \in Int, NEW b \in Nat
        PROVE  Same([d EXCEPT !.score = a, !.invalid = b], a)
    BY <1>1 DEF GoodScore, PeerScores
  <2> HIDE DEF Same
  <2>3. Same(Penalised(s, kind), d.score - x)
    BY <1>4, <2>1, <2>2
  <2> QED
    BY <1>5, <2>3
<1>8. CASE kind = "inconsistent"
  <2>1. Penalised(s, kind) = [d EXCEPT !.score = d.score - x, !.inconsistent = d.inconsistent + 1]
    BY <1>3, <1>8 DEF x
  <2>2. ASSUME NEW a \in Int, NEW b \in Nat
        PROVE  Same([d EXCEPT !.score = a, !.inconsistent = b], a)
    BY <1>1 DEF GoodScore, PeerScores
  <2> HIDE DEF Same
  <2>3. Same(Penalised(s, kind), d.score - x)
    BY <1>4, <2>1, <2>2
  <2> QED
    BY <1>5, <2>3
<1> QED
  BY <1>2, <1>6, <1>7, <1>8

(* Writing a score to the snapshot keeps its counters, and its ban up to   *)
(* the conversion of the clock.                                            *)
LEMMA PersistType ==
    ASSUME NEW s \in PeerScores, clock \in Nat
    PROVE  /\ persist_peer_score(s) \in PersistedScores
           /\ persist_peer_score(s).banned_until = ToUnix(s.banned_until)
           /\ \A f \in {"score", "timeouts", "invalid", "inconsistent"} :
                 persist_peer_score(s)[f] = s[f]
<1>1. \A u \in Until : ToUnix(u) \in Until
  BY ToUnixBound DEF Until, ToUnix
<1> QED
  BY <1>1 DEF persist_peer_score, PeerScores, PersistedScores

(* Reading a score back from the snapshot gives a well-formed score.       *)
LEMMA LoadType ==
    ASSUME NEW r \in PersistedScores, clock \in Nat
    PROVE  load_peer_score(r) \in PeerScores
<1>1. \A u \in Until : ToInstant(u) \in Until
  BY ToInstantBound DEF Until, ToInstant
<1> QED
  BY <1>1 DEF load_peer_score, PeerScores, PersistedScores

-----------------------------------------------------------------------------
(* The inductive invariant, in two halves: memory and file.                *)

(* The node remembers the last ban of p, up to two seconds a restart, or   *)
(* it is over.                                                             *)
Kept(p) ==
    \/ clock + 2 * Second * sentence[p].reloads >= sentence[p].until
    \/ /\ scores[p] # None /\ scores[p].banned_until # None
       /\ scores[p].banned_until + 2 * Second * sentence[p].reloads >= sentence[p].until

MemoryOK ==
    /\ clock \in Nat /\ phase \in {"down", "loading", "up"}
    /\ scores \in [Peers -> PeerScores \cup {None}]
    /\ \A p \in Peers : scores[p] # None => GoodScore(scores[p])
    /\ known \in [Peers -> Familiarity] /\ explicit \subseteq Peers
    /\ reports \in Nat /\ restarts \in Nat
    /\ sentence \in [Peers -> [until: Nat, reloads: Nat]]
    /\ BannedNotExplicit
    /\ phase # "down" => \A p \in Peers : Kept(p)

(* The snapshot holds the last ban it was told of, less the two seconds    *)
(* the next restart will cost, or that ban is over.                        *)
KeptOnDisk(p) ==
    \/ clock + 2 * Second * filed[p].reloads >= filed[p].until
    \/ /\ file \in Snapshots
       /\ file.scores[p] # None /\ file.scores[p].banned_until # None
       /\ Second * file.scores[p].banned_until + 2 * Second * filed[p].reloads + 2 * Second
             >= filed[p].until

FileOK ==
    /\ file \in Snapshots \cup {None, Damaged}
    /\ \A p \in Peers : file \in Snapshots /\ file.scores[p] # None =>
          file.scores[p].score <= MaxScore
    /\ filed \in [Peers -> [until: Nat, reloads: Nat]] /\ unsaved \in BOOLEAN
    /\ \A p \in Peers : KeptOnDisk(p)
    /\ SnapshotIsCurrent

(* A write that succeeds stores everything the node remembers.             *)
LEMMA SavedFile == MemoryOK' /\ clock' = clock /\ phase' # "down" /\ Saved => FileOK'
<1> SUFFICES ASSUME MemoryOK', clock' = clock, phase' # "down", Saved PROVE FileOK'
  OBVIOUS
<1> DEFINE row(p) == IF scores'[p] = None THEN None ELSE persist_peer_score(scores'[p])
<1>1. /\ file' = [scores |-> [p \in Peers |-> row(p)], known |-> known']
      /\ filed' = sentence' /\ unsaved' = FALSE /\ clock \in Nat
  BY DEF Saved, MemoryOK
<1>2. \A p \in Peers : scores'[p] # None => scores'[p] \in PeerScores /\ scores'[p].score <= MaxScore
  BY DEF MemoryOK, GoodScore
<1>3. \A p \in Peers : row(p) \in PersistedScores \cup {None}
  BY <1>1, <1>2, PersistType
<1>4. file' \in Snapshots
  BY <1>1, <1>3 DEF MemoryOK, Snapshots
<1>5. \A p \in Peers : file'.scores[p] = row(p) /\ file'.known = known'
  BY <1>1
<1>6. ASSUME NEW p \in Peers, scores'[p] # None
      PROVE  /\ row(p) # None /\ row(p).banned_until = ToUnix(scores'[p].banned_until)
             /\ \A f \in {"score", "timeouts", "invalid", "inconsistent"} :
                   row(p)[f] = scores'[p][f]
  <2>1. row(p) = persist_peer_score(scores'[p])
    BY <1>6
  <2> QED
    BY <1>1, <1>2, <1>6, <2>1, PersistType, ReputationAssumption
<1>0. \A p \in Peers : scores'[p] = None => row(p) = None
  OBVIOUS
<1> HIDE DEF row
<1>7. ASSUME NEW p \in Peers PROVE KeptOnDisk(p)'
  <2>1. Kept(p)' /\ sentence'[p] \in [until: Nat, reloads: Nat] /\ Second \in Nat
    BY ReputationAssumption DEF MemoryOK
  <2>2. CASE clock + 2 * Second * sentence'[p].reloads >= sentence'[p].until
    BY <1>1, <2>2 DEF KeptOnDisk
  <2>3. CASE /\ scores'[p] # None /\ scores'[p].banned_until # None
             /\ scores'[p].banned_until + 2 * Second * sentence'[p].reloads >= sentence'[p].until
    <3> DEFINE b == scores'[p].banned_until
               u == ToUnix(b)
               k == 2 * Second * sentence'[p].reloads
    <3>1. b \in Nat
      BY <1>2, <2>3 DEF PeerScores, Until
    <3>2. u \in Nat /\ Second * u > b - 2 * Second
      BY <1>1, <3>1, ToUnixBound
    <3>3. file'.scores[p] # None /\ file'.scores[p].banned_until = u
      BY <1>5, <1>6, <2>3
    <3>4. k \in Nat /\ Second * u \in Nat /\ b + k >= sentence'[p].until
      BY <2>1, <2>3, <3>2
    <3>5. u # None
      BY <3>2, ReputationAssumption
    <3> HIDE DEF b, u, k
    <3>6. Second * u + k + 2 * Second >= sentence'[p].until
      BY <2>1, <3>1, <3>2, <3>4
    <3> QED
      BY <1>1, <1>4, <3>3, <3>5, <3>6 DEF KeptOnDisk, k
  <2> QED
    BY <1>1, <2>1, <2>2, <2>3 DEF Kept
<1>8. SnapshotIsCurrent'
  <2>1. file'.known = known'
    BY <1>1
  <2>2. ASSUME NEW p \in Peers, scores'[p] # None
        PROVE  /\ file'.scores[p] # None
               /\ \A f \in {"score", "timeouts", "invalid", "inconsistent"} :
                     file'.scores[p][f] = scores'[p][f]
    BY <1>5, <1>6, <2>2
  <2>3. \A p \in Peers : scores'[p] = None => file'.scores[p] = None
    BY <1>0, <1>5
  <2> QED
    BY <2>1, <2>2, <2>3 DEF SnapshotIsCurrent
<1>9. \A p \in Peers : file'.scores[p] # None => file'.scores[p].score <= MaxScore
  <2>1. ASSUME NEW p \in Peers, file'.scores[p] # None
        PROVE  file'.scores[p].score <= MaxScore
    <3>1. scores'[p] # None
      BY <1>0, <1>5, <2>1
    <3>2. row(p)["score"] = scores'[p]["score"]
      BY <1>6, <3>1
    <3> QED
      BY <1>2, <1>5, <3>1, <3>2
  <2> QED
    BY <2>1
<1> QED
  BY <1>1, <1>4, <1>7, <1>8, <1>9 DEF FileOK, MemoryOK

(* A write that fails leaves the file as it was, and says so.              *)
LEMMA NotSavedFile == FileOK /\ clock' = clock /\ NotSaved => FileOK'
BY DEF FileOK, NotSaved, KeptOnDisk, SnapshotIsCurrent

(* persist_state keeps the file half of the invariant, whether or not the  *)
(* write succeeds.                                                         *)
LEMMA PersistFile ==
    FileOK /\ MemoryOK' /\ clock' = clock /\ phase' # "down" /\ persist_state => FileOK'
BY SavedFile, NotSavedFile DEF persist_state

(* A report that bans the peer, and one that leaves its ban alone.         *)
Bans(p, t) ==
    /\ t.banned_until = clock + ban_duration /\ explicit' = explicit \ {p}
    /\ sentence' = [sentence EXCEPT ![p] = [until |-> clock + ban_duration, reloads |-> 0]]
Spares(p, t) ==
    t.banned_until = ScoreOf(p).banned_until /\ UNCHANGED <<explicit, sentence>>

(* Storing a new score for one peer keeps the memory half when the score   *)
(* bans the peer or leaves its ban alone.                                  *)
LEMMA NewScoreMemory ==
    ASSUME MemoryOK, NEW p \in Peers, NEW t, GoodScore(t), Bans(p, t) \/ Spares(p, t),
           phase = "up", scores' = [scores EXCEPT ![p] = t], reports' \in Nat,
           UNCHANGED <<clock, phase, known, restarts>>
    PROVE  MemoryOK'
<1>1. /\ clock \in Nat /\ ban_duration \in Nat /\ Second \in Nat /\ t \in PeerScores /\ t # None
      /\ scores \in [Peers -> PeerScores \cup {None}]
      /\ sentence \in [Peers -> [until: Nat, reloads: Nat]]
  BY ReputationAssumption DEF MemoryOK, GoodScore
<1>2. scores' \in [Peers -> PeerScores \cup {None}] /\ scores'[p] = t
  BY <1>1
<1>3. \A q \in Peers : q # p => scores'[q] = scores[q]
  BY <1>1
<1>4. \A q \in Peers : scores'[q] # None =>
        /\ scores'[q] \in PeerScores /\ scores'[q].score <= MaxScore
        /\ scores'[q].last_decay_at <= clock
  BY <1>2, <1>3 DEF MemoryOK, GoodScore
<1>5. sentence' \in [Peers -> [until: Nat, reloads: Nat]] /\ explicit' \subseteq Peers
  BY <1>1 DEF Bans, Spares, MemoryOK
<1>6. BannedNotExplicit'
  <2> SUFFICES ASSUME NEW q \in explicit' PROVE ~is_peer_banned(q)'
    BY DEF BannedNotExplicit
  <2>1. q \in explicit /\ q \in Peers /\ ~is_peer_banned(q)
    BY <1>5 DEF Bans, Spares, MemoryOK, BannedNotExplicit
  <2>2. CASE q # p
    BY <1>3, <2>1, <2>2 DEF is_peer_banned, Pending
  <2>3. CASE q = p
    <3>1. t.banned_until = ScoreOf(p).banned_until
      BY <2>3 DEF Bans, Spares
    <3> QED
      BY <1>2, <2>1, <2>3, <3>1 DEF is_peer_banned, Pending, ScoreOf, neutral
  <2> QED
    BY <2>2, <2>3
<1>7. ASSUME NEW q \in Peers PROVE Kept(q)'
  <2>1. Kept(q)
    BY DEF MemoryOK
  <2>2. CASE q # p
    BY <1>1, <1>3, <2>1, <2>2 DEF Kept, Bans, Spares
  <2>3. CASE q = p /\ Bans(p, t)
    <3>1. sentence'[p] = [until |-> clock + ban_duration, reloads |-> 0]
      BY <1>1, <2>3 DEF Bans
    <3>2. t.banned_until = clock + ban_duration /\ t.banned_until # None
      BY <1>1, <2>3, ReputationAssumption DEF Bans
    <3> QED
      BY <1>1, <1>2, <2>3, <3>1, <3>2 DEF Kept
  <2>4. CASE q = p /\ Spares(p, t)
    BY <1>1, <1>2, <2>1, <2>4 DEF Kept, Spares, ScoreOf
  <2> QED
    BY <2>2, <2>3, <2>4
<1> QED
  BY <1>2, <1>4, <1>5, <1>6, <1>7 DEF MemoryOK, GoodScore

(* The two halves of the invariant give the type invariant.                *)
LEMMA MemoryTypes == MemoryOK /\ FileOK => TypeOK
BY DEF MemoryOK, FileOK, TypeOK, GoodScore

(* apply_penalty keeps the invariant: a ban removes the peer from the      *)
(* explicit peers in the same call.                                        *)
LEMMA ApplyPenaltyInvariant ==
    ASSUME MemoryOK, FileOK, NEW p \in Peers, NEW kind \in DOMAIN Penalty, ApplyPenalty(p, kind)
    PROVE  MemoryOK' /\ FileOK'
<1> DEFINE s == Penalised(ScoreOf(p), kind)
           t == IF reached_ban_threshold(s)
                THEN [s EXCEPT !.banned_until = clock + ban_duration, !.probation_until = None]
                ELSE IF s.score <= -ProbationDebt
                THEN [s EXCEPT !.probation_until = clock + probation_duration]
                ELSE s
<1>1. TypeOK /\ clock \in Nat /\ ban_duration \in Nat /\ probation_duration \in Nat
  BY MemoryTypes, ReputationAssumption DEF MemoryOK
<1>2. GoodScore(s) /\ s.banned_until = ScoreOf(p).banned_until
  BY <1>1, ScoreOfType, PenalisedType
<1>3. /\ phase = "up" /\ reports' = reports + 1 /\ scores' = [scores EXCEPT ![p] = t]
      /\ explicit' = IF reached_ban_threshold(s) THEN explicit \ {p} ELSE explicit
      /\ sentence' = IF reached_ban_threshold(s)
                     THEN [sentence EXCEPT ![p] = [until |-> clock + ban_duration, reloads |-> 0]]
                     ELSE sentence
      /\ persist_state /\ UNCHANGED <<clock, phase, known, restarts>>
  BY DEF ApplyPenalty
<1> HIDE DEF s
<1>4. /\ clock + ban_duration \in Until /\ clock + probation_duration \in Until /\ None \in Until
  BY <1>1 DEF Until
<1>5. GoodScore(t)
  BY <1>2, <1>4 DEF GoodScore, PeerScores
<1>6. Bans(p, t) \/ Spares(p, t)
  <2>1. CASE reached_ban_threshold(s)
    BY <1>2, <1>3, <2>1 DEF Bans, GoodScore, PeerScores
  <2>2. CASE ~reached_ban_threshold(s)
    BY <1>2, <1>3, <2>2 DEF Spares, GoodScore, PeerScores
  <2> QED
    BY <2>1, <2>2
<1> HIDE DEF t
<1>7. MemoryOK'
  <2>1. reports' \in Nat /\ UNCHANGED <<clock, phase, known, restarts>>
    BY <1>3 DEF MemoryOK
  <2> QED
    BY <1>3, <1>5, <1>6, <2>1, NewScoreMemory
<1> QED
  BY <1>3, <1>7, PersistFile

(* report_successful_interaction keeps the invariant: it never lifts a     *)
(* ban.                                                                    *)
LEMMA ReportSuccessInvariant ==
    ASSUME MemoryOK, FileOK, NEW p \in Peers, ReportSuccess(p)
    PROVE  MemoryOK' /\ FileOK'
<1> DEFINE m == Min({ScoreOf(p).score + 6, MaxScore})
           s == [ScoreOf(p) EXCEPT !.score = m]
           t == IF s.score > -ClearDebt THEN [s EXCEPT !.probation_until = None] ELSE s
<1>1. TypeOK /\ GoodScore(ScoreOf(p))
  BY MemoryTypes, ScoreOfType
<1>2. m \in Int /\ m <= MaxScore
  <2>1. ScoreOf(p).score + 6 \in Int /\ MaxScore \in Int
    BY <1>1 DEF GoodScore, PeerScores, MaxScore
  <2> QED
    BY <2>1, MinPair
<1>3. /\ phase = "up" /\ reports' = reports + 1 /\ scores' = [scores EXCEPT ![p] = t]
      /\ persist_state /\ UNCHANGED <<clock, phase, known, restarts, explicit, sentence>>
  BY DEF ReportSuccess
<1> HIDE DEF m
<1>4. GoodScore(s) /\ s.banned_until = ScoreOf(p).banned_until
  BY <1>1, <1>2 DEF GoodScore, PeerScores
<1> HIDE DEF s
<1>5. GoodScore(t) /\ t.banned_until = ScoreOf(p).banned_until
  BY <1>4 DEF GoodScore, PeerScores, Until
<1> HIDE DEF t
<1>6. MemoryOK'
  <2>1. reports' \in Nat /\ UNCHANGED <<clock, phase, known, restarts>>
    BY <1>3 DEF MemoryOK
  <2>2. Spares(p, t)
    BY <1>3, <1>5 DEF Spares
  <2> QED
    BY <1>3, <1>5, <2>1, <2>2, NewScoreMemory
<1> QED
  BY <1>3, <1>6, PersistFile

(* A restart turns what the snapshot keeps into what the node remembers.   *)
LEMMA LoadInvariant == MemoryOK /\ FileOK /\ Load => MemoryOK' /\ FileOK'
<1> SUFFICES ASSUME MemoryOK, FileOK, Load PROVE MemoryOK' /\ FileOK'
  OBVIOUS
<1> DEFINE found == IF file \in {None, Damaged} THEN EmptySnapshot ELSE file
           row(p) == IF found.scores[p] = None THEN None ELSE load_peer_score(found.scores[p])
<1>1. /\ phase' = "loading" /\ restarts' = restarts + 1 /\ explicit' = {}
      /\ scores' = [p \in Peers |-> row(p)] /\ known' = found.known
      /\ file' \in IF file = Damaged THEN {EmptySnapshot, None, Damaged} ELSE {file}
      /\ sentence' = [p \in Peers |-> [filed[p] EXCEPT !.reloads = @ + 1]]
      /\ filed' = sentence' /\ UNCHANGED <<clock, reports, unsaved>>
  BY DEF Load
<1>2. EmptySnapshot \in Snapshots /\ \A p \in Peers : EmptySnapshot.scores[p] = None
  BY DEF EmptySnapshot, Snapshots, Familiarity
<1>3. /\ found \in Snapshots /\ found # None /\ found # Damaged
      /\ \A p \in Peers : found.scores[p] # None => found.scores[p].score <= MaxScore
  BY <1>2, ReputationAssumption DEF FileOK
<1>4. clock \in Nat /\ Second \in Nat /\ None \notin Nat
  BY ReputationAssumption DEF MemoryOK
<1>5. ASSUME NEW p \in Peers, found.scores[p] # None
      PROVE  /\ row(p) = load_peer_score(found.scores[p])
             /\ row(p) \in PeerScores /\ row(p) # None
             /\ row(p).score <= MaxScore /\ row(p).last_decay_at = clock
             /\ row(p).banned_until = ToInstant(found.scores[p].banned_until)
  <2>1. found.scores[p] \in PersistedScores
    BY <1>3, <1>5 DEF Snapshots
  <2>2. row(p) = load_peer_score(found.scores[p])
    BY <1>5
  <2>3. row(p) \in PeerScores /\ row(p) # None
    BY <1>4, <2>1, <2>2, LoadType, ReputationAssumption
  <2> QED
    BY <1>3, <1>5, <2>2, <2>3 DEF load_peer_score
<1>6. \A p \in Peers : found.scores[p] = None => row(p) = None
  OBVIOUS
<1>7. /\ sentence' \in [Peers -> [until: Nat, reloads: Nat]]
      /\ \A p \in Peers : /\ sentence'[p].until = filed[p].until
                          /\ sentence'[p].reloads = filed[p].reloads + 1
                          /\ filed[p].reloads \in Nat /\ filed[p].until \in Nat
  <2>1. \A p \in Peers : filed[p] \in [until: Nat, reloads: Nat]
    BY DEF FileOK
  <2> QED
    BY <1>1, <2>1
<1> HIDE DEF row
<1>8. ASSUME NEW p \in Peers
      PROVE  2 * Second * sentence'[p].reloads = 2 * Second * filed[p].reloads + 2 * Second
  BY <1>4, <1>7
<1>9. ASSUME NEW p \in Peers PROVE Kept(p)'
  <2> DEFINE k == 2 * Second * filed[p].reloads
             f == filed[p].until
  <2>0. k \in Nat /\ f \in Nat /\ KeptOnDisk(p)
    <3>1. k \in Nat /\ f \in Nat
      BY <1>4, <1>7
    <3> QED
      BY <3>1 DEF FileOK
  <2>1. CASE clock + k >= f
    BY <1>1, <1>4, <1>7, <1>8, <2>0, <2>1 DEF Kept
  <2>2. CASE /\ file \in Snapshots
             /\ file.scores[p] # None /\ file.scores[p].banned_until # None
             /\ Second * file.scores[p].banned_until + k + 2 * Second >= f
    <3> DEFINE u == file.scores[p].banned_until
    <3>1. found = file /\ file.scores[p] \in PersistedScores
      BY <2>2, ReputationAssumption DEF Snapshots
    <3>2. u \in Nat
      BY <2>2, <3>1 DEF PersistedScores, Until
    <3>3. ToInstant(u) \in Nat /\ ToInstant(u) >= Second * u /\ Second * u \in Nat
      BY <1>4, <3>2, ToInstantBound
    <3>4. scores'[p] # None /\ scores'[p].banned_until = ToInstant(u)
      BY <1>1, <1>5, <2>2, <3>1
    <3> HIDE DEF u
    <3>5. ToInstant(u) + (k + 2 * Second) >= f /\ ToInstant(u) # None
      BY <1>4, <2>0, <2>2, <3>3 DEF u
    <3>6. 2 * Second * sentence'[p].reloads = k + 2 * Second /\ sentence'[p].until = f
      BY <1>7, <1>8
    <3> HIDE DEF k, f
    <3> QED
      BY <3>4, <3>5, <3>6 DEF Kept
  <2> QED
    BY <2>0, <2>1, <2>2 DEF KeptOnDisk
<1>10. ASSUME NEW p \in Peers PROVE KeptOnDisk(p)'
  <2> DEFINE k == 2 * Second * filed[p].reloads
             f == filed[p].until
  <2>0. k \in Nat /\ f \in Nat /\ KeptOnDisk(p) /\ filed' = sentence'
    <3>1. k \in Nat /\ f \in Nat
      BY <1>4, <1>7
    <3> QED
      BY <1>1, <3>1 DEF FileOK
  <2>1. CASE clock + k >= f
    BY <1>1, <1>4, <1>7, <1>8, <2>0, <2>1 DEF KeptOnDisk
  <2>2. CASE /\ file \in Snapshots
             /\ file.scores[p] # None /\ file.scores[p].banned_until # None
             /\ Second * file.scores[p].banned_until + k + 2 * Second >= f
    <3> DEFINE u == file.scores[p].banned_until
    <3>1. file' = file /\ file.scores[p] \in PersistedScores
      BY <1>1, <2>2, ReputationAssumption DEF Snapshots
    <3>2. u \in Nat /\ Second * u \in Nat
      BY <1>4, <2>2, <3>1 DEF PersistedScores, Until
    <3> HIDE DEF u
    <3>3. Second * u + (k + 2 * Second) + 2 * Second >= f
      BY <1>4, <2>0, <2>2, <3>2 DEF u
    <3> QED
      BY <1>7, <1>8, <2>0, <2>2, <3>1, <3>3 DEF KeptOnDisk, u
  <2> QED
    BY <2>0, <2>1, <2>2 DEF KeptOnDisk
<1>11. MemoryOK'
  <2>1. scores' \in [Peers -> PeerScores \cup {None}]
    BY <1>1, <1>5, <1>6
  <2>2. \A p \in Peers : scores'[p] # None =>
          /\ scores'[p] \in PeerScores /\ scores'[p].score <= MaxScore
          /\ scores'[p].last_decay_at <= clock
    BY <1>1, <1>4, <1>5, <1>6
  <2>3. known' \in [Peers -> Familiarity]
    BY <1>1, <1>3 DEF Snapshots
  <2> QED
    BY <1>1, <1>7, <1>9, <2>1, <2>2, <2>3 DEF MemoryOK, GoodScore, BannedNotExplicit
<1>12. FileOK'
  <2>1. /\ file' \in Snapshots \cup {None, Damaged}
        /\ \A p \in Peers : file' \in Snapshots /\ file'.scores[p] # None =>
              file'.scores[p].score <= MaxScore
    BY <1>1, <1>2, ReputationAssumption DEF FileOK
  <2> QED
    BY <1>1, <1>7, <1>10, <2>1 DEF FileOK, SnapshotIsCurrent
<1> QED
  BY <1>11, <1>12

(* Only peers that are not banned become explicit peers.                   *)
LEMMA ConnectInvariant ==
    ASSUME MemoryOK, NEW more \in SUBSET Peers, \A p \in more : ~is_peer_banned(p),
           phase # "down", phase' \in {"loading", "up"},
           explicit' = explicit \cup more \/ explicit' = more,
           known' \in [Peers -> Familiarity],
           UNCHANGED <<clock, scores, sentence, reports, restarts>>
    PROVE  MemoryOK'
<1>1. BannedNotExplicit' /\ explicit' \subseteq Peers
  BY DEF MemoryOK, BannedNotExplicit, is_peer_banned, Pending
<1>2. \A p \in Peers : Kept(p)'
  BY DEF MemoryOK, Kept
<1> QED
  BY <1>1, <1>2 DEF MemoryOK, GoodScore

(* A first start has no scores and no snapshot.                            *)
LEMMA InvariantInit == Init => MemoryOK /\ FileOK
<1> SUFFICES ASSUME Init PROVE MemoryOK /\ FileOK
  OBVIOUS
<1>1. NoSentence \in [Peers -> [until: Nat, reloads: Nat]]
  BY DEF NoSentence
<1>2. MemoryOK
  BY <1>1 DEF Init, MemoryOK, BannedNotExplicit, Familiarity
<1>3. \A p \in Peers : KeptOnDisk(p)
  <2>1. \A p \in Peers : filed[p] = [until |-> 0, reloads |-> 0]
    BY DEF Init, NoSentence
  <2> QED
    BY <2>1, ReputationAssumption DEF Init, KeptOnDisk
<1>4. FileOK
  BY <1>1, <1>3, ReputationAssumption DEF Init, FileOK, SnapshotIsCurrent
<1> QED
  BY <1>2, <1>4

(* Every step keeps the invariant.                                         *)
LEMMA InvariantNext == MemoryOK /\ FileOK /\ [Next]_vars => MemoryOK' /\ FileOK'
<1> SUFFICES ASSUME MemoryOK, FileOK, [Next]_vars PROVE MemoryOK' /\ FileOK'
  OBVIOUS
<1>1. CASE Load
  BY <1>1, LoadInvariant
<1>2. CASE Configure
  <2> DEFINE dialled == {p \in Peers : /\ p \in Configured \/ known[p] = "addressed"
                                       /\ ~is_peer_banned(p)}
  <2>1. /\ phase = "loading" /\ phase' = "up" /\ explicit' = dialled /\ Saved
        /\ known' = [p \in Peers |-> IF p \in dialled THEN "addressed" ELSE known[p]]
        /\ UNCHANGED <<clock, scores, sentence, reports, restarts>>
    BY <1>2 DEF Configure
  <2>2. known' \in [Peers -> Familiarity]
    BY <2>1 DEF MemoryOK, Familiarity
  <2>3. MemoryOK'
    BY <2>1, <2>2, ConnectInvariant
  <2> QED
    BY <2>1, <2>3, SavedFile
<1>3. ASSUME NEW p \in Peers, DialPeer(p) PROVE MemoryOK' /\ FileOK'
  <2>1. /\ phase = "up" /\ phase' = "up" /\ explicit' = explicit \cup {p} /\ ~is_peer_banned(p)
        /\ UNCHANGED <<clock, scores, sentence, reports, restarts>>
        /\ \/ /\ known' = [known EXCEPT ![p] = IF @ = "unknown" THEN "bare" ELSE @]
              /\ persist_state
           \/ UNCHANGED <<known, file, filed, unsaved>>
    BY <1>3 DEF DialPeer
  <2>2. known' \in [Peers -> Familiarity]
    BY <2>1 DEF MemoryOK, Familiarity
  <2>3. {p} \in SUBSET Peers /\ \A q \in {p} : ~is_peer_banned(q)
    BY <2>1
  <2>4. MemoryOK'
    BY <2>1, <2>2, <2>3, ConnectInvariant
  <2>5. CASE persist_state
    BY <2>1, <2>4, <2>5, PersistFile
  <2>6. CASE UNCHANGED <<known, file, filed, unsaved>>
    BY <2>1, <2>4, <2>6 DEF FileOK, KeptOnDisk, SnapshotIsCurrent
  <2> QED
    BY <2>1, <2>4, <2>5, <2>6
<1>4. CASE PublishOrRecover
  <2>1. /\ phase = "up" /\ persist_state
        /\ UNCHANGED <<clock, phase, scores, known, explicit, sentence, reports, restarts>>
    BY <1>4 DEF PublishOrRecover
  <2>2. MemoryOK'
    BY <2>1 DEF MemoryOK, GoodScore, Kept, BannedNotExplicit, is_peer_banned, Pending
  <2> QED
    BY <2>1, <2>2, PersistFile
<1>5. ASSUME NEW p \in Peers, ReportSuccess(p) PROVE MemoryOK' /\ FileOK'
  BY <1>5, ReportSuccessInvariant
<1>6. ASSUME NEW p \in Peers, NEW kind \in DOMAIN Penalty, ApplyPenalty(p, kind)
      PROVE  MemoryOK' /\ FileOK'
  BY <1>6, ApplyPenaltyInvariant
<1>7. CASE Crash
  <2>1. MemoryOK'
    BY <1>7 DEF Crash, MemoryOK, FileOK, BannedNotExplicit, Familiarity
  <2>2. FileOK'
    BY <1>7 DEF Crash, FileOK, KeptOnDisk, SnapshotIsCurrent
  <2> QED
    BY <2>1, <2>2
<1>8. CASE Corrupt
  <2>1. NoSentence \in [Peers -> [until: Nat, reloads: Nat]] /\ clock \in Nat /\ Second \in Nat
    BY ReputationAssumption DEF NoSentence, MemoryOK
  <2>2. /\ phase = "down" /\ file' = Damaged /\ filed' = NoSentence /\ sentence' = NoSentence
        /\ UNCHANGED <<clock, phase, scores, known, explicit, reports, restarts, unsaved>>
    BY <1>8 DEF Corrupt, memory
  <2>3. MemoryOK'
    BY <2>1, <2>2
    DEF MemoryOK, GoodScore, BannedNotExplicit, is_peer_banned, Pending
  <2>4. \A p \in Peers : KeptOnDisk(p)'
    <3>1. \A p \in Peers : filed'[p] = [until |-> 0, reloads |-> 0]
      BY <2>2 DEF NoSentence
    <3> QED
      BY <2>1, <2>2, <3>1 DEF KeptOnDisk
  <2>5. FileOK'
    BY <2>1, <2>2, <2>4, ReputationAssumption DEF FileOK, SnapshotIsCurrent
  <2> QED
    BY <2>3, <2>5
<1>9. CASE Tick
  <2>1. PICK d \in TickSteps : clock' = clock + d
    BY <1>9 DEF Tick
  <2>2. /\ d \in Nat /\ clock \in Nat /\ clock' \in Nat /\ clock' >= clock /\ Second \in Nat
        /\ UNCHANGED <<phase, scores, known, explicit, file, reports, restarts, sentence, filed, unsaved>>
    BY <1>9, <2>1, ReputationAssumption DEF Tick, memory, history, MemoryOK
  <2>3. \A p \in Peers : sentence[p].reloads \in Nat /\ sentence[p].until \in Nat
    BY DEF MemoryOK
  <2>4. \A p \in Peers : filed[p].reloads \in Nat /\ filed[p].until \in Nat
    BY DEF FileOK
  <2>0. \A lost, until \in Nat : clock + lost >= until => clock' + lost >= until
    BY <2>2, LaterStill
  <2>5. ASSUME NEW p \in Peers, Kept(p) PROVE Kept(p)'
    <3>1. PICK lost \in Nat : lost = 2 * Second * sentence[p].reloads
      BY <2>3, LossIsNat
    <3> QED
      BY <2>0, <2>2, <2>3, <2>5, <3>1 DEF Kept
  <2>6. ASSUME NEW p \in Peers, KeptOnDisk(p) PROVE KeptOnDisk(p)'
    <3>1. PICK lost \in Nat : lost = 2 * Second * filed[p].reloads
      BY <2>4, LossIsNat
    <3> QED
      BY <2>0, <2>2, <2>4, <2>6, <3>1 DEF KeptOnDisk
  <2>7. BannedNotExplicit'
    <3> SUFFICES ASSUME NEW p \in explicit PROVE ~is_peer_banned(p)'
      BY <2>2 DEF BannedNotExplicit
    <3>1. p \in Peers /\ ~is_peer_banned(p)
      BY DEF MemoryOK, BannedNotExplicit
    <3>2. scores[p] # None => scores[p].banned_until \in Nat \cup {None}
      BY <3>1 DEF MemoryOK, PeerScores, Until
    <3> QED
      BY <2>2, <3>1, <3>2 DEF is_peer_banned, Pending
  <2>8. \A p \in Peers : scores[p] # None =>
          scores[p] \in PeerScores /\ scores[p].score <= MaxScore /\ scores[p].last_decay_at <= clock'
    BY <2>2 DEF MemoryOK, GoodScore, PeerScores
  <2>9. MemoryOK'
    BY <2>2, <2>5, <2>7, <2>8 DEF MemoryOK, GoodScore
  <2>10. FileOK'
    BY <2>2, <2>6 DEF FileOK, SnapshotIsCurrent
  <2> QED
    BY <2>9, <2>10
<1>10. CASE UNCHANGED vars
  BY <1>10 DEF vars, MemoryOK, FileOK, GoodScore, Kept, KeptOnDisk, BannedNotExplicit,
               is_peer_banned, Pending, SnapshotIsCurrent
<1> QED
  BY <1>1, <1>2, <1>3, <1>4, <1>5, <1>6, <1>7, <1>8, <1>9, <1>10 DEF Next

-----------------------------------------------------------------------------
(* Probation.  A score that recovers slowly cannot leave the range of      *)
(* probation between two reports; what it has not yet recovered is bounded *)
(* by the time from its last decay to the end of the probation.            *)

(* Longer times have more whole seconds, and adding two loses at most one. *)
LEMMA MoreSeconds ==
    ASSUME NEW a \in Nat, NEW b \in Nat
    PROVE  /\ a <= b => a \div Second <= b \div Second
           /\ (a + b) \div Second <= a \div Second + b \div Second + 1
<1>1. PICK c \in Nat \ {0} : c = Second
  BY ReputationAssumption
<1>2. PICK x \in Nat, y \in Nat, z \in Nat : x = a \div c /\ y = b \div c /\ z = (a + b) \div c
  BY <1>1
<1>3. /\ c * x <= a /\ a < c * x + c
      /\ c * y <= b /\ b < c * y + c
      /\ c * z <= a + b /\ a + b < c * z + c
  BY <1>1, <1>2, WholeSeconds
<1>4. ASSUME NEW k \in Nat, NEW l \in Nat, k > l PROVE c * k >= c * l + c
  <2>1. PICK j \in Nat : k = l + 1 + j
    <3>1. k - (l + 1) \in Nat /\ k = l + 1 + (k - (l + 1))
      BY <1>4
    <3> QED
      BY <3>1
  <2>2. c * k = c * l + c + c * j /\ c * j \in Nat
    BY <2>1
  <2>3. c * k \in Nat /\ c * l \in Nat
    OBVIOUS
  <2> QED
    BY <2>2, <2>3
<1>5. c * x \in Nat /\ c * y \in Nat /\ c * z \in Nat
  OBVIOUS
<1>6. a <= b => x <= y
  <2>1. SUFFICES ASSUME a <= b, x > y PROVE FALSE
    OBVIOUS
  <2>2. c * x >= c * y + c
    BY <1>4, <2>1
  <2> QED
    BY <1>3, <1>5, <2>1, <2>2
<1>7. z <= x + y + 1
  <2>1. SUFFICES ASSUME z > x + y + 1 PROVE FALSE
    OBVIOUS
  <2>2. c * z >= c * (x + y + 1) + c
    BY <1>4, <2>1
  <2>3. c * (x + y + 1) = c * x + c * y + c
    OBVIOUS
  <2> QED
    BY <1>3, <1>5, <2>2, <2>3
<1> QED
  BY <1>1, <1>2, <1>6, <1>7

(* More time recovers more.                                                *)
LEMMA MoreRecovered ==
    ASSUME NEW a \in Nat, NEW b \in Nat, a <= b
    PROVE  /\ a * score_recovery_per_minute \in Nat
           /\ b * score_recovery_per_minute \in Nat
           /\ a * score_recovery_per_minute <= b * score_recovery_per_minute
<1>1. PICK r \in Nat : r = score_recovery_per_minute
  BY ReputationAssumption
<1>2. PICK j \in Nat : b = a + j
  <2>1. b - a \in Nat /\ b = a + (b - a)
    OBVIOUS
  <2> QED
    BY <2>1
<1>3. b * r = a * r + j * r /\ j * r \in Nat /\ a * r \in Nat
  BY <1>2
<1>4. a * r <= b * r /\ b * r \in Nat
  BY <1>3
<1> QED
  BY <1>1, <1>3, <1>4

(* What a score recovers by a time.                                        *)
Recovery(s, time) == ((time - s.last_decay_at) \div Second) * score_recovery_per_minute

(* What is said of a score in memory and of one in the snapshot.           *)
Deserved(s) ==
    s.probation_until # None =>
        /\ s.probation_until <= clock + probation_duration
        /\ clock < s.probation_until =>
              s.score <= -ClearDebt /\ Recovery(s, s.probation_until) < 9 * Minute

DeservedOnDisk(r) ==
    r.probation_until # None =>
        /\ r.probation_until <= UnixNow + probation_duration \div Second
        /\ UnixNow < r.probation_until => r.score <= -ClearDebt

MemoryDeserved == \A p \in Peers : scores[p] # None => Deserved(scores[p])
FileDeserved ==
    file \in Snapshots => \A p \in Peers : file.scores[p] # None => DeservedOnDisk(file.scores[p])

(* A score recovers no more than the smallest penalty in a probation.      *)
LEMMA LittleRecovered ==
    ASSUME NEW s, GoodScore(s), Deserved(s), clock \in Nat, Pending(s.probation_until)
    PROVE  Recovery(s, clock) \div Minute \in 0 .. 8
<1>1. PICK l \in Nat, u \in Nat : l = s.last_decay_at /\ u = s.probation_until
  BY DEF GoodScore, PeerScores, Until, Pending
<1>2. clock - l \in Nat /\ u - l \in Nat /\ clock - l <= u - l
  BY <1>1 DEF GoodScore, Pending
<1>3. /\ (clock - l) \div Second \in Nat /\ (u - l) \div Second \in Nat
      /\ (clock - l) \div Second <= (u - l) \div Second
  BY <1>2, WholeSeconds, MoreSeconds
<1>4. Recovery(s, clock) <= Recovery(s, u) /\ Recovery(s, clock) \in Nat /\ Recovery(s, u) \in Nat
  BY <1>1, <1>3, MoreRecovered DEF Recovery
<1>5. Recovery(s, u) < 9 * Minute
  BY <1>1 DEF Deserved, Pending
<1>6. PICK x \in Nat, m \in Nat \ {0} : x = Recovery(s, clock) /\ m = Minute /\ x < 9 * m
  BY <1>4, <1>5, ReputationAssumption
<1>7. x \div m \in 0 .. 8
  <2>1. PICK q \in Nat : q = x \div m
    BY <1>6
  <2>2. m * q <= x
    BY <2>1
  <2>3. q <= 8
    <3>1. SUFFICES ASSUME q >= 9 PROVE FALSE
      BY <2>1
    <3>2. PICK j \in Nat : q = 9 + j
      <4>1. q - 9 \in Nat /\ q = 9 + (q - 9)
        BY <2>1, <3>1
      <4> QED
        BY <4>1
    <3>3. m * q = 9 * m + m * j /\ m * j \in Nat /\ m * q \in Nat
      BY <3>2
    <3> QED
      BY <1>6, <2>2, <3>3
  <2> QED
    BY <2>1, <2>3
<1> QED
  BY <1>6, <1>7

(* After a decay less than a point is left to recover, the probation is as *)
(* it was, and a pending one has cost the score at most eight points.      *)
LEMMA DecayRecovers ==
    ASSUME NEW s, GoodScore(s), Deserved(s), clock \in Nat
    PROVE  LET d == apply_score_decay(s)
           IN  /\ d.probation_until = s.probation_until
               /\ d.last_decay_at \in Nat /\ d.last_decay_at >= s.last_decay_at
               /\ Recovery(d, clock) < Minute
               /\ Pending(s.probation_until) => d.score <= s.score + 8
<1> DEFINE d == apply_score_decay(s)
           x == Recovery(s, clock)
           recovered == x \div Minute
           m == Min({s.score + recovered, MaxScore})
<1>1. /\ s.last_decay_at \in Nat /\ clock - s.last_decay_at \in Nat
      /\ s.score \in Int /\ s.last_decay_at <= clock
  BY DEF GoodScore, PeerScores
<1>2. (clock - s.last_decay_at) \div Second \in Nat
  BY <1>1, WholeSeconds
<1>3. x \in Nat
  BY <1>2, MoreRecovered DEF Recovery
<1>4. d = IF recovered > 0
          THEN [s EXCEPT !.score = m, !.last_decay_at = clock]
          ELSE s
  BY DEF apply_score_decay, Recovery
<1>5. Pending(s.probation_until) => recovered \in 0 .. 8
  BY LittleRecovered
<1> HIDE DEF x
<1>6. recovered \in Nat /\ (~(recovered > 0) => x < Minute)
  BY <1>3, ReputationAssumption
<1> HIDE DEF recovered
<1>7. m \in Int /\ m <= s.score + recovered
  <2>1. s.score + recovered \in Int /\ MaxScore \in Int
    BY <1>1, <1>6 DEF MaxScore
  <2> QED
    BY <2>1, MinPair
<1> HIDE DEF m, d
<1>8. CASE recovered > 0
  <2>1. d = [s EXCEPT !.score = m, !.last_decay_at = clock]
    BY <1>4, <1>8
  <2>2. /\ d.probation_until = s.probation_until /\ d.last_decay_at = clock
        /\ d.score = m
    BY <2>1 DEF GoodScore, PeerScores
  <2>3. Recovery(d, clock) < Minute
    <3>1. (clock - clock) \div Second = 0
      BY ReputationAssumption
    <3> QED
      BY <2>2, <3>1, ReputationAssumption DEF Recovery
  <2>4. Pending(s.probation_until) => m <= s.score + 8
    BY <1>1, <1>5, <1>7
  <2> QED
    BY <1>1, <2>2, <2>3, <2>4 DEF d
<1>9. CASE ~(recovered > 0)
  <2>1. d = s
    BY <1>4, <1>9
  <2>2. Recovery(d, clock) < Minute
    BY <1>6, <1>9, <2>1 DEF x
  <2> QED
    BY <1>1, <2>1, <2>2 DEF d
<1> QED
  BY <1>8, <1>9

(* A penalty takes at least eight points and moves nothing else that       *)
(* probation depends on.                                                   *)
LEMMA PenaltyTakes ==
    ASSUME NEW s, GoodScore(s), clock \in Nat, NEW kind \in DOMAIN Penalty
    PROVE  LET d == apply_score_decay(s)
               t == Penalised(s, kind)
           IN  /\ t.probation_until = d.probation_until
               /\ t.last_decay_at = d.last_decay_at
               /\ t.score <= d.score - 8
<1> DEFINE d == apply_score_decay(s)
<1>1. d \in PeerScores /\ d.score \in Int
  BY DecayType DEF GoodScore, PeerScores
<1>2. /\ kind \in {"timeouts", "invalid", "inconsistent"}
      /\ Penalty[kind] \in Nat /\ Penalty[kind] >= 8
  BY DEF Penalty
<1>3. Penalised(s, kind) = [d EXCEPT !.score = d.score - Penalty[kind], ![kind] = d[kind] + 1]
  BY <1>1, <1>2 DEF Penalised, PeerScores
<1> HIDE DEF d
<1>4. ASSUME NEW a, NEW b
      PROVE  LET t == [d EXCEPT !.score = a, ![kind] = b]
             IN  /\ t.probation_until = d.probation_until
                 /\ t.last_decay_at = d.last_decay_at /\ t.score = a
  BY <1>1, <1>2 DEF PeerScores
<1>5. /\ Penalised(s, kind).probation_until = d.probation_until
      /\ Penalised(s, kind).last_decay_at = d.last_decay_at
      /\ Penalised(s, kind).score = d.score - Penalty[kind]
  BY <1>3, <1>4
<1>6. d.score - Penalty[kind] <= d.score - 8
  BY <1>1, <1>2
<1> QED
  BY <1>5, <1>6 DEF d

(* Less time is left to recover from a later decay.                        *)
LEMMA LaterDecay ==
    ASSUME NEW l \in Nat, NEW k \in Nat, NEW u \in Nat, l <= k, k <= u
    PROVE  ((u - k) \div Second) * score_recovery_per_minute
             <= ((u - l) \div Second) * score_recovery_per_minute
<1>1. u - k \in Nat /\ u - l \in Nat /\ u - k <= u - l
  OBVIOUS
<1>2. /\ (u - k) \div Second \in Nat /\ (u - l) \div Second \in Nat
      /\ (u - k) \div Second <= (u - l) \div Second
  BY <1>1, WholeSeconds, MoreSeconds
<1> QED
  BY <1>2, MoreRecovered

(* A penalised score deserves the probation it is still in.                *)
LEMMA PenalisedDeserved ==
    ASSUME NEW s, GoodScore(s), Deserved(s), clock \in Nat, NEW kind \in DOMAIN Penalty
    PROVE  Deserved(Penalised(s, kind)) /\ Recovery(Penalised(s, kind), clock) < Minute
<1> DEFINE d == apply_score_decay(s)
           t == Penalised(s, kind)
<1>1. /\ d.probation_until = s.probation_until
      /\ d.last_decay_at \in Nat /\ d.last_decay_at >= s.last_decay_at
      /\ Recovery(d, clock) < Minute
      /\ Pending(s.probation_until) => d.score <= s.score + 8
  BY DecayRecovers
<1>2. /\ t.probation_until = d.probation_until /\ t.last_decay_at = d.last_decay_at
      /\ t.score <= d.score - 8
  BY PenaltyTakes
<1>3. /\ GoodScore(d) /\ GoodScore(t)
  BY DecayType, PenalisedType
<1> HIDE DEF d, t
<1>4. Recovery(t, clock) < Minute
  BY <1>1, <1>2 DEF Recovery
<1>5. CASE s.probation_until # None /\ clock < s.probation_until
  <2>1. PICK u \in Nat : u = s.probation_until
    BY <1>5 DEF GoodScore, PeerScores, Until
  <2>2. /\ s.score \in Int /\ d.score \in Int /\ t.score \in Int /\ ClearDebt \in Nat
        /\ s.last_decay_at \in Nat /\ d.last_decay_at <= clock
    BY <1>3, ReputationAssumption DEF GoodScore, PeerScores
  <2>3. t.score <= s.score /\ s.score <= -ClearDebt
    BY <1>1, <1>2, <1>5, <2>2 DEF Pending, Deserved
  <2>4. Recovery(t, u) <= Recovery(s, u) /\ Recovery(s, u) < 9 * Minute
    <3>1. d.last_decay_at <= u
      BY <1>1, <1>5, <2>1, <2>2
    <3>2. Recovery(t, u) <= Recovery(s, u)
      BY <1>1, <1>2, <2>1, <2>2, <3>1, LaterDecay DEF Recovery
    <3> QED
      BY <1>5, <2>1, <3>2 DEF Deserved
  <2>5. Recovery(t, u) \in Int /\ Recovery(s, u) \in Int
    <3>1. u - t.last_decay_at \in Nat /\ u - s.last_decay_at \in Nat
      BY <1>1, <1>2, <1>5, <2>1, <2>2
    <3>2. (u - t.last_decay_at) \div Second \in Nat /\ (u - s.last_decay_at) \div Second \in Nat
      BY <3>1, WholeSeconds
    <3> QED
      BY <3>2, MoreRecovered DEF Recovery
  <2>6. Recovery(t, u) < 9 * Minute
    BY <2>4, <2>5, ReputationAssumption
  <2>7. t.score <= -ClearDebt
    BY <2>2, <2>3
  <2>8. u <= clock + probation_duration
    BY <1>5, <2>1 DEF Deserved
  <2> QED
    BY <1>1, <1>2, <1>4, <2>1, <2>6, <2>7, <2>8 DEF Deserved, t
<1>6. CASE ~(s.probation_until # None /\ clock < s.probation_until)
  BY <1>1, <1>2, <1>4, <1>6 DEF Deserved, t
<1> QED
  BY <1>5, <1>6

(* A probation starts deserved, and stays so by the time it ends: what has *)
(* not been recovered yet is less than a point.                            *)
LEMMA StartedDeserved ==
    ASSUME SlowRecovery, NEW t, GoodScore(t), clock \in Nat,
           Recovery(t, clock) < Minute, t.score <= -ProbationDebt
    PROVE  Deserved([t EXCEPT !.probation_until = clock + probation_duration])
<1> DEFINE u == clock + probation_duration
           s == [t EXCEPT !.probation_until = u]
<1>1. /\ s.score = t.score /\ s.last_decay_at = t.last_decay_at /\ s.probation_until = u
      /\ t.score \in Int /\ t.last_decay_at \in Nat /\ clock - t.last_decay_at \in Nat
  BY DEF GoodScore, PeerScores
<1> HIDE DEF s
<1>2. s.score <= -ClearDebt
  BY <1>1, ReputationAssumption DEF SlowRecovery
<1>3. PICK a \in Nat, b \in Nat, r \in Nat :
        /\ a = (clock - t.last_decay_at) \div Second
        /\ b = probation_duration \div Second /\ r = score_recovery_per_minute
  BY <1>1, WholeSeconds, ReputationAssumption
<1>4. PICK c \in Nat : c = (u - t.last_decay_at) \div Second /\ c <= a + b + 1
  <2>1. u - t.last_decay_at = (clock - t.last_decay_at) + probation_duration
    BY <1>1, ReputationAssumption
  <2>2. probation_duration \in Nat /\ u - t.last_decay_at \in Nat
    BY <1>1, <2>1, ReputationAssumption
  <2> QED
    BY <1>1, <1>3, <2>1, <2>2, WholeSeconds, MoreSeconds
<1>5. c * r <= (a + b + 1) * r /\ c * r \in Nat
  BY <1>3, <1>4, MoreRecovered
<1>6. (a + b + 1) * r = a * r + (b + 1) * r /\ a * r \in Nat /\ (b + 1) * r \in Nat
  OBVIOUS
<1>7. a * r < Minute /\ (b + 1) * r <= 8 * Minute
  BY <1>3 DEF Recovery, SlowRecovery
<1>8. Recovery(s, u) < 9 * Minute
  <2>1. Recovery(s, u) = c * r
    BY <1>1, <1>3, <1>4 DEF Recovery
  <2>2. PICK x \in Nat, y \in Nat, m \in Nat : x = a * r /\ y = (b + 1) * r /\ m = Minute
    BY <1>6, ReputationAssumption
  <2>3. c * r <= x + y /\ x < m /\ y <= 8 * m
    BY <1>5, <1>6, <1>7, <2>2
  <2>4. c * r < 9 * m
    BY <1>5, <2>2, <2>3
  <2> QED
    BY <2>1, <2>2, <2>4
<1>9. u <= clock + probation_duration
  BY ReputationAssumption
<1> QED
  BY <1>1, <1>2, <1>8, <1>9 DEF Deserved, s

(* The larger of two numbers is one of them.                               *)
LEMMA MaxIsOne ==
    ASSUME NEW a \in Int, NEW b \in Int
    PROVE  Max({a, b}) = IF a >= b THEN a ELSE b
<1>1. \E x \in {a, b} : \A y \in {a, b} : x >= y
  OBVIOUS
<1>2. Max({a, b}) \in {a, b} /\ Max({a, b}) >= a /\ Max({a, b}) >= b
  BY <1>1 DEF Max
<1> QED
  BY <1>2

(* The snapshot keeps a probation no longer than it is deserved.           *)
LEMMA PersistDeserved ==
    ASSUME NEW s, GoodScore(s), Deserved(s), clock \in Nat
    PROVE  DeservedOnDisk(persist_peer_score(s))
<1> DEFINE r == persist_peer_score(s)
<1>1. r.score = s.score /\ r.probation_until = ToUnix(s.probation_until)
  BY DEF persist_peer_score
<1> HIDE DEF r
<1>2. CASE s.probation_until = None
  BY <1>1, <1>2 DEF ToUnix, DeservedOnDisk, r
<1>3. CASE s.probation_until # None
  <2>1. PICK u \in Nat : u = s.probation_until
    BY <1>3 DEF GoodScore, PeerScores, Until
  <2>2. UnixNow \in Nat /\ probation_duration \in Nat
    BY WholeSeconds, ReputationAssumption DEF UnixNow
  <2>3. u <= clock + probation_duration
    BY <1>3, <2>1 DEF Deserved
  <2>4. PICK rest \in Nat : rest = Max({u - clock, 0}) /\ rest = IF u >= clock THEN u - clock ELSE 0
    BY MaxIsOne
  <2>5. ToUnix(u) = UnixNow + rest \div Second
    BY <2>1, <2>4, ReputationAssumption DEF ToUnix
  <2>6. rest <= probation_duration
    BY <2>2, <2>3, <2>4
  <2>7. /\ rest \div Second \in Nat /\ probation_duration \div Second \in Nat
        /\ rest \div Second <= probation_duration \div Second
    BY <2>2, <2>6, WholeSeconds, MoreSeconds
  <2>8. ToUnix(u) <= UnixNow + probation_duration \div Second
    BY <2>2, <2>5, <2>7
  <2>9. ASSUME UnixNow < ToUnix(u) PROVE s.score <= -ClearDebt
    <3>1. rest # 0
      <4>1. 0 \div Second = 0
        BY ReputationAssumption
      <4> QED
        BY <2>2, <2>5, <2>9, <4>1
    <3>2. clock < u
      BY <2>4, <3>1
    <3> QED
      BY <1>3, <2>1, <3>2 DEF Deserved
  <2> QED
    BY <1>1, <2>1, <2>8, <2>9 DEF DeservedOnDisk, r
<1> QED
  BY <1>2, <1>3

(* A restart finds a probation as deserved as the snapshot left it, and    *)
(* starts to count what the score recovers from the restart.               *)
LEMMA LoadDeserved ==
    ASSUME SlowRecovery, NEW r \in PersistedScores, DeservedOnDisk(r), clock \in Nat
    PROVE  Deserved(load_peer_score(r))
<1> DEFINE s == load_peer_score(r)
<1>1. /\ s.score = r.score /\ s.probation_until = ToInstant(r.probation_until)
      /\ s.last_decay_at = clock
  BY DEF load_peer_score
<1> HIDE DEF s
<1>2. CASE r.probation_until = None
  BY <1>1, <1>2 DEF ToInstant, Deserved, s
<1>3. CASE r.probation_until # None
  <2>1. PICK x \in Nat : x = r.probation_until
    BY <1>3 DEF PersistedScores, Until
  <2>2. PICK now \in Nat, e \in Nat, c \in Nat \ {0} :
          now = UnixNow /\ e = probation_duration \div Second /\ c = Second
    BY WholeSeconds, ReputationAssumption DEF UnixNow
  <2>3. x <= now + e
    BY <1>3, <2>1, <2>2 DEF DeservedOnDisk
  <2>4. PICK rest \in Nat : rest = Max({x - now, 0}) /\ rest = IF x >= now THEN x - now ELSE 0
    BY MaxIsOne
  <2>5. ToInstant(x) = clock + rest * c
    BY <2>1, <2>2, <2>4, ReputationAssumption DEF ToInstant
  <2>6. rest <= e
    BY <2>3, <2>4
  <2>7. rest * c <= e * c /\ rest * c \in Nat /\ e * c \in Nat
    <3>1. PICK j \in Nat : e = rest + j
      <4>1. e - rest \in Nat /\ e = rest + (e - rest)
        BY <2>6
      <4> QED
        BY <4>1
    <3>2. e * c = rest * c + j * c /\ j * c \in Nat /\ rest * c \in Nat
      BY <3>1
    <3> QED
      BY <3>2
  <2>8. e * c <= probation_duration /\ probation_duration \in Nat
    <3>1. probation_duration \in Nat
      BY ReputationAssumption
    <3>2. Second * e <= probation_duration
      BY <2>2, <3>1, WholeSeconds
    <3>3. e * c = c * e
      OBVIOUS
    <3> QED
      BY <2>2, <3>1, <3>2, <3>3
  <2>9. ToInstant(x) <= clock + probation_duration
    BY <2>5, <2>7, <2>8
  <2>10. ASSUME clock < ToInstant(x) PROVE s.score <= -ClearDebt
    <3>1. rest # 0
      BY <2>5, <2>10
    <3>2. now < x
      BY <2>4, <3>1
    <3> QED
      BY <1>1, <1>3, <2>1, <2>2, <3>2 DEF DeservedOnDisk
  <2>11. Recovery(s, ToInstant(x)) < 9 * Minute
    <3>1. (rest * c) \div c = rest
      BY <2>7
    <3>2. ToInstant(x) - clock = rest * c
      BY <2>5, <2>7
    <3>3. Recovery(s, ToInstant(x)) = rest * score_recovery_per_minute
      BY <1>1, <2>2, <3>1, <3>2 DEF Recovery
    <3>4. /\ rest * score_recovery_per_minute <= (e + 1) * score_recovery_per_minute
          /\ rest * score_recovery_per_minute \in Nat /\ (e + 1) * score_recovery_per_minute \in Nat
      BY <2>6, MoreRecovered
    <3>5. (e + 1) * score_recovery_per_minute <= 8 * Minute
      BY <2>2 DEF SlowRecovery
    <3>6. Minute \in Nat \ {0}
      BY ReputationAssumption
    <3> QED
      BY <3>3, <3>4, <3>5, <3>6
  <2> QED
    BY <1>1, <2>1, <2>9, <2>10, <2>11 DEF Deserved, s
<1> QED
  BY <1>2, <1>3

(* persist_state keeps the snapshot deserved, whether or not the write     *)
(* succeeds.                                                               *)
LEMMA PersistStateDeserved ==
    ASSUME MemoryOK', FileDeserved, MemoryDeserved', clock' = clock, persist_state
    PROVE  FileDeserved'
<1>1. CASE Saved
  <2> SUFFICES ASSUME NEW p \in Peers, file'.scores[p] # None
               PROVE  DeservedOnDisk(file.scores[p])'
    BY DEF FileDeserved
  <2>1. file'.scores[p] = IF scores'[p] = None THEN None ELSE persist_peer_score(scores'[p])
    BY <1>1 DEF Saved
  <2>2. scores'[p] # None /\ file'.scores[p] = persist_peer_score(scores'[p])
    BY <2>1
  <2>3. GoodScore(scores'[p]) /\ Deserved(scores'[p]) /\ clock \in Nat
    BY <2>2 DEF MemoryOK, GoodScore, MemoryDeserved, Deserved
  <2>4. DeservedOnDisk(file'.scores[p])
    BY <2>2, <2>3, PersistDeserved
  <2> QED
    BY <2>4 DEF DeservedOnDisk, UnixNow
<1>2. CASE NotSaved
  BY <1>2 DEF NotSaved, FileDeserved, DeservedOnDisk, UnixNow
<1> QED
  BY <1>1, <1>2 DEF persist_state

(* Storing one deserved score keeps the others deserved.                   *)
LEMMA NewScoreDeserved ==
    ASSUME MemoryOK, MemoryDeserved, NEW p \in Peers, NEW t, Deserved(t),
           scores' = [scores EXCEPT ![p] = t], clock' = clock
    PROVE  MemoryDeserved'
<1> SUFFICES ASSUME NEW q \in Peers, scores'[q] # None PROVE Deserved(scores[q])'
  BY DEF MemoryDeserved
<1>1. Deserved(scores'[q])
  BY DEF MemoryOK, MemoryDeserved
<1> QED
  BY <1>1 DEF Deserved

(* The score the manager works with is deserved, stored or neutral.        *)
LEMMA ScoreOfDeserved ==
    ASSUME MemoryDeserved, NEW p \in Peers
    PROVE  Deserved(ScoreOf(p))
<1>1. CASE scores[p] = None
  BY <1>1 DEF ScoreOf, neutral, Deserved
<1>2. CASE scores[p] # None
  BY <1>2 DEF ScoreOf, MemoryDeserved
<1> QED
  BY <1>1, <1>2

(* apply_penalty: a ban ends the probation, a low score starts a new one,  *)
(* and any other score stays in the one it deserves.                       *)
LEMMA ApplyPenaltyDeserved ==
    ASSUME SlowRecovery, MemoryOK, FileOK, MemoryDeserved,
           NEW p \in Peers, NEW kind \in DOMAIN Penalty, ApplyPenalty(p, kind)
    PROVE  MemoryDeserved'
<1> DEFINE s == Penalised(ScoreOf(p), kind)
           t == IF reached_ban_threshold(s)
                THEN [s EXCEPT !.banned_until = clock + ban_duration, !.probation_until = None]
                ELSE IF s.score <= -ProbationDebt
                THEN [s EXCEPT !.probation_until = clock + probation_duration]
                ELSE s
<1>1. TypeOK /\ clock \in Nat
  BY MemoryTypes DEF MemoryOK
<1>2. GoodScore(ScoreOf(p)) /\ Deserved(ScoreOf(p))
  BY <1>1, ScoreOfType, ScoreOfDeserved
<1>3. GoodScore(s) /\ Deserved(s) /\ Recovery(s, clock) < Minute
  BY <1>1, <1>2, PenalisedType, PenalisedDeserved
<1>4. scores' = [scores EXCEPT ![p] = t] /\ clock' = clock
  BY DEF ApplyPenalty
<1> HIDE DEF s
<1>5. Deserved(t)
  <2>1. CASE reached_ban_threshold(s)
    <3>1. t.probation_until = None
      BY <1>3, <2>1 DEF GoodScore, PeerScores
    <3> QED
      BY <3>1 DEF Deserved
  <2>2. CASE ~reached_ban_threshold(s) /\ s.score <= -ProbationDebt
    <3>1. t = [s EXCEPT !.probation_until = clock + probation_duration]
      BY <2>2
    <3> QED
      BY <1>1, <1>3, <2>2, <3>1, StartedDeserved
  <2>3. CASE ~reached_ban_threshold(s) /\ ~(s.score <= -ProbationDebt)
    BY <1>3, <2>3
  <2> QED
    BY <2>1, <2>2, <2>3
<1> HIDE DEF t
<1> QED
  BY <1>4, <1>5, NewScoreDeserved

(* report_successful_interaction: a score above the clearing threshold     *)
(* leaves probation in the same call.                                      *)
LEMMA ReportSuccessDeserved ==
    ASSUME MemoryOK, FileOK, MemoryDeserved, NEW p \in Peers, ReportSuccess(p)
    PROVE  MemoryDeserved'
<1> DEFINE o == ScoreOf(p)
           m == Min({o.score + 6, MaxScore})
           s == [o EXCEPT !.score = m]
           t == IF s.score > -ClearDebt THEN [s EXCEPT !.probation_until = None] ELSE s
<1>1. GoodScore(o) /\ Deserved(o)
  BY MemoryTypes, ScoreOfType, ScoreOfDeserved
<1>2. scores' = [scores EXCEPT ![p] = t] /\ clock' = clock
  BY DEF ReportSuccess
<1>3. m \in Int
  <2>1. o.score + 6 \in Int /\ MaxScore \in Int
    BY <1>1 DEF GoodScore, PeerScores, MaxScore
  <2> QED
    BY <2>1, MinPair
<1> HIDE DEF o, m
<1>4. /\ s \in PeerScores /\ s.score = m /\ s.probation_until = o.probation_until
      /\ s.last_decay_at = o.last_decay_at
  BY <1>1, <1>3 DEF GoodScore, PeerScores
<1> HIDE DEF s
<1>5. Deserved(t)
  <2>1. CASE s.score > -ClearDebt
    <3>1. t.probation_until = None
      BY <1>4, <2>1 DEF PeerScores
    <3> QED
      BY <3>1 DEF Deserved
  <2>2. CASE ~(s.score > -ClearDebt)
    <3>1. t = s /\ s.score <= -ClearDebt
      BY <1>3, <1>4, <2>2, ReputationAssumption
    <3> QED
      BY <1>1, <1>4, <3>1 DEF Deserved, Recovery
  <2> QED
    BY <2>1, <2>2
<1> HIDE DEF t
<1> QED
  BY <1>2, <1>5, NewScoreDeserved

(* A restart keeps every probation deserved, and the snapshot as it was.   *)
LEMMA LoadStepDeserved ==
    ASSUME SlowRecovery, MemoryOK, FileOK, FileDeserved, Load
    PROVE  MemoryDeserved' /\ FileDeserved'
<1> DEFINE found == IF file \in {None, Damaged} THEN EmptySnapshot ELSE file
<1>1. /\ scores' = [p \in Peers |-> IF found.scores[p] = None THEN None
                                    ELSE load_peer_score(found.scores[p])]
      /\ file' \in IF file = Damaged THEN {EmptySnapshot, None, Damaged} ELSE {file}
      /\ clock' = clock /\ clock \in Nat
  BY DEF Load, MemoryOK
<1>2. \A p \in Peers : EmptySnapshot.scores[p] = None
  BY DEF EmptySnapshot
<1>3. ASSUME NEW p \in Peers, scores'[p] # None PROVE Deserved(scores[p])'
  <2>1. found.scores[p] # None /\ scores'[p] = load_peer_score(found.scores[p])
    BY <1>1, <1>3
  <2>2. found = file /\ file \in Snapshots
    BY <1>2, <2>1 DEF FileOK
  <2>3. found.scores[p] \in PersistedScores /\ DeservedOnDisk(found.scores[p])
    BY <2>1, <2>2 DEF Snapshots, FileDeserved
  <2>4. Deserved(scores'[p])
    BY <1>1, <2>1, <2>3, LoadDeserved
  <2> QED
    BY <1>1, <2>4 DEF Deserved
<1>4. FileDeserved'
  <2>1. CASE file' = file
    BY <1>1, <2>1 DEF FileDeserved, DeservedOnDisk, UnixNow
  <2>2. CASE file' = EmptySnapshot
    BY <1>2, <2>2 DEF FileDeserved
  <2>3. CASE file' \in {None, Damaged}
    BY <2>3, ReputationAssumption DEF FileDeserved
  <2> QED
    BY <1>1, <2>1, <2>2, <2>3
<1> QED
  BY <1>3, <1>4 DEF MemoryDeserved

(* Time only takes probations away.                                        *)
LEMMA TickDeserved ==
    ASSUME MemoryOK, FileOK, MemoryDeserved, FileDeserved, Tick
    PROVE  MemoryDeserved' /\ FileDeserved'
<1>1. /\ clock \in Nat /\ clock' \in Nat /\ clock <= clock'
      /\ probation_duration \in Nat /\ scores' = scores /\ file' = file
  BY ReputationAssumption DEF Tick, memory, MemoryOK
<1>2. ASSUME NEW p \in Peers, scores[p] # None PROVE Deserved(scores[p])'
  <2>1. Deserved(scores[p]) /\ scores[p].probation_until \in Nat \cup {None}
    BY <1>2 DEF MemoryDeserved, MemoryOK, PeerScores, Until
  <2>2. PICK s : s = scores[p]
    OBVIOUS
  <2>3. ASSUME s.probation_until # None
        PROVE  /\ s.probation_until <= clock' + probation_duration
               /\ clock' < s.probation_until => clock < s.probation_until
    BY <1>1, <2>1, <2>2, <2>3 DEF Deserved
  <2> QED
    BY <1>1, <2>1, <2>2, <2>3 DEF Deserved, Recovery
<1>3. PICK now \in Nat, later \in Nat, e \in Nat :
        /\ now = UnixNow /\ later = UnixNow' /\ e = probation_duration \div Second
        /\ now <= later
  BY <1>1, WholeSeconds, MoreSeconds DEF UnixNow
<1>4. ASSUME file \in Snapshots, NEW p \in Peers, file.scores[p] # None
      PROVE  DeservedOnDisk(file.scores[p])'
  <2>1. /\ DeservedOnDisk(file.scores[p])
        /\ file.scores[p].probation_until \in Nat \cup {None}
    BY <1>4 DEF FileDeserved, Snapshots, PersistedScores, Until
  <2>2. PICK r : r = file.scores[p]
    OBVIOUS
  <2>3. ASSUME r.probation_until # None
        PROVE  /\ r.probation_until <= later + e
               /\ later < r.probation_until => now < r.probation_until
    BY <1>3, <2>1, <2>2, <2>3 DEF DeservedOnDisk
  <2> QED
    BY <1>1, <1>3, <2>1, <2>2, <2>3 DEF DeservedOnDisk
<1> QED
  BY <1>1, <1>2, <1>4 DEF MemoryDeserved, FileDeserved

(* Every step keeps both halves.                                           *)
LEMMA DeservedNext ==
    ASSUME SlowRecovery, MemoryOK, FileOK, MemoryOK', MemoryDeserved, FileDeserved, [Next]_vars
    PROVE  MemoryDeserved' /\ FileDeserved'
<1>0. ASSUME UNCHANGED <<clock, scores>> PROVE MemoryDeserved'
  BY <1>0 DEF MemoryDeserved, Deserved, Recovery
<1>1. ASSUME UNCHANGED <<clock, file>> PROVE FileDeserved'
  BY <1>1 DEF FileDeserved, DeservedOnDisk, UnixNow
<1>2. CASE Load
  BY <1>2, LoadStepDeserved
<1>3. ASSUME UNCHANGED <<clock, scores>>, persist_state PROVE MemoryDeserved' /\ FileDeserved'
  BY <1>0, <1>3, PersistStateDeserved
<1>4. CASE Configure
  BY <1>3, <1>4 DEF Configure, persist_state
<1>5. ASSUME NEW p \in Peers, DialPeer(p) PROVE MemoryDeserved' /\ FileDeserved'
  BY <1>0, <1>1, <1>3, <1>5 DEF DialPeer
<1>6. CASE PublishOrRecover
  BY <1>3, <1>6 DEF PublishOrRecover
<1>7. ASSUME NEW p \in Peers, ReportSuccess(p) PROVE MemoryDeserved' /\ FileDeserved'
  <2>1. persist_state /\ clock' = clock
    BY <1>7 DEF ReportSuccess
  <2> QED
    BY <1>7, <2>1, ReportSuccessDeserved, PersistStateDeserved
<1>8. ASSUME NEW p \in Peers, NEW kind \in DOMAIN Penalty, ApplyPenalty(p, kind)
      PROVE  MemoryDeserved' /\ FileDeserved'
  <2>1. persist_state /\ clock' = clock
    BY <1>8 DEF ApplyPenalty
  <2> QED
    BY <1>8, <2>1, ApplyPenaltyDeserved, PersistStateDeserved
<1>9. CASE Crash
  BY <1>1, <1>9 DEF Crash, MemoryDeserved
<1>10. CASE Corrupt
  BY <1>0, <1>10, ReputationAssumption DEF Corrupt, memory, FileDeserved
<1>11. CASE Tick
  BY <1>11, TickDeserved
<1>12. CASE UNCHANGED vars
  BY <1>0, <1>1, <1>12 DEF vars
<1> QED
  BY <1>2, <1>4, <1>5, <1>6, <1>7, <1>8, <1>9, <1>10, <1>11, <1>12 DEF Next

-----------------------------------------------------------------------------
(* A banned peer is never among gossipsub's explicit peers, whatever       *)
(* configure_peers, dial_peer, apply_penalty and restarts do in turn.      *)
THEOREM BannedNotExplicitTheorem == Spec => []BannedNotExplicit
<1>1. MemoryOK => BannedNotExplicit
  BY DEF MemoryOK
<1> QED
  BY <1>1, InvariantInit, InvariantNext, PTL DEF Spec

(* A restart costs a ban less than two seconds, whatever the durations and *)
(* the resolution of the clock, as long as some write after the ban        *)
(* succeeded.                                                              *)
THEOREM BanErosionTheorem == Spec => []BanErosionBounded
<1>1. MemoryOK => BanErosionBounded
  <2> SUFFICES ASSUME MemoryOK, phase # "down", NEW p \in Peers,
                      clock + 2 * Second * sentence[p].reloads < sentence[p].until
               PROVE  is_peer_banned(p)
    BY DEF BanErosionBounded
  <2> DEFINE k == 2 * Second * sentence[p].reloads
  <2>1. /\ clock \in Nat /\ sentence[p].until \in Nat /\ k \in Nat
        /\ scores[p] # None => scores[p].banned_until \in Nat \cup {None}
    <3>1. sentence[p].reloads \in Nat /\ Second \in Nat
      BY ReputationAssumption DEF MemoryOK
    <3>2. k \in Nat
      BY <3>1
    <3> HIDE DEF k
    <3> QED
      BY <3>2 DEF MemoryOK, PeerScores, Until
  <2>2. Kept(p)
    BY DEF MemoryOK
  <2> QED
    BY <2>1, <2>2 DEF Kept, is_peer_banned, Pending
<1> QED
  BY <1>1, InvariantInit, InvariantNext, PTL DEF Spec

(* Unless its last write failed, the snapshot of a running node holds all  *)
(* scores, counters and known peers.                                       *)
THEOREM SnapshotTheorem == Spec => []SnapshotIsCurrent
<1>1. FileOK => SnapshotIsCurrent
  BY DEF FileOK
<1> QED
  BY <1>1, InvariantInit, InvariantNext, PTL DEF Spec

(* Scores and snapshots stay well formed: no score passes its ceiling and  *)
(* no decay runs ahead of the clock, over reports, restarts and failed     *)
(* writes.                                                                 *)
THEOREM ReputationTypes == Spec => []TypeOK
BY MemoryTypes, InvariantInit, InvariantNext, PTL DEF Spec

(* When a score recovers no more in a probation than the smallest penalty  *)
(* costs, as in P2pNodeConfig::default and its profiles, apply_penalty,    *)
(* report_successful_interaction and restarts leave a peer in probation    *)
(* only while its score is at or below the clearing threshold.             *)
THEOREM ProbationTheorem ==
    ASSUME SlowRecovery
    PROVE  Spec => []ProbationIsDeserved
<1>1. Init => MemoryDeserved /\ FileDeserved
  BY ReputationAssumption DEF Init, MemoryDeserved, FileDeserved
<1>2. MemoryOK /\ FileOK /\ MemoryDeserved /\ FileDeserved /\ [Next]_vars
        => MemoryDeserved' /\ FileDeserved'
  BY InvariantNext, DeservedNext
<1>3. MemoryDeserved => ProbationIsDeserved
  BY DEF MemoryDeserved, Deserved, ProbationIsDeserved, is_peer_probationary, Pending
<1> QED
  BY <1>1, <1>2, <1>3, InvariantInit, InvariantNext, PTL DEF Spec
=============================================================================
