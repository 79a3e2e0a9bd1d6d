------------------------------ MODULE MlsGroup ------------------------------
(***************************************************************************)
(* The SPEX group state of crates/spex-mls: replicas of one group that     *)
(* exchange commits.  A replica accepts a commit only at the epoch after   *)
(* its own; a commit that is further ahead can be applied together with    *)
(* the missing ones.  Commits travel over a network that delays, reorders, *)
(* repeats and loses them: a broadcast commit may be delivered to any      *)
(* replica at any time, any number of times, or never.                     *)
(*                                                                         *)
(* A group secret is the chain of values it was derived from: the last     *)
(* secret that was set, followed by the epochs of the derivations.         *)
(***************************************************************************)
EXTENDS Integers, FiniteSets, Sequences

CONSTANTS
    Replicas,       \* holders of a Group value
    Committers,     \* those that call add_member and remove_member
    Members,        \* member identifiers
    Suites,         \* (proto_suite, flags, cfg_hash) of a GroupContext
    FirstSuite,     \* the one of GroupConfig
    Secrets,        \* explicit group_secret values of commits
    Seed,           \* initial_secret of GroupConfig
    Foreign,        \* commits made by other implementations of the protocol
    None,           \* an absent option
    MaxEpoch        \* bound of the model

(* added and removed are the members of the commit's lists.  supported     *)
(* says whether cfg_hash_id is absent or names the known hash.             *)
CommitSet ==
    [epoch: Nat, suite: Suites \cup {None}, supported: BOOLEAN,
     secret: Secrets \cup {None}, added: SUBSET Members, removed: SUBSET Members]

ASSUME GroupAssumption ==
    /\ Committers \subseteq Replicas
    /\ FirstSuite \in Suites /\ None \notin Suites \cup Secrets
    /\ Foreign \subseteq CommitSet /\ IsFiniteSet(Foreign)
    /\ MaxEpoch \in Nat

VARIABLES
    group,      \* group[r]: the Group of replica r
    net,        \* commits that were broadcast
    applied,    \* applied[r]: commits whose application returned Ok, in order
    refused     \* refused[r]: the last call on r returned an error

vars == <<group, net, applied, refused>>

(* Group::create.                                                          *)
Created == [epoch |-> 0, suite |-> FirstSuite, members |-> {}, secret |-> <<Seed, 0>>]

Init ==
    /\ group = [r \in Replicas |-> Created]
    /\ net = Foreign
    /\ applied = [r \in Replicas |-> <<>>]
    /\ refused = [r \in Replicas |-> FALSE]

-----------------------------------------------------------------------------
(* Group::apply_commit.                                                    *)

(* Variants of this name, here and below, each hold one mistake the        *)
(* properties must detect.                                                 *)
Accepts_OffByOne(g, c) == c.epoch = g.epoch + 2 /\ c.supported

Accepts(g, c) == c.epoch = g.epoch + 1 /\ c.supported

Applied_SuiteUnchecked(g, c) ==
    [epoch |-> c.epoch,
     suite |-> c.suite,
     members |-> (g.members \cup c.added) \ c.removed,
     secret |-> IF c.secret # None THEN <<c.secret>> ELSE Append(g.secret, c.epoch)]

(* The group after a commit that is accepted.                              *)
Applied(g, c) ==
    [epoch |-> c.epoch,
     suite |-> IF c.suite = None THEN g.suite ELSE c.suite,
     members |-> (g.members \cup c.added) \ c.removed,
     secret |-> IF c.secret # None THEN <<c.secret>> ELSE Append(g.secret, c.epoch)]

Refused_MembersFirst(g, c) ==
    IF c.epoch = g.epoch + 1 THEN [g EXCEPT !.members = (@ \cup c.added) \ c.removed] ELSE g

(* The group after a commit that is refused: an epoch out of order leaves  *)
(* it alone, an unsupported hash is noticed after the suite was taken over. *)
Refused(g, c) ==
    IF c.epoch = g.epoch + 1 /\ c.suite # None THEN [g EXCEPT !.suite = c.suite] ELSE g

-----------------------------------------------------------------------------
(* Local changes: add_member and remove_member commit and apply at once,   *)
(* the caller broadcasts the commit they return.                           *)

Change(added, removed, epoch) ==
    [epoch |-> epoch, suite |-> None, supported |-> TRUE, secret |-> None,
     added |-> added, removed |-> removed]

CommitChange(r, c) ==
    /\ group[r].epoch < MaxEpoch
    /\ group' = [group EXCEPT ![r] = Applied(@, c)]
    /\ applied' = [applied EXCEPT ![r] = Append(@, c)]
    /\ refused' = [refused EXCEPT ![r] = FALSE]
    /\ net' = net \cup {c}

AddMember(r) == \E m \in Members : CommitChange(r, Change({m}, {}, group[r].epoch + 1))

RemoveMember(r) == \E m \in Members : CommitChange(r, Change({}, {m}, group[r].epoch + 1))

-----------------------------------------------------------------------------
(* Commits of others.                                                      *)

Deliver_StaleAccepted(r, c) ==
    /\ IF c.epoch <= group[r].epoch + 1 /\ c.supported
       THEN /\ group' = [group EXCEPT ![r] = Applied(@, c)]
            /\ applied' = [applied EXCEPT ![r] = Append(@, c)]
            /\ refused' = [refused EXCEPT ![r] = FALSE]
       ELSE /\ group' = [group EXCEPT ![r] = Refused(@, c)]
            /\ refused' = [refused EXCEPT ![r] = TRUE]
            /\ UNCHANGED applied
    /\ UNCHANGED net

(* apply_commit.                                                           *)
Deliver(r, c) ==
    /\ IF Accepts(group[r], c)
       THEN /\ group' = [group EXCEPT ![r] = Applied(@, c)]
            /\ applied' = [applied EXCEPT ![r] = Append(@, c)]
            /\ refused' = [refused EXCEPT ![r] = FALSE]
       ELSE /\ group' = [group EXCEPT ![r] = Refused(@, c)]
            /\ refused' = [refused EXCEPT ![r] = TRUE]
            /\ UNCHANGED applied
    /\ UNCHANGED net

(* The missing commits, once sorted, are exactly those of the gap.         *)
Contiguous(g, target, missing) ==
    /\ {c.epoch : c \in missing} = (g.epoch + 1) .. (target.epoch - 1)
    /\ Cardinality(missing) = target.epoch - g.epoch - 1

(* The commits in the order they are applied; n is the first epoch.        *)
Ordered(commits, n) ==
    [i \in 1 .. Cardinality(commits) |-> CHOOSE c \in commits : c.epoch = n + i - 1]

(* The states the loop of apply_commit_with_recovery passes through.       *)
Along(g, chain) ==
    LET state[i \in 0 .. Len(chain)] ==
            IF i = 0 THEN g ELSE Applied(state[i - 1], chain[i])
    IN  state

(* apply_commit_with_recovery across a gap.  The loop stops at the first   *)
(* commit that is refused and keeps what it has applied so far.            *)
Recover(r, target, missing) ==
    LET g == group[r]
        chain == Ordered(missing \cup {target}, g.epoch + 1)
        good == {i \in 0 .. Len(chain) : \A j \in 1 .. i : chain[j].supported}
        last == CHOOSE i \in good : \A j \in good : j <= i
    IN  /\ target.epoch > g.epoch + 1
        /\ IF Contiguous(g, target, missing)
           THEN /\ group' = [group EXCEPT
                      ![r] = IF last = Len(chain) THEN Along(g, chain)[last]
                             ELSE Refused(Along(g, chain)[last], chain[last + 1])]
                /\ applied' = [applied EXCEPT ![r] = @ \o SubSeq(chain, 1, last)]
                /\ refused' = [refused EXCEPT ![r] = last # Len(chain)]
           ELSE /\ refused' = [refused EXCEPT ![r] = TRUE]
                /\ UNCHANGED <<group, applied>>
        /\ UNCHANGED net

Next ==
    \/ \E r \in Committers : AddMember(r) \/ RemoveMember(r)
    \/ \E r \in Replicas : \E c \in net :
          \/ Deliver(r, c)
          \/ \E missing \in SUBSET (net \ {c}) : Recover(r, c, missing)

Spec == Init /\ [][Next]_vars

(* The transport delivers, sooner or later, the commit a replica waits     *)
(* for; that it is retried until then is the caller's recovery policy.     *)
FairSpec ==
    /\ Spec
    /\ \A r \in Replicas :
          WF_vars(\E c \in net : Accepts(group[r], c) /\ Deliver(r, c))

-----------------------------------------------------------------------------
(* What the group promises.                                                *)

GroupSet ==
    [epoch: Nat, suite: Suites, members: SUBSET Members,
     secret: Seq(Secrets \cup {Seed} \cup Nat)]

(* Groups, commits and histories have their types.                         *)
TypeOK ==
    /\ group \in [Replicas -> GroupSet]
    /\ net \subseteq CommitSet
    /\ applied \in [Replicas -> Seq(CommitSet)]
    /\ refused \in [Replicas -> BOOLEAN]

(* However commits are reordered, repeated or recovered, the commits a     *)
(* replica has applied carry the epochs 1, 2, ... without gap or repeat,   *)
(* and its epoch is their number (apply_commit, apply_commit_with_recovery). *)
AppliedInOrder ==
    \A r \in Replicas :
        /\ Len(applied[r]) = group[r].epoch
        /\ \A n \in DOMAIN applied[r] : applied[r][n].epoch = n

(* The group is a function of the commits applied to it: two replicas with *)
(* the same history have the same members and the same secret, whether     *)
(* they applied one by one or recovered, and whatever was refused between. *)
SameHistorySameSecret ==
    \A r, q \in Replicas :
        applied[r] = applied[q] =>
            group[r].members = group[q].members /\ group[r].secret = group[q].secret

(* An epoch one replica has reached is reached by every replica in the     *)
(* end, through forks, refused commits and recoveries that stop half way:  *)
(* no replica is ever stuck in a state in which nothing fits.              *)
CommitsReachAll ==
    \A e \in 1 .. MaxEpoch :
        (\E r \in Replicas : group[r].epoch >= e)
            ~> (\A r \in Replicas : group[r].epoch >= e)

(* "Malformed recovery sequences must be rejected explicitly and keep      *)
(* local epoch unchanged": a call that returns an error leaves the epoch   *)
(* of the replica as it was.                                               *)
RejectionKeepsEpoch ==
    [][\A r \in Replicas : group[r].epoch # group'[r].epoch => ~refused'[r]]_vars
=============================================================================
