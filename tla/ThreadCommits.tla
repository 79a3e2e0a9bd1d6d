---------------------------- MODULE ThreadCommits ----------------------------
(***************************************************************************)
(* The copies of one thread that its members' clients keep (spex-client    *)
(* lib.rs): membership commits applied by apply_thread_commit_with_events, *)
(* messages sealed by encrypt_and_chunk_message and opened by              *)
(* decrypt_thread_envelope.                                                *)
(*                                                                         *)
(* A client stores no group: rebuild_thread_group makes one each time by   *)
(* adding the stored members, one commit each, to a group created from the *)
(* initial secret.  The epoch of the rebuilt group is the number of stored *)
(* members, and its secret is a function of the initial secret, which all  *)
(* copies share, and of that number.                                       *)
(*                                                                         *)
(* Commits have consecutive epochs, as one committer issues them, and      *)
(* reach a client in any order, late, repeatedly or never (external).      *)
(***************************************************************************)
EXTENDS Integers, FiniteSets, Sequences, Functions

CONSTANTS
    Clients,        \* members the thread is created with
    Guests,         \* members that commits add
    MaxCommits,     \* bounds of the model: commits issued,
    MaxSeq,         \* messages sent by a client
    MaxApplied      \* and commits applied by a client

Members == Clients \cup Guests

ASSUME ThreadAssumption ==
    IsFiniteSet(Clients) /\ {MaxCommits, MaxSeq, MaxApplied} \subseteq Nat

VARIABLES
    issued,     \* commits of the committer's group, in order
    thread,     \* thread[c] = [members, epoch, next_seq]
    applied,    \* history: applied[c] = indices of issued commits, in order
    envelopes   \* messages sent: [sender, epoch, seq, secret]

vars == <<issued, thread, applied, envelopes>>

-----------------------------------------------------------------------------
(* rebuild_thread_group.                                                   *)
GroupEpoch(members) == Len(members)
GroupSecret(members) == GroupEpoch(members)

(* create_thread_state: every copy starts from the same member list.       *)
FirstMembers == CHOOSE s \in Bijection(1 .. Cardinality(Clients), Clients) : TRUE
FirstEpoch == GroupEpoch(FirstMembers)

Init ==
    /\ issued = <<>>
    /\ thread = [c \in Clients |->
                   [members |-> FirstMembers, epoch |-> FirstEpoch, next_seq |-> 0]]
    /\ applied = [c \in Clients |-> <<>>]
    /\ envelopes = {}

(* The committer changes its group: add_member or remove_member.           *)
Issue(kind, m) ==
    /\ Len(issued) < MaxCommits
    /\ issued' = Append(issued, [epoch |-> FirstEpoch + Len(issued) + 1,
                                 added |-> IF kind = "add" THEN <<m>> ELSE <<>>,
                                 removed |-> IF kind = "remove" THEN <<m>> ELSE <<>>])
    /\ UNCHANGED <<thread, applied, envelopes>>

Added(members, m) == IF m \in Range(members) THEN members ELSE Append(members, m)

Removed(members, m) ==
    IF m \in Range(members)
    THEN LET n == CHOOSE n \in DOMAIN members :
                     members[n] = m /\ \A k \in 1 .. n - 1 : members[k] # m
         IN  SubSeq(members, 1, n - 1) \o SubSeq(members, n + 1, Len(members))
    ELSE members

(* The two loops over the lists of a commit.                               *)
AddAll(members, list) ==
    LET after[n \in 0 .. Len(list)] ==
            IF n = 0 THEN members ELSE Added(after[n - 1], list[n])
    IN  after[Len(list)]

RemoveAll(members, list) ==
    LET after[n \in 0 .. Len(list)] ==
            IF n = 0 THEN members ELSE Removed(after[n - 1], list[n])
    IN  after[Len(list)]

(* The members after a commit: additions first, then removals.             *)
Changed(members, commit) ==
    RemoveAll(AddAll(members, commit.added), commit.removed)

(* Variants of a name each hold one mistake the properties must detect.    *)
IsNext_Later(t, commit) == commit.epoch > t.epoch

IsNext(t, commit) == commit.epoch = t.epoch + 1

ApplyCommit_EpochKept(c, k) ==
    /\ IsNext(thread[c], issued[k]) /\ Len(applied[c]) < MaxApplied
    /\ thread' = [thread EXCEPT ![c].members = Changed(@, issued[k])]
    /\ applied' = [applied EXCEPT ![c] = Append(@, k)]
    /\ UNCHANGED <<issued, envelopes>>

(* apply_thread_commit_with_events; a commit that is not next is refused   *)
(* and changes nothing.                                                    *)
ApplyCommit(c, k) ==
    /\ IsNext(thread[c], issued[k]) /\ Len(applied[c]) < MaxApplied
    /\ thread' = [thread EXCEPT
          ![c] = [members |-> Changed(@.members, issued[k]), epoch |-> issued[k].epoch,
                  next_seq |-> @.next_seq]]
    /\ applied' = [applied EXCEPT ![c] = Append(@, k)]
    /\ UNCHANGED <<issued, envelopes>>

(* The message client c would seal now.                                    *)
Sealed(c) ==
    [sender |-> c, seq |-> thread[c].next_seq,
     epoch |-> GroupEpoch(thread[c].members), secret |-> GroupSecret(thread[c].members)]

(* encrypt_and_chunk_message: the stored epoch becomes the epoch of the    *)
(* rebuilt group.                                                          *)
SendMessage(c) ==
    /\ thread[c].next_seq < MaxSeq
    /\ envelopes' = envelopes \cup {Sealed(c)}
    /\ thread' = [thread EXCEPT
          ![c] = [members |-> @.members, epoch |-> Sealed(c).epoch, next_seq |-> @.next_seq + 1]]
    /\ UNCHANGED <<issued, applied>>

Opens_StoredEpoch(t, e) == e.sender \in Range(t.members) /\ e.epoch = t.epoch

(* decrypt_thread_envelope: the sender is a member and the AEAD key of the *)
(* rebuilt group is the one that sealed the message.                       *)
Opens(t, e) == e.sender \in Range(t.members) /\ e.secret = GroupSecret(t.members)

Next ==
    \/ \E kind \in {"add", "remove"}, m \in Members : Issue(kind, m)
    \/ \E c \in Clients :
          \/ \E k \in DOMAIN issued : ApplyCommit(c, k)
          \/ SendMessage(c)

Spec == Init /\ [][Next]_vars

-----------------------------------------------------------------------------
(* The first n commits, and the member list after them.                    *)
Upto(n) == [k \in 1 .. n |-> k]
After(n) ==
    LET members[k \in 0 .. n] ==
            IF k = 0 THEN FirstMembers ELSE Changed(members[k - 1], issued[k])
    IN  members[n]

(* The stored epoch is that of a commit the client has applied or of the   *)
(* group it rebuilds.                                                      *)
TypeOK ==
    /\ \A k \in DOMAIN issued : issued[k].epoch = FirstEpoch + k
    /\ \A c \in Clients : /\ thread[c].members \in Seq(Members)
                          /\ thread[c].epoch \in {Len(thread[c].members)} \cup
                                {issued[k].epoch : k \in Range(applied[c])}
                          /\ thread[c].next_seq \in 0 .. MaxSeq
                          /\ Range(applied[c]) \subseteq DOMAIN issued
    /\ \A e \in envelopes : e.sender \in Clients /\ e.seq \in 0 .. MaxSeq - 1

(* Commits that arrive late, twice or out of order leave a client that has *)
(* sent nothing exactly where the committer was at the client's epoch: it  *)
(* has applied the first commits, each once and in order.                  *)
SilentClientsAgree ==
    \A c \in Clients :
        (\A e \in envelopes : e.sender # c)
            => /\ applied[c] = Upto(thread[c].epoch - FirstEpoch)
               /\ thread[c].members = After(thread[c].epoch - FirstEpoch)

(* "Replay old commits against newer epoch and assert explicit rejection": *)
(* no client applies a commit a second time.                               *)
CommitAppliedOnce == \A c \in Clients : IsInjective(applied[c])
=============================================================================
