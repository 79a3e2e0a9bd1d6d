------------------------- MODULE ConversationProofs -------------------------
(* Proofs about Conversation, for any number of clients, guests, commits   *)
(* and letters.                                                            *)
EXTENDS Conversation, FiniteSetTheorems, TLAPS

(* A list with one more entry determines the list and the entry.           *)
LEMMA AppendIsInjective ==
    ASSUME NEW s \in Seq(Nat), NEW e \in Nat, NEW t \in Seq(Nat), NEW f \in Nat,
           Append(s, e) = Append(t, f)
    PROVE  s = t /\ e = f
<1>1. Len(s) = Len(t) /\ Len(s) \in Nat
  <2>1. Len(Append(s, e)) = Len(s) + 1 /\ Len(Append(t, f)) = Len(t) + 1
    OBVIOUS
  <2> QED
    BY <2>1
<1>2. e = f
  <2>1. Append(s, e)[Len(s) + 1] = e /\ Append(t, f)[Len(t) + 1] = f
    OBVIOUS
  <2> QED
    BY <1>1, <2>1
<1>3. \A k \in 1 .. Len(s) : s[k] = t[k]
  <2>1. \A k \in 1 .. Len(s) : Append(s, e)[k] = s[k]
    OBVIOUS
  <2>2. \A k \in 1 .. Len(t) : Append(t, f)[k] = t[k]
    OBVIOUS
  <2> QED
    BY <1>1, <2>1, <2>2
<1>4. s = t
  <2>1. s = [k \in 1 .. Len(s) |-> s[k]] /\ t = [k \in 1 .. Len(t) |-> t[k]]
    OBVIOUS
  <2> QED
    BY <1>1, <1>3, <2>1
<1> QED
  BY <1>2, <1>4

-----------------------------------------------------------------------------
(* Inboxes.                                                                *)

(* What is stored or announced for a client lies under the hash of its     *)
(* user id.                                                                *)
AddressedInv ==
    /\ \A i \in bridge : i.inbox = Hashed(Seed(i.to))
    /\ \A g \in gossip : g.inbox = Hashed(Seed(g.to))

(* No client has the inbox of another one.                                 *)
LEMMA InboxOfOne == \A c, d : Hashed(Seed(c)) = Hashed(Seed(d)) => c = d
BY DEF Hashed, Seed

(* Items on the bridge and announcements are added by sends, also by those *)
(* that fail half way, and only go away.                                   *)
LEMMA PostSteps ==
    ASSUME [Talk]_allVars
    PROVE  /\ \A i \in bridge' : \/ i \in bridge
                                 \/ \E c \in Clients : \E to \in SUBSET Addressees(c) : i \in OnBridge(c, to)
           /\ \A g \in gossip' : \/ g \in gossip
                                 \/ \E c \in Clients : \E to \in SUBSET Addressees(c) : g \in OnTopics(c, to)
<1>1. ASSUME NEW c \in Clients, Send(c) \/ SendFails(c)
      PROVE  \E to, too \in SUBSET Addressees(c) :
                bridge' = bridge \cup OnBridge(c, to) /\ gossip' = gossip \cup OnTopics(c, too)
  <2>1. {} \in SUBSET Addressees(c) /\ Addressees(c) \in SUBSET Addressees(c)
    OBVIOUS
  <2>2. CASE Send(c)
    BY <2>1, <2>2 DEF Send
  <2>3. CASE SendFails(c)
    <3>1. OnTopics(c, {}) = {}
      BY DEF OnTopics
    <3> QED
      BY <2>1, <2>3, <3>1 DEF SendFails
  <2> QED
    BY <1>1, <2>2, <2>3
<1>2. \/ UNCHANGED post
      \/ bridge' \subseteq bridge /\ UNCHANGED gossip
      \/ \E c \in Clients : Send(c) \/ SendFails(c)
  BY DEF Talk, allVars, Commit, Rotate, Redeem, PollBridge, PollPeers, Ingest, Tick, post
<1>3. CASE UNCHANGED post
  BY <1>3 DEF post
<1>4. CASE bridge' \subseteq bridge /\ UNCHANGED gossip
  BY <1>4
<1>5. CASE \E c \in Clients : Send(c) \/ SendFails(c)
  <2>1. PICK c \in Clients : Send(c) \/ SendFails(c)
    BY <1>5
  <2>2. PICK to \in SUBSET Addressees(c), too \in SUBSET Addressees(c) :
           bridge' = bridge \cup OnBridge(c, to) /\ gossip' = gossip \cup OnTopics(c, too)
    BY <1>1, <2>1
  <2> QED
    BY <2>2
<1> QED
  BY <1>2, <1>3, <1>4, <1>5

(* Nothing is under way at first.                                          *)
LEMMA AddressedInit == StartInit => AddressedInv
BY DEF StartInit, AddressedInv

(* Every way of sending addresses by the hash.                             *)
LEMMA AddressedNext == AddressedInv /\ [Talk]_allVars => AddressedInv'
<1> SUFFICES ASSUME AddressedInv, [Talk]_allVars PROVE AddressedInv'
  OBVIOUS
<1>1. \A c \in Clients : \A to \in SUBSET Addressees(c) :
         /\ \A i \in OnBridge(c, to) : i.inbox = Hashed(Seed(i.to))
         /\ \A g \in OnTopics(c, to) : g.inbox = Hashed(Seed(g.to))
  BY DEF OnBridge, OnTopics
<1> QED
  BY <1>1, PostSteps DEF AddressedInv

(* A client that asks the bridge for the hash of its user id and the       *)
(* network for the user id finds what was published to it, and nothing     *)
(* else, however the sending commands ended.                               *)
THEOREM PollTheorem == TalkSpec => []PollFindsPublished
<1>1. AddressedInv => PollFindsPublished
  <2> SUFFICES ASSUME AddressedInv, NEW c \in Clients
               PROVE  /\ Scanned(Hashed(Seed(c))) = Waiting(c)
                      /\ Recoverable(Seed(c)) = Announced(c)
    BY DEF PollFindsPublished
  <2>1. {i \in bridge : i.inbox = Hashed(Seed(c))} = {j \in bridge : j.to = c}
    BY InboxOfOne DEF AddressedInv
  <2>2. {i \in gossip : i.inbox = Hashed(Seed(c))} = {h \in gossip : h.to = c}
    BY InboxOfOne DEF AddressedInv
  <2> QED
    BY <2>1, <2>2 DEF Scanned, Waiting, Recoverable, Announced
<1> QED
  BY <1>1, AddressedInit, AddressedNext, PTL DEF TalkSpec

-----------------------------------------------------------------------------
(* Letters.                                                                *)

(* Every client has its copy of the thread and has applied commits that    *)
(* are numbered.                                                           *)
ShapeInv ==
    /\ DOMAIN thread = Clients
    /\ applied \in [Clients -> Seq(Nat)]
    /\ \E S : issued \in Seq(S)

(* M gives the member list of every history that matters: applying the     *)
(* last commit of a history to the members before it gives the members     *)
(* after it.  Clients hold the members of their own history, and letters   *)
(* under way were sealed under the members of their basis.                 *)
Explains(M) ==
    /\ \A q \in DOMAIN M : \A p \in Seq(Nat), k \in Nat :
          q = Append(p, k) =>
              /\ p \in DOMAIN M /\ k \in DOMAIN issued
              /\ M[q] = Changed(M[p], issued[k])
    /\ \A c \in Clients : applied[c] \in DOMAIN M /\ thread[c].members = M[applied[c]]
    /\ \A l \in Out : l.basis \in DOMAIN M /\ l.envelope.secret = GroupSecret(M[l.basis])

(* The stored members are a function of the commits applied, although no   *)
(* client stores which commits it has applied.                             *)
LetterInv == \E M : Explains(M)

(* Clients start from the same members and an empty history.               *)
LEMMA LetterInit == StartInit => ShapeInv /\ LetterInv
<1> SUFFICES ASSUME StartInit PROVE ShapeInv /\ LetterInv
  OBVIOUS
<1>1. ShapeInv
  <2>1. applied \in [Clients -> Seq(Nat)]
    BY DEF StartInit, Init
  <2>2. DOMAIN thread = Clients /\ issued \in Seq({})
    BY DEF StartInit, Init
  <2> QED
    BY <2>1, <2>2 DEF ShapeInv
<1> DEFINE M == [q \in {<<>>} |-> FirstMembers]
<1>2. \A p \in Seq(Nat), k \in Nat : <<>> # Append(p, k)
  OBVIOUS
<1>3. Out = {}
  BY DEF StartInit, Out
<1>4. \A c \in Clients : applied[c] = <<>> /\ thread[c].members = FirstMembers
  BY DEF StartInit, Init
<1>5. Explains(M)
  BY <1>2, <1>3, <1>4 DEF Explains
<1> QED
  BY <1>1, <1>5 DEF LetterInv

(* Applying a commit keeps the shape and does what it says to one client.  *)
LEMMA ApplyEffect ==
    ASSUME ShapeInv, NEW c \in Clients, NEW k \in DOMAIN issued, ApplyCommit(c, k)
    PROVE  /\ ShapeInv' /\ k \in Nat
           /\ thread'[c].members = Changed(thread[c].members, issued[k])
           /\ applied'[c] = Append(applied[c], k)
           /\ \A d \in Clients \ {c} : thread'[d] = thread[d] /\ applied'[d] = applied[d]
<1>1. thread'[c].members = Changed(thread[c].members, issued[k])
  BY DEF ApplyCommit, ShapeInv
<1>2. DOMAIN thread' = Clients /\ \A d \in Clients \ {c} : thread'[d] = thread[d]
  BY DEF ApplyCommit, ShapeInv
<1>3. k \in Nat
  BY DEF ShapeInv
<1>4. /\ applied' \in [Clients -> Seq(Nat)] /\ applied'[c] = Append(applied[c], k)
      /\ \A d \in Clients \ {c} : applied'[d] = applied[d]
  BY <1>3 DEF ApplyCommit, ShapeInv
<1>5. \E S : issued' \in Seq(S)
  BY DEF ApplyCommit, ShapeInv
<1> QED
  BY <1>1, <1>2, <1>3, <1>4, <1>5 DEF ShapeInv

(* Sending keeps the members.                                              *)
LEMMA SendEffect ==
    ASSUME ShapeInv, NEW c \in Clients, SendMessage(c)
    PROVE  /\ ShapeInv' /\ UNCHANGED <<applied, issued>>
           /\ \A d \in Clients : thread'[d].members = thread[d].members
<1>1. DOMAIN thread' = Clients /\ \A d \in Clients : thread'[d].members = thread[d].members
  BY DEF SendMessage, ShapeInv
<1>2. UNCHANGED <<applied, issued>>
  BY DEF SendMessage
<1> QED
  BY <1>1, <1>2 DEF ShapeInv

(* Issuing a commit changes none that was issued.                          *)
LEMMA IssueEffect ==
    ASSUME ShapeInv, NEW kind, NEW m, Issue(kind, m)
    PROVE  /\ ShapeInv' /\ UNCHANGED <<thread, applied>>
           /\ \A k \in DOMAIN issued : k \in DOMAIN issued' /\ issued'[k] = issued[k]
<1>1. PICK S : issued \in Seq(S)
  BY DEF ShapeInv
<1>2. PICK new : issued' = Append(issued, new)
  BY DEF Issue
<1>3. issued \in Seq(S \cup {new})
  BY <1>1
<1>4. issued' \in Seq(S \cup {new})
  BY <1>2, <1>3
<1>5. \A k \in DOMAIN issued : k \in DOMAIN issued' /\ issued'[k] = issued[k]
  BY <1>2, <1>3
<1>6. UNCHANGED <<thread, applied>>
  BY DEF Issue
<1> QED
  BY <1>4, <1>5, <1>6 DEF ShapeInv

(* What is under way after a step was under way before or is what some     *)
(* client would seal.                                                      *)
LEMMA LettersOut ==
    ASSUME [Talk]_allVars
    PROVE  \A l \in Out' : l \in Out \/ \E c \in Clients : l = Letter(c)
<1>1. \A c \in Clients : \A to \in SUBSET Addressees(c) :
         /\ \A i \in OnBridge(c, to) : i.letter = Letter(c)
         /\ \A g \in OnTopics(c, to) : g.letter = Letter(c)
  BY DEF OnBridge, OnTopics
<1> QED
  BY <1>1, PostSteps DEF Out

(* A step that applies no commit leaves every history and every member     *)
(* list as it is.                                                          *)
LEMMA StillExplained ==
    ASSUME NEW M, Explains(M), [Talk]_allVars, UNCHANGED applied,
           \A c \in Clients : thread'[c].members = thread[c].members,
           \A k \in DOMAIN issued : k \in DOMAIN issued' /\ issued'[k] = issued[k]
    PROVE  Explains(M)'
<1>1. ASSUME NEW q \in DOMAIN M, NEW p \in Seq(Nat), NEW k \in Nat, q = Append(p, k)
      PROVE  p \in DOMAIN M /\ k \in DOMAIN issued' /\ M[q] = Changed(M[p], issued'[k])
  <2>1. p \in DOMAIN M /\ k \in DOMAIN issued /\ M[q] = Changed(M[p], issued[k])
    BY <1>1 DEF Explains
  <2> QED
    BY <2>1
<1>2. \A c \in Clients : applied'[c] \in DOMAIN M /\ thread'[c].members = M[applied'[c]]
  BY DEF Explains
<1>3. ASSUME NEW l \in Out'
      PROVE  l.basis \in DOMAIN M /\ l.envelope.secret = GroupSecret(M[l.basis])
  <2>1. CASE l \in Out
    BY <2>1 DEF Explains
  <2>2. ASSUME NEW c \in Clients, l = Letter(c)
        PROVE  l.basis \in DOMAIN M /\ l.envelope.secret = GroupSecret(M[l.basis])
    <3>1. l.basis = applied[c] /\ l.envelope.secret = GroupSecret(thread[c].members)
      BY <2>2 DEF Letter, Sealed
    <3>2. applied[c] \in DOMAIN M /\ thread[c].members = M[applied[c]]
      BY DEF Explains
    <3> QED
      BY <3>1, <3>2
  <2> QED
    BY <2>1, <2>2, LettersOut
<1> QED
  BY <1>1, <1>2, <1>3 DEF Explains

(* Applying a commit extends one history, and what it makes of the members *)
(* is what it makes of them wherever that history is extended so.          *)
LEMMA ApplyExplained ==
    ASSUME ShapeInv, LetterInv, NEW c \in Clients, NEW k \in DOMAIN issued, ApplyCommit(c, k),
           UNCHANGED post
    PROVE  LetterInv'
<1>1. PICK M : Explains(M)
  BY DEF LetterInv
<1>2. /\ k \in Nat
      /\ thread'[c].members = Changed(thread[c].members, issued[k])
      /\ applied'[c] = Append(applied[c], k)
      /\ \A d \in Clients \ {c} : thread'[d] = thread[d] /\ applied'[d] = applied[d]
  BY ApplyEffect
<1>3. issued' = issued /\ Out' = Out
  BY DEF ApplyCommit, post, Out
<1>4. PICK h \in Seq(Nat) : h = applied[c] /\ h \in DOMAIN M /\ thread[c].members = M[h]
  BY <1>1 DEF ShapeInv, Explains
<1>5. PICK q0 : q0 = Append(h, k)
  OBVIOUS
<1>6. CASE q0 \in DOMAIN M
  <2>1. M[q0] = Changed(M[h], issued[k])
    BY <1>1, <1>2, <1>4, <1>5, <1>6 DEF Explains
  <2>2. \A d \in Clients : applied'[d] \in DOMAIN M /\ thread'[d].members = M[applied'[d]]
    BY <1>1, <1>2, <1>4, <1>5, <1>6, <2>1 DEF Explains
  <2>3. Explains(M)'
    BY <1>1, <1>3, <2>2 DEF Explains
  <2> QED
    BY <2>3 DEF LetterInv
<1>7. CASE q0 \notin DOMAIN M
  <2>1. PICK N : N = [q \in DOMAIN M \cup {q0} |->
                        IF q = q0 THEN Changed(M[h], issued[k]) ELSE M[q]]
    OBVIOUS
  <2>2. /\ DOMAIN N = DOMAIN M \cup {q0} /\ N[q0] = Changed(M[h], issued[k])
        /\ \A q \in DOMAIN M : N[q] = M[q]
    BY <1>7, <2>1
  <2>3. ASSUME NEW q \in DOMAIN N, NEW p \in Seq(Nat), NEW j \in Nat, q = Append(p, j)
        PROVE  p \in DOMAIN N /\ j \in DOMAIN issued /\ N[q] = Changed(N[p], issued[j])
    <3>1. CASE q = q0
      <4>1. p = h /\ j = k
        <5>1. Append(p, j) = Append(h, k) /\ k \in Nat
          BY <1>2, <1>5, <2>3, <3>1
        <5> QED
          BY ONLY p \in Seq(Nat), j \in Nat, h \in Seq(Nat), <5>1, AppendIsInjective, Zenon
      <4> QED
        BY <1>4, <2>2, <3>1, <4>1
    <3>2. CASE q # q0
      <4>1. q \in DOMAIN M
        BY <2>2, <2>3, <3>2
      <4>2. p \in DOMAIN M /\ j \in DOMAIN issued /\ M[q] = Changed(M[p], issued[j])
        BY <1>1, <2>3, <4>1 DEF Explains
      <4> QED
        BY <2>2, <4>1, <4>2
    <3> QED
      BY <3>1, <3>2
  <2>4. \A d \in Clients : applied'[d] \in DOMAIN N /\ thread'[d].members = N[applied'[d]]
    <3> SUFFICES ASSUME NEW d \in Clients
                 PROVE  applied'[d] \in DOMAIN N /\ thread'[d].members = N[applied'[d]]
      OBVIOUS
    <3>1. CASE d = c
      BY <1>2, <1>4, <1>5, <2>2, <3>1
    <3>2. CASE d # c
      BY <1>1, <1>2, <2>2, <3>2 DEF Explains
    <3> QED
      BY <3>1, <3>2
  <2>5. \A l \in Out : l.basis \in DOMAIN N /\ l.envelope.secret = GroupSecret(N[l.basis])
    BY <1>1, <2>2 DEF Explains
  <2>6. Explains(N)'
    BY <1>3, <2>3, <2>4, <2>5 DEF Explains
  <2> QED
    BY <2>6 DEF LetterInv
<1> QED
  BY <1>6, <1>7

(* One step per kind of command.                                           *)
LEMMA LetterNext == ShapeInv /\ LetterInv /\ [Talk]_allVars => ShapeInv' /\ LetterInv'
<1> SUFFICES ASSUME ShapeInv, LetterInv, [Talk]_allVars PROVE ShapeInv' /\ LetterInv'
  OBVIOUS
<1>1. PICK M : Explains(M)
  BY DEF LetterInv
<1>2. CASE Commit
  <2>1. UNCHANGED post
    BY <1>2 DEF Commit, post
  <2>2. ASSUME NEW kind, NEW m, Issue(kind, m) PROVE ShapeInv' /\ LetterInv'
    <3>1. /\ ShapeInv' /\ UNCHANGED <<thread, applied>>
          /\ \A k \in DOMAIN issued : k \in DOMAIN issued' /\ issued'[k] = issued[k]
      BY <2>2, IssueEffect
    <3>2. Explains(M)'
      BY <1>1, <3>1, StillExplained
    <3> QED
      BY <3>1, <3>2 DEF LetterInv
  <2>3. ASSUME NEW c \in Clients, NEW k \in DOMAIN issued, ApplyCommit(c, k)
        PROVE  ShapeInv' /\ LetterInv'
    BY <2>1, <2>3, ApplyEffect, ApplyExplained
  <2> QED
    BY <1>2, <2>2, <2>3 DEF Commit
<1>3. ASSUME NEW c \in Clients, Send(c) PROVE ShapeInv' /\ LetterInv'
  <2>1. /\ ShapeInv' /\ UNCHANGED <<applied, issued>>
        /\ \A d \in Clients : thread'[d].members = thread[d].members
    BY <1>3, SendEffect DEF Send
  <2>2. Explains(M)'
    BY <1>1, <2>1, StillExplained
  <2> QED
    BY <2>1, <2>2 DEF LetterInv
<1>4. CASE UNCHANGED vars
  <2>1. UNCHANGED <<thread, applied, issued>>
    BY <1>4 DEF vars
  <2>2. Explains(M)'
    BY <1>1, <2>1, StillExplained
  <2> QED
    BY <2>1, <2>2 DEF LetterInv, ShapeInv
<1>5. Commit \/ (\E c \in Clients : Send(c)) \/ UNCHANGED vars
  BY DEF Talk, allVars, SendFails, Rotate, Redeem, PollBridge, PollPeers, Ingest, Tick
<1> QED
  BY <1>2, <1>3, <1>4, <1>5

(* A letter can be read by every client that has applied the commits its   *)
(* sender had applied and has the sender's key of that time, whatever      *)
(* happened in between: the stored epoch, which sends and commits move     *)
(* apart, takes no part in it.                                             *)
THEOREM LettersTheorem == TalkSpec => []LettersReadable
<1>1. LetterInv => LettersReadable
  <2> SUFFICES ASSUME LetterInv, NEW l \in Out, NEW c \in Clients,
                      applied[c] = l.basis,
                      l.envelope.sender \in Range(thread[c].members),
                      KeyOnFile(c, l.envelope.sender) = l.key
               PROVE  Readable(c, l)
    BY DEF LettersReadable
  <2>1. PICK M : Explains(M)
    BY DEF LetterInv
  <2>2. l.envelope.secret = GroupSecret(thread[c].members)
    BY <2>1 DEF Explains
  <2> QED
    BY <2>2 DEF Readable, Opens
<1> QED
  BY <1>1, LetterInit, LetterNext, PTL DEF TalkSpec

-----------------------------------------------------------------------------
(* Clients that only receive.                                              *)

(* A set of numbers has a smallest one.                                    *)
LEMMA LeastNatural ==
    ASSUME NEW S \in SUBSET Nat, S # {}
    PROVE  \E n \in S : \A m \in S : n <= m
<1> DEFINE R == {ss \in Nat \X Nat : ss[1] < ss[2]}
<1>1. IsWellFoundedOn(R, Nat)
  BY NatLessThanWellFounded DEF OpToRel
<1>2. PICK n \in S : \A m \in S : ~(<<m, n>> \in R)
  <2> HIDE DEF R
  <2> QED
    BY <1>1, WFMin
<1>3. \A m \in S : ~(m < n)
  BY <1>2
<1> QED
  BY <1>3

(* A set with 0 and all successors is the set of natural numbers.          *)
LEMMA Induction ==
    ASSUME NEW S \in SUBSET Nat, 0 \in S, \A n \in S : n + 1 \in S
    PROVE  S = Nat
<1> SUFFICES ASSUME Nat \ S # {} PROVE FALSE
  OBVIOUS
<1>1. PICK n \in Nat \ S : \A m \in Nat \ S : n <= m
  BY LeastNatural
<1>2. n - 1 \in Nat /\ ~(n <= n - 1) /\ (n - 1) + 1 = n
  BY <1>1
<1> QED
  BY <1>1, <1>2

(* The thread starts with a list of its members.                           *)
LEMMA FirstType == FirstMembers \in Seq(Clients) /\ FirstEpoch \in Nat
<1>1. PICK n \in Nat : n = Cardinality(Clients) /\ ExistsBijection(1 .. n, Clients)
  BY ThreadAssumption, FS_CardinalityType
<1>2. FirstMembers \in Bijection(1 .. n, Clients)
  BY <1>1 DEF FirstMembers, ExistsBijection
<1>3. FirstMembers \in [1 .. n -> Clients]
  BY <1>2 DEF Bijection, Injection
<1>4. FirstMembers \in Seq(Clients)
  BY <1>3
<1> QED
  BY <1>4 DEF FirstEpoch, GroupEpoch

(* The member lists a committer with these commits goes through.           *)
Replayed(commits, n) ==
    CHOOSE members : members =
        [k \in 0 .. n |-> IF k = 0 THEN FirstMembers ELSE Changed(members[k - 1], commits[k])]

(* There are such lists.                                                   *)
LEMMA ReplayedDef ==
    ASSUME NEW commits, NEW n \in Nat
    PROVE  Replayed(commits, n) =
             [k \in 0 .. n |-> IF k = 0 THEN FirstMembers
                               ELSE Changed(Replayed(commits, n)[k - 1], commits[k])]
<1> DEFINE Is(f, m) ==
             f = [k \in 0 .. m |-> IF k = 0 THEN FirstMembers ELSE Changed(f[k - 1], commits[k])]
           S == {m \in Nat : \E f : Is(f, m)}
<1>1. 0 \in S
  <2>1. Is([k \in 0 .. 0 |-> FirstMembers], 0)
    OBVIOUS
  <2> QED
    BY <2>1
<1>2. ASSUME NEW m \in S PROVE m + 1 \in S
  <2>1. PICK f : Is(f, m)
    OBVIOUS
  <2> DEFINE h == [k \in 0 .. m + 1 |-> IF k <= m THEN f[k] ELSE Changed(f[m], commits[m + 1])]
  <2>2. ASSUME NEW k \in 0 .. m + 1
        PROVE  h[k] = IF k = 0 THEN FirstMembers ELSE Changed(h[k - 1], commits[k])
    <3>1. CASE k <= m
      BY <2>1, <3>1
    <3>2. CASE k = m + 1
      BY <3>2
    <3> QED
      BY <3>1, <3>2
  <2>3. Is(h, m + 1)
    BY <2>2
  <2> HIDE DEF h
  <2>4. \E g : Is(g, m + 1)
    BY <2>3
  <2> QED
    BY <2>4
<1>3. S = Nat
  <2> HIDE DEF S
  <2>1. S \in SUBSET Nat
    BY DEF S
  <2> QED
    BY <1>1, <1>2, <2>1, Induction
<1>4. \E f : Is(f, n)
  BY <1>3
<1> QED
  BY <1>4 DEF Replayed

(* The first of them, and the step to each of the others.                  *)
LEMMA ReplayedStep ==
    ASSUME NEW commits, NEW n \in Nat
    PROVE  /\ Replayed(commits, n)[0] = FirstMembers
           /\ \A k \in 1 .. n :
                 Replayed(commits, n)[k] = Changed(Replayed(commits, n)[k - 1], commits[k])
<1> DEFINE f == Replayed(commits, n)
<1>1. f = [k \in 0 .. n |-> IF k = 0 THEN FirstMembers ELSE Changed(f[k - 1], commits[k])]
  BY ReplayedDef
<1> HIDE DEF f
<1>2. f[0] = FirstMembers /\ \A k \in 1 .. n : f[k] = Changed(f[k - 1], commits[k])
  BY <1>1
<1> QED
  BY <1>2 DEF f

(* Two committers whose first n commits are the same go through the same   *)
(* lists, whatever they commit later.                                      *)
LEMMA SameCommits ==
    ASSUME NEW commits, NEW others, NEW n \in Nat, NEW m \in Nat, n <= m,
           \A k \in 1 .. n : commits[k] = others[k]
    PROVE  Replayed(commits, n)[n] = Replayed(others, m)[n]
<1> DEFINE f == Replayed(commits, n)
           h == Replayed(others, m)
           S == {k \in Nat : k <= n => f[k] = h[k]}
<1>1. f[0] = FirstMembers /\ \A k \in 1 .. n : f[k] = Changed(f[k - 1], commits[k])
  BY ReplayedStep
<1>2. h[0] = FirstMembers /\ \A k \in 1 .. m : h[k] = Changed(h[k - 1], others[k])
  BY ReplayedStep
<1> HIDE DEF f, h
<1>3. 0 \in S
  BY <1>1, <1>2
<1>4. ASSUME NEW k \in S PROVE k + 1 \in S
  <2> SUFFICES ASSUME k + 1 <= n PROVE f[k + 1] = h[k + 1]
    OBVIOUS
  <2>1. k + 1 \in 1 .. n /\ k + 1 \in 1 .. m /\ (k + 1) - 1 = k /\ f[k] = h[k]
    OBVIOUS
  <2>2. f[k + 1] = Changed(f[k], commits[k + 1]) /\ h[k + 1] = Changed(h[k], others[k + 1])
    BY <1>1, <1>2, <2>1
  <2> QED
    BY <2>1, <2>2
<1>5. S = Nat
  <2> HIDE DEF S
  <2>1. S \in SUBSET Nat
    BY DEF S
  <2> QED
    BY <1>3, <1>4, <2>1, Induction
<1> QED
  BY <1>5 DEF f, h

(* The list after the next commit.                                         *)
LEMMA ReplayedNext ==
    ASSUME NEW commits, NEW n \in Nat
    PROVE  Replayed(commits, n + 1)[n + 1] = Changed(Replayed(commits, n)[n], commits[n + 1])
<1>1. n + 1 \in 1 .. n + 1 /\ (n + 1) - 1 = n /\ n + 1 \in Nat /\ n <= n + 1
  OBVIOUS
<1>2. Replayed(commits, n + 1)[n + 1] = Changed(Replayed(commits, n + 1)[n], commits[n + 1])
  BY <1>1, ReplayedStep
<1>3. Replayed(commits, n)[n] = Replayed(commits, n + 1)[n]
  BY <1>1, SameCommits
<1> QED
  BY <1>2, <1>3

(* The committer's lists are those.                                        *)
LEMMA AfterIs == \A n : After(n) = Replayed(issued, n)[n]
BY DEF After, Replayed

(* Client c has applied the first n commits, and nothing else has changed  *)
(* its copy.                                                               *)
Follows(c, n) ==
    /\ thread[c].epoch = FirstEpoch + n
    /\ applied[c] = Upto(n)
    /\ thread[c].members = Replayed(issued, n)[n]

Silent(c) == \A e \in envelopes : e.sender # c

(* The committer numbers its commits, and a client that has sent nothing   *)
(* has followed it up to some commit.                                      *)
SilentInv ==
    /\ \A k \in DOMAIN issued : issued[k].epoch = FirstEpoch + k
    /\ \A c \in Clients : Silent(c) => \E n \in 0 .. Len(issued) : Follows(c, n)

(* Nobody has sent or applied anything at first.                           *)
LEMMA SilentInit == StartInit => SilentInv
<1> SUFFICES ASSUME StartInit PROVE SilentInv
  OBVIOUS
<1>1. issued = <<>> /\ applied = [c \in Clients |-> <<>>]
      /\ thread = [c \in Clients |-> [members |-> FirstMembers, epoch |-> FirstEpoch, next_seq |-> 0]]
  BY DEF StartInit, Init
<1>2. Upto(0) = <<>> /\ Replayed(issued, 0)[0] = FirstMembers /\ FirstEpoch + 0 = FirstEpoch
  BY ReplayedStep, FirstType DEF Upto
<1>3. \A c \in Clients : Follows(c, 0)
  BY <1>1, <1>2 DEF Follows
<1>4. 0 \in 0 .. Len(issued) /\ DOMAIN issued = {}
  BY <1>1
<1> QED
  BY <1>3, <1>4 DEF SilentInv

(* A commit that is issued comes after those the clients follow.           *)
LEMMA SilentIssue ==
    ASSUME ShapeInv, SilentInv, NEW kind, NEW m, Issue(kind, m)
    PROVE  SilentInv'
<1>1. PICK S : issued \in Seq(S)
  BY DEF ShapeInv
<1>2. PICK new : issued' = Append(issued, new) /\ new.epoch = FirstEpoch + Len(issued) + 1
  BY DEF Issue
<1>3. UNCHANGED <<thread, applied, envelopes>>
  BY DEF Issue
<1>4. issued \in Seq(S \cup {new}) /\ new \in S \cup {new}
  BY <1>1
<1>5. /\ Len(issued) \in Nat /\ Len(issued') = Len(issued) + 1
      /\ DOMAIN issued = 1 .. Len(issued) /\ DOMAIN issued' = 1 .. Len(issued) + 1
      /\ \A k \in 1 .. Len(issued) : issued'[k] = issued[k]
      /\ issued'[Len(issued) + 1] = new
  BY <1>2, <1>4
<1>6. \A k \in DOMAIN issued' : issued'[k].epoch = FirstEpoch + k
  <2> SUFFICES ASSUME NEW k \in 1 .. Len(issued) + 1 PROVE issued'[k].epoch = FirstEpoch + k
    BY <1>5
  <2>1. CASE k <= Len(issued)
    BY <1>5, <2>1 DEF SilentInv
  <2>2. CASE ~(k <= Len(issued))
    <3>1. k = Len(issued) + 1
      BY <1>5, <2>2
    <3> QED
      BY <1>2, <1>5, <3>1, FirstType
  <2> QED
    BY <2>1, <2>2
<1>7. ASSUME NEW c \in Clients, Silent(c)' PROVE \E n \in 0 .. Len(issued') : Follows(c, n)'
  <2>1. Silent(c)
    BY <1>3, <1>7 DEF Silent
  <2>2. PICK n \in 0 .. Len(issued) : Follows(c, n)
    BY <2>1 DEF SilentInv
  <2>3. n \in Nat /\ n \in 0 .. Len(issued') /\ \A k \in 1 .. n : issued[k] = issued'[k]
    BY <1>5
  <2>4. Replayed(issued, n)[n] = Replayed(issued', n)[n]
    BY <2>3, SameCommits
  <2>5. Follows(c, n)'
    BY <1>3, <2>2, <2>4 DEF Follows
  <2> QED
    BY <2>3, <2>5
<1> QED
  BY <1>6, <1>7 DEF SilentInv

(* The next commit of a client that follows is the one after those it has. *)
LEMMA SilentApply ==
    ASSUME ShapeInv, SilentInv, NEW c \in Clients, NEW k \in DOMAIN issued, ApplyCommit(c, k)
    PROVE  SilentInv'
<1>1. issued' = issued /\ envelopes' = envelopes
  BY DEF ApplyCommit
<1>2. /\ k \in Nat /\ applied'[c] = Append(applied[c], k)
      /\ thread'[c].members = Changed(thread[c].members, issued[k])
      /\ \A d \in Clients \ {c} : thread'[d] = thread[d] /\ applied'[d] = applied[d]
  BY ApplyEffect
<1>3. thread'[c].epoch = issued[k].epoch /\ issued[k].epoch = thread[c].epoch + 1
  BY DEF ApplyCommit, IsNext, ShapeInv
<1>4. issued[k].epoch = FirstEpoch + k /\ k <= Len(issued) /\ Len(issued) \in Nat
  BY DEF SilentInv, ShapeInv
<1>5. ASSUME NEW d \in Clients, Silent(d)' PROVE \E n \in 0 .. Len(issued') : Follows(d, n)'
  <2>1. Silent(d)
    BY <1>1, <1>5 DEF Silent
  <2>2. PICK n \in 0 .. Len(issued) : Follows(d, n)
    BY <2>1 DEF SilentInv
  <2>3. CASE d # c
    <3>1. Follows(d, n)'
      BY <1>1, <1>2, <2>2, <2>3 DEF Follows
    <3> QED
      BY <1>1, <3>1
  <2>4. CASE d = c
    <3>1. n \in Nat /\ k = n + 1 /\ k \in 0 .. Len(issued')
      <4>1. FirstEpoch + k = (FirstEpoch + n) + 1
        BY <1>3, <1>4, <2>2, <2>4 DEF Follows
      <4> QED
        BY <1>1, <1>2, <1>4, <4>1, FirstType
    <3>2. Append(Upto(n), n + 1) = Upto(n + 1)
      BY <3>1 DEF Upto
    <3>3. Replayed(issued', k)[k] = Changed(Replayed(issued, n)[n], issued[k])
      BY <1>1, <3>1, ReplayedNext
    <3>4. Follows(c, k)'
      BY <1>2, <1>3, <1>4, <2>2, <2>4, <3>1, <3>2, <3>3 DEF Follows
    <3> QED
      BY <2>4, <3>1, <3>4
  <2> QED
    BY <2>3, <2>4
<1>6. \A j \in DOMAIN issued' : issued'[j].epoch = FirstEpoch + j
  BY <1>1 DEF SilentInv
<1> QED
  BY <1>5, <1>6 DEF SilentInv

(* A client that sends is not silent any more, the others do not notice.   *)
LEMMA SilentSend ==
    ASSUME ShapeInv, SilentInv, NEW c \in Clients, SendMessage(c)
    PROVE  SilentInv'
<1>1. /\ issued' = issued /\ applied' = applied
      /\ \A d \in Clients \ {c} : thread'[d] = thread[d]
  BY DEF SendMessage, ShapeInv
<1>2. envelopes' = envelopes \cup {Sealed(c)} /\ Sealed(c).sender = c
  BY DEF SendMessage, Sealed
<1>3. ASSUME NEW d \in Clients, Silent(d)' PROVE \E n \in 0 .. Len(issued') : Follows(d, n)'
  <2>1. Silent(d) /\ d # c
    BY <1>2, <1>3 DEF Silent
  <2>2. PICK n \in 0 .. Len(issued) : Follows(d, n)
    BY <2>1 DEF SilentInv
  <2>3. Follows(d, n)'
    BY <1>1, <2>1, <2>2 DEF Follows
  <2> QED
    BY <1>1, <2>3
<1>4. \A j \in DOMAIN issued' : issued'[j].epoch = FirstEpoch + j
  BY <1>1 DEF SilentInv
<1> QED
  BY <1>3, <1>4 DEF SilentInv

(* A client that only receives has exactly the first commits of the        *)
(* committer, each once and in order, and the members the committer had    *)
(* then, however late, often or out of order commits arrive.               *)
THEOREM SilentTheorem == TalkSpec => []SilentClientsAgree
<1>1. SilentInv /\ ShapeInv /\ [Talk]_allVars => SilentInv'
  <2> SUFFICES ASSUME SilentInv, ShapeInv, [Talk]_allVars PROVE SilentInv'
    OBVIOUS
  <2>1. CASE Commit
    BY <2>1, SilentIssue, SilentApply DEF Commit
  <2>2. ASSUME NEW c \in Clients, Send(c) PROVE SilentInv'
    BY <2>2, SilentSend DEF Send
  <2>3. CASE UNCHANGED vars
    BY <2>3 DEF vars, SilentInv, Silent, Follows
  <2>4. Commit \/ (\E c \in Clients : Send(c)) \/ UNCHANGED vars
    BY DEF Talk, allVars, SendFails, Rotate, Redeem, PollBridge, PollPeers, Ingest, Tick
  <2> QED
    BY <2>1, <2>2, <2>3, <2>4
<1>2. SilentInv => SilentClientsAgree
  <2> SUFFICES ASSUME SilentInv, NEW c \in Clients, Silent(c)
               PROVE  /\ applied[c] = Upto(thread[c].epoch - FirstEpoch)
                      /\ thread[c].members = After(thread[c].epoch - FirstEpoch)
    BY DEF SilentClientsAgree, Silent
  <2>1. PICK n \in 0 .. Len(issued) : Follows(c, n)
    BY DEF SilentInv
  <2>2. thread[c].epoch - FirstEpoch = n
    BY <2>1, FirstType DEF Follows
  <2> QED
    BY <2>1, <2>2, AfterIs DEF Follows
<1> QED
  BY <1>1, <1>2, SilentInit, LetterInit, LetterNext, PTL DEF TalkSpec

-----------------------------------------------------------------------------
(* Types.                                                                  *)

(* The first loop over a list of no or one member.                        *)
LEMMA AddedFold ==
    ASSUME NEW members, NEW m
    PROVE  /\ AddAll(members, <<>>) = members
           /\ AddAll(members, <<m>>) = Added(members, m)
<1>1. AddAll(members, <<>>) = members
  <2> DEFINE Is(f) == f = [n \in 0 .. 0 |-> IF n = 0 THEN members ELSE Added(f[n - 1], <<>>[n])]
  <2>1. AddAll(members, <<>>) = (CHOOSE f : Is(f))[0]
    BY DEF AddAll
  <2>2. Is([n \in 0 .. 0 |-> members])
    OBVIOUS
  <2>3. PICK f : Is(f) /\ AddAll(members, <<>>) = f[0]
    BY <2>1, <2>2
  <2> QED
    BY <2>3
<1>2. AddAll(members, <<m>>) = Added(members, m)
  <2> DEFINE Is(f) == f = [n \in 0 .. 1 |-> IF n = 0 THEN members ELSE Added(f[n - 1], <<m>>[n])]
  <2>1. AddAll(members, <<m>>) = (CHOOSE f : Is(f))[1]
    BY DEF AddAll
  <2>2. Is([n \in 0 .. 1 |-> IF n = 0 THEN members ELSE Added(members, m)])
    OBVIOUS
  <2>3. PICK f : Is(f) /\ AddAll(members, <<m>>) = f[1]
    BY <2>1, <2>2
  <2>4. f[0] = members /\ f[1] = Added(f[0], m)
    BY <2>3
  <2> QED
    BY <2>3, <2>4
<1> QED
  BY <1>1, <1>2

(* The second loop over a list of no or one member.                        *)
LEMMA RemovedFold ==
    ASSUME NEW members, NEW m
    PROVE  /\ RemoveAll(members, <<>>) = members
           /\ RemoveAll(members, <<m>>) = Removed(members, m)
<1>1. RemoveAll(members, <<>>) = members
  <2> DEFINE Is(f) == f = [n \in 0 .. 0 |-> IF n = 0 THEN members ELSE Removed(f[n - 1], <<>>[n])]
  <2>1. RemoveAll(members, <<>>) = (CHOOSE f : Is(f))[0]
    BY DEF RemoveAll
  <2>2. Is([n \in 0 .. 0 |-> members])
    OBVIOUS
  <2>3. PICK f : Is(f) /\ RemoveAll(members, <<>>) = f[0]
    BY <2>1, <2>2
  <2> QED
    BY <2>3
<1>2. RemoveAll(members, <<m>>) = Removed(members, m)
  <2> DEFINE Is(f) == f = [n \in 0 .. 1 |-> IF n = 0 THEN members ELSE Removed(f[n - 1], <<m>>[n])]
  <2>1. RemoveAll(members, <<m>>) = (CHOOSE f : Is(f))[1]
    BY DEF RemoveAll
  <2>2. Is([n \in 0 .. 1 |-> IF n = 0 THEN members ELSE Removed(members, m)])
    OBVIOUS
  <2>3. PICK f : Is(f) /\ RemoveAll(members, <<m>>) = f[1]
    BY <2>1, <2>2
  <2>4. f[0] = members /\ f[1] = Removed(f[0], m)
    BY <2>3
  <2> QED
    BY <2>3, <2>4
<1> QED
  BY <1>1, <1>2

(* Adding and removing a member gives a list of members.                   *)
LEMMA ListTypes ==
    ASSUME NEW members \in Seq(Members), NEW m \in Members
    PROVE  Added(members, m) \in Seq(Members) /\ Removed(members, m) \in Seq(Members)
<1>1. Added(members, m) \in Seq(Members)
  BY DEF Added
<1>2. CASE m \in Range(members)
  <2> DEFINE S == {n \in DOMAIN members : members[n] = m}
             First(n) == members[n] = m /\ \A k \in 1 .. n - 1 : members[k] # m
  <2>1. DOMAIN members = 1 .. Len(members) /\ Len(members) \in Nat
    OBVIOUS
  <2>2. S # {} /\ S \in SUBSET Nat
    BY <1>2, <2>1 DEF Range
  <2>3. PICK n \in S : \A k \in S : n <= k
    BY <2>2, LeastNatural
  <2>4. n \in DOMAIN members /\ First(n)
    BY <2>1, <2>3
  <2>5. PICK i \in DOMAIN members : i = CHOOSE k \in DOMAIN members : First(k)
    BY <2>4
  <2>6. Removed(members, m) = SubSeq(members, 1, i - 1) \o SubSeq(members, i + 1, Len(members))
    BY <1>2, <2>5 DEF Removed
  <2>7. /\ SubSeq(members, 1, i - 1) \in Seq(Members)
        /\ SubSeq(members, i + 1, Len(members)) \in Seq(Members)
    BY <2>1
  <2> QED
    BY <1>1, <2>6, <2>7
<1>3. CASE m \notin Range(members)
  BY <1>1, <1>3 DEF Removed
<1> QED
  BY <1>2, <1>3

(* What a commit carries: no or one member in each of its lists.           *)
CommitType(commit) ==
    /\ commit.added = <<>> \/ \E m \in Members : commit.added = <<m>>
    /\ commit.removed = <<>> \/ \E m \in Members : commit.removed = <<m>>

(* A commit turns a list of members into one.                              *)
LEMMA ChangedType ==
    ASSUME NEW members \in Seq(Members), NEW commit, CommitType(commit)
    PROVE  Changed(members, commit) \in Seq(Members)
<1>1. Changed(members, commit) = RemoveAll(AddAll(members, commit.added), commit.removed)
  BY DEF Changed
<1>2. AddAll(members, commit.added) \in Seq(Members)
  <2>1. CASE commit.added = <<>>
    BY <2>1, AddedFold
  <2>2. ASSUME NEW m \in Members, commit.added = <<m>>
        PROVE  AddAll(members, commit.added) \in Seq(Members)
    BY <2>2, AddedFold, ListTypes
  <2> QED
    BY <2>1, <2>2 DEF CommitType
<1>3. PICK ms \in Seq(Members) : ms = AddAll(members, commit.added)
  BY <1>2
<1>4. RemoveAll(ms, commit.removed) \in Seq(Members)
  <2>1. CASE commit.removed = <<>>
    BY <2>1, RemovedFold
  <2>2. ASSUME NEW m \in Members, commit.removed = <<m>>
        PROVE  RemoveAll(ms, commit.removed) \in Seq(Members)
    BY <2>2, RemovedFold, ListTypes
  <2> QED
    BY <2>1, <2>2 DEF CommitType
<1> QED
  BY <1>1, <1>3, <1>4

(* Copies of the thread, and the commits issued.                           *)
ThreadTypes ==
    /\ ShapeInv /\ TypeOK
    /\ \A k \in DOMAIN issued : CommitType(issued[k])

(* What holds for one client's copy; applied is what it has applied.       *)
CopyType(t, done) ==
    /\ t.members \in Seq(Members)
    /\ t.epoch \in {Len(t.members)} \cup {issued[k].epoch : k \in Range(done)}
    /\ t.next_seq \in 0 .. MaxSeq
    /\ Range(done) \subseteq DOMAIN issued

(* Issuing a commit.                                                       *)
LEMMA IssueTypes ==
    ASSUME ThreadTypes, NEW kind, NEW m \in Members, Issue(kind, m)
    PROVE  ThreadTypes' /\ DOMAIN issued \subseteq DOMAIN issued'
<1>1. PICK S : issued \in Seq(S)
  BY DEF ThreadTypes, ShapeInv
<1>2. PICK new : /\ issued' = Append(issued, new) /\ new.epoch = FirstEpoch + Len(issued) + 1
                 /\ CommitType(new)
  <2> DEFINE new == [epoch |-> FirstEpoch + Len(issued) + 1,
                     added |-> IF kind = "add" THEN <<m>> ELSE <<>>,
                     removed |-> IF kind = "remove" THEN <<m>> ELSE <<>>]
  <2>1. issued' = Append(issued, new)
    BY DEF Issue
  <2>2. new.epoch = FirstEpoch + Len(issued) + 1 /\ CommitType(new)
    BY DEF CommitType
  <2> HIDE DEF new
  <2> QED
    BY <2>1, <2>2
<1>3. UNCHANGED <<thread, applied, envelopes>> /\ ShapeInv'
  BY IssueEffect DEF Issue, ThreadTypes
<1>4. issued \in Seq(S \cup {new}) /\ new \in S \cup {new}
  BY <1>1
<1>5. /\ Len(issued) \in Nat /\ DOMAIN issued = 1 .. Len(issued)
      /\ DOMAIN issued' = 1 .. Len(issued) + 1
      /\ \A k \in 1 .. Len(issued) : issued'[k] = issued[k]
      /\ issued'[Len(issued) + 1] = new
  BY <1>2, <1>4
<1>6. DOMAIN issued \subseteq DOMAIN issued' /\ \A k \in DOMAIN issued : issued'[k] = issued[k]
  BY <1>5
<1>7. \A k \in DOMAIN issued' : issued'[k].epoch = FirstEpoch + k /\ CommitType(issued'[k])
  <2> SUFFICES ASSUME NEW k \in 1 .. Len(issued) + 1
               PROVE  issued'[k].epoch = FirstEpoch + k /\ CommitType(issued'[k])
    BY <1>5
  <2>1. CASE k \in 1 .. Len(issued)
    BY <1>5, <2>1 DEF ThreadTypes, TypeOK
  <2>2. CASE k = Len(issued) + 1
    <3>1. FirstEpoch + Len(issued) + 1 = FirstEpoch + k
      BY <1>5, <2>2, FirstType
    <3> QED
      BY <1>2, <1>5, <2>2, <3>1
  <2> QED
    BY <1>5, <2>1, <2>2
<1>8. ASSUME NEW c \in Clients PROVE CopyType(thread[c], applied[c])'
  <2>1. CopyType(thread[c], applied[c])
    BY DEF ThreadTypes, TypeOK, CopyType
  <2>2. \A k \in Range(applied[c]) : issued'[k].epoch = issued[k].epoch
    BY <1>6, <2>1 DEF CopyType
  <2>3. {issued'[k].epoch : k \in Range(applied[c])} = {issued[k].epoch : k \in Range(applied[c])}
    BY <2>2
  <2>4. thread'[c] = thread[c] /\ applied'[c] = applied[c]
    BY <1>3
  <2> QED
    BY <1>6, <2>1, <2>3, <2>4 DEF CopyType
<1>9. \A e \in envelopes' : e.sender \in Clients /\ e.seq \in 0 .. MaxSeq - 1
  BY <1>3 DEF ThreadTypes, TypeOK
<1>10. TypeOK'
  BY <1>7, <1>8, <1>9 DEF TypeOK, CopyType
<1> QED
  BY <1>3, <1>6, <1>7, <1>10 DEF ThreadTypes

(* A copy nobody touches keeps its type.                                   *)
LEMMA CopyKept ==
    ASSUME ThreadTypes, NEW d \in Clients, issued' = issued,
           thread'[d] = thread[d], applied'[d] = applied[d]
    PROVE  CopyType(thread[d], applied[d])'
<1>1. CopyType(thread[d], applied[d])
  BY DEF ThreadTypes, TypeOK, CopyType
<1> QED
  BY <1>1 DEF CopyType

(* The elements of a list with one more at its end.                        *)
LEMMA RangeAppend ==
    ASSUME NEW S, NEW s \in Seq(S), NEW x \in S
    PROVE  Range(Append(s, x)) = Range(s) \cup {x}
<1> DEFINE q == Append(s, x)
<1>1. /\ Len(s) \in Nat /\ DOMAIN s = 1 .. Len(s) /\ DOMAIN q = 1 .. Len(s) + 1
      /\ q[Len(s) + 1] = x /\ \A i \in 1 .. Len(s) : q[i] = s[i]
  OBVIOUS
<1> HIDE DEF q
<1>2. ASSUME NEW i \in DOMAIN q PROVE q[i] \in Range(s) \cup {x}
  <2>1. i \in DOMAIN s \/ i = Len(s) + 1
    BY <1>1
  <2> QED
    BY <1>1, <2>1 DEF Range
<1>3. \A i \in DOMAIN s : i \in DOMAIN q /\ q[i] = s[i]
  BY <1>1
<1>4. Len(s) + 1 \in DOMAIN q /\ q[Len(s) + 1] = x
  BY <1>1
<1>5. Range(q) = Range(s) \cup {x}
  BY <1>2, <1>3, <1>4 DEF Range
<1> QED
  BY <1>5 DEF q

(* Applying a commit.                                                      *)
LEMMA ApplyTypes ==
    ASSUME ThreadTypes, NEW c \in Clients, NEW k \in DOMAIN issued, ApplyCommit(c, k)
    PROVE  ThreadTypes'
<1>1. issued' = issued /\ envelopes' = envelopes
  BY DEF ApplyCommit
<1>2. /\ ShapeInv' /\ k \in Nat /\ applied'[c] = Append(applied[c], k)
      /\ \A d \in Clients \ {c} : thread'[d] = thread[d] /\ applied'[d] = applied[d]
  BY ApplyEffect DEF ThreadTypes
<1>3. thread'[c] = [members |-> Changed(thread[c].members, issued[k]), epoch |-> issued[k].epoch,
                    next_seq |-> thread[c].next_seq]
  BY DEF ApplyCommit, ThreadTypes, ShapeInv
<1>4. /\ applied[c] \in Seq(Nat) /\ CopyType(thread[c], applied[c]) /\ CommitType(issued[k])
  BY DEF ThreadTypes, ShapeInv, TypeOK, CopyType
<1>5. Range(Append(applied[c], k)) = Range(applied[c]) \cup {k}
  BY <1>2, <1>4, RangeAppend
<1>6. Changed(thread[c].members, issued[k]) \in Seq(Members)
  BY <1>4, ChangedType DEF CopyType
<1>7. CopyType(thread[c], applied[c])'
  <2>1. thread'[c].members \in Seq(Members) /\ thread'[c].next_seq \in 0 .. MaxSeq
    BY <1>3, <1>4, <1>6 DEF CopyType
  <2>2. k \in Range(applied'[c]) /\ thread'[c].epoch = issued'[k].epoch
    BY <1>1, <1>2, <1>3, <1>5
  <2>3. Range(applied'[c]) \subseteq DOMAIN issued'
    <3>1. Range(applied[c]) \subseteq DOMAIN issued
      BY <1>4 DEF CopyType
    <3>2. k \in DOMAIN issued /\ Range(applied'[c]) = Range(applied[c]) \cup {k}
      BY <1>2, <1>5
    <3> QED
      BY <1>1, <3>1, <3>2
  <2> QED
    BY <2>1, <2>2, <2>3 DEF CopyType
<1>8. ASSUME NEW d \in Clients \ {c} PROVE CopyType(thread[d], applied[d])'
  BY <1>1, <1>2, CopyKept
<1>9. TypeOK'
  <2>1. \A j \in DOMAIN issued' : issued'[j].epoch = FirstEpoch + j
    BY <1>1 DEF ThreadTypes, TypeOK
  <2>2. \A e \in envelopes' : e.sender \in Clients /\ e.seq \in 0 .. MaxSeq - 1
    BY <1>1 DEF ThreadTypes, TypeOK
  <2> QED
    BY <1>7, <1>8, <2>1, <2>2 DEF TypeOK, CopyType
<1> QED
  BY <1>1, <1>2, <1>9 DEF ThreadTypes

(* Sending a message.                                                      *)
LEMMA SendTypes ==
    ASSUME ThreadTypes, NEW c \in Clients, SendMessage(c)
    PROVE  ThreadTypes'
<1>1. issued' = issued /\ applied' = applied /\ envelopes' = envelopes \cup {Sealed(c)}
  BY DEF SendMessage
<1>2. ShapeInv' /\ \A d \in Clients \ {c} : thread'[d] = thread[d]
  BY SendEffect DEF ThreadTypes, SendMessage, ShapeInv
<1>3. /\ thread'[c] = [members |-> thread[c].members, epoch |-> Len(thread[c].members),
                       next_seq |-> thread[c].next_seq + 1]
      /\ thread[c].next_seq < MaxSeq
  BY DEF SendMessage, Sealed, GroupEpoch, ThreadTypes, ShapeInv
<1>4. CopyType(thread[c], applied[c]) /\ MaxSeq \in Nat
  BY ThreadAssumption DEF ThreadTypes, TypeOK, CopyType
<1>5. CopyType(thread[c], applied[c])'
  <2>1. /\ thread'[c].members = thread[c].members
        /\ thread'[c].epoch = Len(thread'[c].members)
        /\ thread'[c].next_seq = thread[c].next_seq + 1
    BY <1>3
  <2>2. thread'[c].next_seq \in 0 .. MaxSeq
    BY <1>3, <1>4, <2>1 DEF CopyType
  <2>3. thread'[c].members \in Seq(Members) /\ Range(applied'[c]) \subseteq DOMAIN issued'
    BY <1>1, <1>4, <2>1 DEF CopyType
  <2> QED
    BY <2>1, <2>2, <2>3 DEF CopyType
<1>6. ASSUME NEW d \in Clients \ {c} PROVE CopyType(thread[d], applied[d])'
  BY <1>1, <1>2, CopyKept
<1>7. Sealed(c).sender = c /\ Sealed(c).seq \in 0 .. MaxSeq - 1
  <2>1. thread[c].next_seq \in 0 .. MaxSeq - 1
    BY <1>3, <1>4 DEF CopyType
  <2> QED
    BY <2>1 DEF Sealed
<1>8. TypeOK'
  <2>1. \A j \in DOMAIN issued' : issued'[j].epoch = FirstEpoch + j
    BY <1>1 DEF ThreadTypes, TypeOK
  <2>2. \A e \in envelopes' : e.sender \in Clients /\ e.seq \in 0 .. MaxSeq - 1
    BY <1>1, <1>7 DEF ThreadTypes, TypeOK
  <2> QED
    BY <1>5, <1>6, <2>1, <2>2 DEF TypeOK, CopyType
<1> QED
  BY <1>1, <1>2, <1>8 DEF ThreadTypes

(* The whole conversation.                                                 *)
TypesInv ==
    /\ ThreadTypes /\ TalkTypeOK
    /\ DOMAIN contacts = Clients /\ \A c \in Clients : DOMAIN contacts[c] = Clients \ {c}
    /\ DOMAIN received = Clients

(* What the thread's own steps change of it.                               *)
LEMMA ThreadStep ==
    ASSUME ThreadTypes, [Talk]_allVars
    PROVE  ThreadTypes' /\ DOMAIN issued \subseteq DOMAIN issued'
<1>1. CASE Commit
  <2>1. ASSUME NEW c \in Clients, NEW k \in DOMAIN issued, ApplyCommit(c, k)
        PROVE  ThreadTypes' /\ DOMAIN issued \subseteq DOMAIN issued'
    BY <2>1, ApplyTypes DEF ApplyCommit
  <2> QED
    BY <1>1, <2>1, IssueTypes DEF Commit
<1>2. ASSUME NEW c \in Clients, Send(c)
      PROVE  ThreadTypes' /\ DOMAIN issued \subseteq DOMAIN issued'
  BY <1>2, SendTypes DEF Send, SendMessage
<1>3. CASE UNCHANGED vars
  BY <1>3 DEF vars, ThreadTypes, ShapeInv, TypeOK
<1>4. Commit \/ (\E c \in Clients : Send(c)) \/ UNCHANGED vars
  BY DEF Talk, allVars, SendFails, Rotate, Redeem, PollBridge, PollPeers, Ingest, Tick
<1> QED
  BY <1>1, <1>2, <1>3, <1>4

(* A letter keeps its type, and what a client would seal has it.           *)
LEMMA LetterTypes ==
    ASSUME TypesInv, [Talk]_allVars
    PROVE  /\ \A l : LetterSet(l) => LetterSet(l)'
           /\ \A c \in Clients : LetterSet(Letter(c))
<1>1. \A l : LetterSet(l) => LetterSet(l)'
  BY ThreadStep DEF TypesInv, LetterSet
<1>2. ASSUME NEW c \in Clients PROVE LetterSet(Letter(c))
  <2>1. key[c] \in 1 .. MaxKeys /\ Range(applied[c]) \subseteq DOMAIN issued
    BY DEF TypesInv, TalkTypeOK, TypeOK
  <2> QED
    BY <2>1 DEF LetterSet, Letter, Sealed
<1> QED
  BY <1>1, <1>2

(* Letters under way and recorded keep their types, and what waits on the  *)
(* bridge has not expired.                                                 *)
LEMMA PostTypes ==
    ASSUME TypesInv, [Talk]_allVars
    PROVE  /\ \A i \in bridge' : LetterSet(i.letter)' /\ i.expires_at > clock'
           /\ \A g \in gossip' : LetterSet(g.letter)'
           /\ DOMAIN received' = Clients
           /\ \A c \in Clients : \A l \in received'[c] : LetterSet(l)'
           /\ clock' \in 0 .. MaxTime
<1>1. /\ clock \in 0 .. MaxTime /\ MaxTime \in Nat /\ Ttl \in Nat \ {0} /\ clock \in Nat
      /\ \A i \in bridge : LetterSet(i.letter) /\ i.expires_at > clock
      /\ \A g \in gossip : LetterSet(g.letter)
      /\ DOMAIN received = Clients
      /\ \A c \in Clients : \A l \in received[c] : LetterSet(l)
  BY ConversationAssumption DEF TypesInv, TalkTypeOK
<1>2. \A c \in Clients : \A to \in SUBSET Addressees(c) :
         /\ \A i \in OnBridge(c, to) : i.letter = Letter(c) /\ i.expires_at = clock + Ttl
         /\ \A g \in OnTopics(c, to) : g.letter = Letter(c)
  BY DEF OnBridge, OnTopics
<1>3. ASSUME NEW i \in bridge'
      PROVE  LetterSet(i.letter) /\ (i \in bridge \/ i.expires_at = clock + Ttl)
  <2>1. CASE i \in bridge
    BY <1>1, <2>1
  <2>2. ASSUME NEW c \in Clients, NEW to \in SUBSET Addressees(c), i \in OnBridge(c, to)
        PROVE  LetterSet(i.letter) /\ i.expires_at = clock + Ttl
    <3>1. i.letter = Letter(c) /\ i.expires_at = clock + Ttl
      BY <1>2, <2>2
    <3> QED
      BY <3>1, LetterTypes
  <2> QED
    BY <2>1, <2>2, PostSteps
<1>4. ASSUME NEW g \in gossip' PROVE LetterSet(g.letter)
  <2>1. CASE g \in gossip
    BY <1>1, <2>1
  <2>2. ASSUME NEW c \in Clients, NEW to \in SUBSET Addressees(c), g \in OnTopics(c, to)
        PROVE  LetterSet(g.letter)
    <3>1. g.letter = Letter(c)
      BY <1>2, <2>2
    <3> QED
      BY <3>1, LetterTypes
  <2> QED
    BY <2>1, <2>2, PostSteps
<1>5. clock' = clock \/ Tick
  BY DEF Talk, allVars, Commit, Send, SendFails, Rotate, Redeem, PollBridge, PollPeers, Ingest
<1>6. clock' \in 0 .. MaxTime /\ \A i \in bridge' : i.expires_at > clock'
  <2>1. CASE clock' = clock
    <3>1. clock + Ttl > clock
      BY <1>1
    <3> QED
      BY <1>1, <1>3, <2>1, <3>1
  <2>2. CASE Tick
    BY <1>1, <2>2 DEF Tick
  <2> QED
    BY <1>5, <2>1, <2>2
<1>7. DOMAIN received' = Clients /\ \A c \in Clients : \A l \in received'[c] : LetterSet(l)
  <2>1. ASSUME NEW c \in Clients, NEW letters, Ingest(c, letters), \A l \in letters : LetterSet(l)
        PROVE  DOMAIN received' = Clients /\ \A d \in Clients : \A l \in received'[d] : LetterSet(l)
    BY <1>1, <2>1 DEF Ingest
  <2>2. ASSUME NEW k PROVE /\ \A l \in Scanned(k) : LetterSet(l)
                           /\ \A letters \in SUBSET Recoverable(k) : \A l \in letters : LetterSet(l)
    BY <1>1 DEF Scanned, Recoverable
  <2>3. CASE \E c \in Clients : \E k : PollBridge(c, k) \/ PollPeers(c, k)
    BY <2>1, <2>2, <2>3 DEF PollBridge, PollPeers
  <2>4. CASE UNCHANGED received
    BY <1>1, <2>4
  <2>5. UNCHANGED received \/ \E c \in Clients : \E k : PollBridge(c, k) \/ PollPeers(c, k)
    BY ConversationAssumption
       DEF Talk, allVars, Commit, Send, SendFails, Rotate, Redeem, Tick
  <2> QED
    BY <2>3, <2>4, <2>5
<1> QED
  BY <1>3, <1>4, <1>6, <1>7, LetterTypes

(* Keys are only added, and a card has a key its owner has had.            *)
LEMMA PeopleTypes ==
    ASSUME TypesInv, [Talk]_allVars
    PROVE  /\ key' \in [Clients -> 1 .. MaxKeys]
           /\ DOMAIN contacts' = Clients /\ \A c \in Clients : DOMAIN contacts'[c] = Clients \ {c}
           /\ \A c \in Clients : \A d \in Clients \ {c} :
                 contacts'[c][d] \in {None} \cup 1 .. key'[d]
<1>1. /\ key \in [Clients -> 1 .. MaxKeys] /\ MaxKeys \in Nat
      /\ DOMAIN contacts = Clients /\ \A c \in Clients : DOMAIN contacts[c] = Clients \ {c}
      /\ \A c \in Clients : \A d \in Clients \ {c} : contacts[c][d] \in {None} \cup 1 .. key[d]
  BY ConversationAssumption DEF TypesInv, TalkTypeOK
<1>2. ASSUME NEW c \in Clients, Rotate(c)
      PROVE  /\ key' \in [Clients -> 1 .. MaxKeys] /\ contacts' = contacts
             /\ \A d \in Clients : 1 .. key[d] \subseteq 1 .. key'[d]
  <2>1. key' = [key EXCEPT ![c] = key[c] + 1] /\ key[c] < MaxKeys /\ contacts' = contacts
    BY <1>2 DEF Rotate
  <2>2. key[c] \in 1 .. MaxKeys /\ key[c] + 1 \in 1 .. MaxKeys
    BY <1>1, <2>1
  <2>3. \A d \in Clients : key'[d] = IF d = c THEN key[c] + 1 ELSE key[d]
    BY <1>1, <2>1
  <2>4. key' \in [Clients -> 1 .. MaxKeys]
    BY <1>1, <2>1, <2>2
  <2>5. ASSUME NEW d \in Clients PROVE 1 .. key[d] \subseteq 1 .. key'[d]
    <3>1. key[d] \in Int /\ (key'[d] = key[d] \/ key'[d] = key[d] + 1)
      BY <1>1, <2>3
    <3> QED
      BY <3>1
  <2> QED
    BY <2>1, <2>4, <2>5
<1>3. ASSUME NEW c \in Clients, NEW d \in Clients \ {c}, Redeem(c, d)
      PROVE  /\ key' = key
             /\ DOMAIN contacts' = Clients /\ \A e \in Clients : DOMAIN contacts'[e] = Clients \ {e}
             /\ \A e \in Clients : \A f \in Clients \ {e} : contacts'[e][f] \in {None} \cup 1 .. key[f]
  <2>1. PICK k \in 1 .. key[d] : contacts' = [contacts EXCEPT ![c][d] = k]
    BY <1>3 DEF Redeem
  <2>2. key' = key
    BY <1>3 DEF Redeem
  <2>3. contacts'[c] = [contacts[c] EXCEPT ![d] = k] /\ \A e \in Clients \ {c} : contacts'[e] = contacts[e]
    BY <1>1, <2>1
  <2> QED
    BY <1>1, <2>1, <2>2, <2>3
<1>4. CASE UNCHANGED people
  BY <1>1, <1>4 DEF people
<1>5. \/ UNCHANGED people
      \/ \E c \in Clients : Rotate(c)
      \/ \E c \in Clients : \E d \in Clients \ {c} : Redeem(c, d)
  BY ConversationAssumption
     DEF Talk, allVars, Commit, Send, SendFails, PollBridge, PollPeers, Ingest, Tick, people
<1> QED
  BY <1>1, <1>2, <1>3, <1>4, <1>5

(* Keys, contacts, items and letters keep their types, a contact has no    *)
(* key on file its owner has not had, and every letter rests on commits    *)
(* that were issued.                                                       *)
THEOREM TalkTypes == TalkSpec => []TalkTypeOK
<1>1. StartInit => TypesInv
  <2> SUFFICES ASSUME StartInit PROVE TypesInv
    OBVIOUS
  <2>1. /\ issued = <<>> /\ applied = [c \in Clients |-> <<>>] /\ envelopes = {}
        /\ thread = [c \in Clients |-> [members |-> FirstMembers, epoch |-> FirstEpoch, next_seq |-> 0]]
    BY DEF StartInit, Init
  <2>2. FirstMembers \in Seq(Members) /\ FirstEpoch = Len(FirstMembers) /\ 0 \in 0 .. MaxSeq
    BY FirstType, ThreadAssumption DEF Members, FirstEpoch, GroupEpoch
  <2>3. DOMAIN issued = {} /\ Range(<<>>) = {}
    BY <2>1 DEF Range
  <2>4. TypeOK
    BY <2>1, <2>2, <2>3 DEF TypeOK
  <2>5. ThreadTypes
    BY <2>3, <2>4, LetterInit DEF ThreadTypes
  <2>6. /\ key \in [Clients -> 1 .. MaxKeys] /\ 0 \in 0 .. MaxTime
        /\ \A c \in Clients : DOMAIN contacts[c] = Clients \ {c}
        /\ \A c \in Clients : \A d \in Clients \ {c} : contacts[c][d] = None
        /\ DOMAIN contacts = Clients /\ DOMAIN received = Clients
    BY ConversationAssumption DEF StartInit
  <2>7. clock = 0 /\ bridge = {} /\ gossip = {} /\ \A c \in Clients : received[c] = {}
    BY DEF StartInit
  <2>8. TalkTypeOK
    BY <2>4, <2>6, <2>7 DEF TalkTypeOK
  <2> QED
    BY <2>5, <2>6, <2>8 DEF TypesInv
<1>2. TypesInv /\ [Talk]_allVars => TypesInv'
  <2> SUFFICES ASSUME TypesInv, [Talk]_allVars PROVE TypesInv'
    OBVIOUS
  <2>1. ThreadTypes'
    BY ThreadStep DEF TypesInv
  <2>2. TalkTypeOK'
    BY <2>1, PostTypes, PeopleTypes DEF TalkTypeOK, ThreadTypes
  <2> QED
    BY <2>1, <2>2, PostTypes, PeopleTypes DEF TypesInv
<1>3. TypesInv => TalkTypeOK
  BY DEF TypesInv
<1> QED
  BY <1>1, <1>2, <1>3, PTL DEF TalkSpec
=============================================================================
