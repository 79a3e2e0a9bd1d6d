------------------------- MODULE ClientStateProofs -------------------------
(* What holds of the state file whatever the number of processes, commands *)
(* and requests.                                                           *)
EXTENDS ClientState, TLAPS

Envelopes == [id: Nat, seq: Nat, key: Nat]
States ==
    [key: Nat, accepted_request_ids: SUBSET Requests, grants: Seq(Requests), next_seq: Nat,
     messages: Seq(Envelopes), gossip: Seq(Envelopes)]
Seals == {Plain, Passphrase} \cup {Raw(k) : k \in 1 .. made}
Phases == {"idle", "loaded", "publishing", "saving", "making", "sealed", "writing"}
Late == {"publishing", "saving", "making", "sealed", "writing"}
Kept(s) == s.messages \o s.gossip

(* One grant for each identifier, and a sequence number of its own, below  *)
(* the next, for each message.                                             *)
Consistent(s) ==
    /\ IsInjectiveSeq(s.grants) /\ Range(s.grants) = s.accepted_request_ids
    /\ \A m \in DOMAIN Kept(s) : Kept(s)[m].seq < s.next_seq
    /\ \A m, n \in DOMAIN Kept(s) : Kept(s)[m].seq = Kept(s)[n].seq => m = n

Commands ==
    [name: {"accept", "send", "poll", "rotate", "other"}, arg: Requests \cup Envelopes \cup {None},
     pass: BOOLEAN]

ProcOK(p) ==
    pc[p] # "idle" => /\ mem[p] \in States /\ Consistent(mem[p])
                      /\ command[p] \in Commands
                      /\ command[p].name = "accept" => command[p].arg \in Requests

FileOK == Loadable(file) => file \in [state: States, seal: Seals] /\ Consistent(file.state)

(* Each copy of the state is consistent, and sealed with something known.  *)
CopiesOK ==
    /\ keys \in Nat /\ sends \in Nat /\ made \in Nat /\ keychain = made
    /\ mem = [p \in Procs |-> mem[p]] /\ command = [p \in Procs |-> command[p]]
    /\ pc \in [Procs -> Phases]
    /\ seal \in [Procs -> Seals]
    /\ \A p \in Procs : ProcOK(p)
    /\ FileOK

(* A copy that keeps what the commands before it achieved.                 *)
Remembers(s, acc, snt) ==
    Range(acc) \subseteq s.accepted_request_ids /\ Range(snt) \subseteq Range(Kept(s))

(* A process whose copy does, and also holds what its own command is about *)
(* to have achieved.                                                       *)
Current(l, s, c, acc, snt) ==
    /\ l # "idle" => Remembers(s, acc, snt)
    /\ l \in Late /\ c.name = "accept" => /\ c.arg \in s.accepted_request_ids
                                         /\ c.arg \notin Range(acc)
    /\ l \in Late /\ c.name = "send" => c.arg \in Envelopes /\ c.arg \in Range(Kept(s))

(* Commands that do not overlap build on each other.                       *)
AloneOK ==
    ~overlap =>
        /\ accepted \in Seq(Requests) /\ sent \in Seq(Envelopes) /\ IsInjectiveSeq(accepted)
        /\ \A p, q \in Procs : pc[p] # "idle" /\ pc[q] # "idle" => p = q
        /\ Loadable(file) => Remembers(file.state, accepted, sent)
        /\ \A p \in Procs : Current(pc[p], mem[p], command[p], accepted, sent)

-----------------------------------------------------------------------------
(* Appending to a sequence adds one element to its set, and keeps it free  *)
(* of repetitions if the element is new.                                   *)
LEMMA AppendFacts ==
    ASSUME NEW S, NEW s \in Seq(S), NEW e \in S
    PROVE  /\ Append(s, e) \in Seq(S)
           /\ Range(Append(s, e)) = Range(s) \cup {e}
           /\ IsInjectiveSeq(s) /\ e \notin Range(s) => IsInjectiveSeq(Append(s, e))
<1>1. /\ Append(s, e) \in Seq(S) /\ Len(Append(s, e)) = Len(s) + 1 /\ Len(s) \in Nat
      /\ DOMAIN s = 1 .. Len(s) /\ DOMAIN Append(s, e) = 1 .. Len(s) + 1
      /\ \A i \in 1 .. Len(s) : Append(s, e)[i] = s[i]
      /\ Append(s, e)[Len(s) + 1] = e
  OBVIOUS
<1>2. Range(Append(s, e)) = Range(s) \cup {e}
  BY <1>1 DEF Range
<1>3. ASSUME IsInjectiveSeq(s), e \notin Range(s)
      PROVE  IsInjectiveSeq(Append(s, e))
  BY <1>1, <1>3 DEF IsInjectiveSeq, Range
<1> QED
  BY <1>1, <1>2, <1>3

(* Granted: the new request gets the one grant of its identifier.          *)
LEMMA GrantedConsistent ==
    ASSUME NEW s \in States, Consistent(s), NEW r \in Requests, MayAccept(s, r)
    PROVE  /\ Granted(s, r) \in States /\ Consistent(Granted(s, r))
           /\ Granted(s, r).accepted_request_ids = s.accepted_request_ids \cup {r}
           /\ Kept(Granted(s, r)) = Kept(s)
<1> DEFINE g == Granted(s, r)
<1>1. /\ g.grants = Append(s.grants, r)
      /\ g.accepted_request_ids = s.accepted_request_ids \cup {r}
      /\ g.messages = s.messages /\ g.gossip = s.gossip /\ g.next_seq = s.next_seq
      /\ g.key = s.key /\ s.grants \in Seq(Requests)
  BY DEF Granted, States
<1>2. r \notin Range(s.grants)
  BY DEF MayAccept, Consistent
<1>3. /\ Append(s.grants, r) \in Seq(Requests)
      /\ Range(Append(s.grants, r)) = Range(s.grants) \cup {r}
      /\ IsInjectiveSeq(Append(s.grants, r))
  BY <1>1, <1>2, AppendFacts DEF Consistent
<1>4. g \in States
  BY <1>3 DEF Granted, States
<1>5. Kept(g) = Kept(s)
  BY <1>1 DEF Kept
<1>6. Consistent(g)
  BY <1>1, <1>3, <1>5 DEF Consistent
<1> QED
  BY <1>1, <1>4, <1>5, <1>6

(* Sent: the new message takes the next number and comes last.             *)
LEMMA SentConsistent ==
    ASSUME NEW s \in States, Consistent(s), NEW e \in Envelopes, e.seq = s.next_seq
    PROVE  /\ Sent(s, e) \in States /\ Consistent(Sent(s, e))
           /\ Sent(s, e).accepted_request_ids = s.accepted_request_ids
           /\ Range(Kept(Sent(s, e))) = Range(Kept(s)) \cup {e}
<1> DEFINE t == Sent(s, e)
<1>1. /\ t.gossip = Append(s.gossip, e) /\ t.next_seq = s.next_seq + 1
      /\ t.messages = s.messages /\ t.grants = s.grants
      /\ t.accepted_request_ids = s.accepted_request_ids
      /\ s.messages \in Seq(Envelopes) /\ s.gossip \in Seq(Envelopes) /\ s.next_seq \in Nat
  BY DEF Sent, States
<1>2. t \in States
  <2>1. Append(s.gossip, e) \in Seq(Envelopes) /\ s.next_seq + 1 \in Nat
    BY <1>1, AppendFacts
  <2> QED
    BY <2>1, Zenon DEF Sent, States
<1>3. Kept(s) \in Seq(Envelopes) /\ Kept(t) = Append(Kept(s), e)
  <2> DEFINE a == s.messages
             b == s.gossip
  <2>1. a \in Seq(Envelopes) /\ b \in Seq(Envelopes) /\ e \in Envelopes
    BY <1>1
  <2>2. a \o b \in Seq(Envelopes) /\ a \o Append(b, e) = Append(a \o b, e)
    <3> HIDE DEF a, b
    <3> QED
      BY <2>1
  <2> QED
    BY <1>1, <2>2, Zenon DEF Kept
<1> DEFINE k == Kept(s)
<1>4. /\ k \in Seq(Envelopes) /\ Kept(t) = Append(k, e)
      /\ \A m \in DOMAIN k : k[m].seq < s.next_seq /\ k[m].seq \in Nat
      /\ \A m, n \in DOMAIN k : k[m].seq = k[n].seq => m = n
  <2>1. \A m \in DOMAIN k : k[m] \in Envelopes
    BY <1>3
  <2> QED
    BY <1>3, <2>1, Zenon DEF Consistent, Envelopes
<1>5. /\ Len(k) \in Nat /\ DOMAIN k = 1 .. Len(k) /\ DOMAIN Append(k, e) = 1 .. Len(k) + 1
      /\ \A i \in 1 .. Len(k) : Append(k, e)[i] = k[i]
      /\ Append(k, e)[Len(k) + 1] = e
  BY <1>4
<1>6. /\ \A m \in DOMAIN Kept(t) : Kept(t)[m].seq < t.next_seq
      /\ \A m, n \in DOMAIN Kept(t) : Kept(t)[m].seq = Kept(t)[n].seq => m = n
  <2> HIDE DEF k
  <2> QED
    BY <1>1, <1>4, <1>5
<1>7. Range(Kept(t)) = Range(k) \cup {e}
  BY <1>4, AppendFacts
<1> QED
  BY <1>1, <1>2, <1>6, <1>7 DEF Consistent

(* Received: the staged messages join the received ones, in their order.   *)
LEMMA ReceivedConsistent ==
    ASSUME NEW s \in States, Consistent(s)
    PROVE  /\ Received(s) \in States /\ Consistent(Received(s))
           /\ Received(s).accepted_request_ids = s.accepted_request_ids
           /\ Kept(Received(s)) = Kept(s)
<1> DEFINE t == Received(s)
<1>1. /\ t.gossip = <<>> /\ t.messages = s.messages \o s.gossip /\ t.next_seq = s.next_seq
      /\ t.grants = s.grants /\ t.accepted_request_ids = s.accepted_request_ids
      /\ s.messages \in Seq(Envelopes) /\ s.gossip \in Seq(Envelopes)
  BY DEF Received, States
<1>2. t.messages \in Seq(Envelopes)
  <2> DEFINE a == s.messages
             b == s.gossip
  <2>1. a \in Seq(Envelopes) /\ b \in Seq(Envelopes)
    BY <1>1
  <2>2. a \o b \in Seq(Envelopes)
    <3> HIDE DEF a, b
    <3> QED
      BY <2>1
  <2> QED
    BY <1>1, <2>2
<1>3. t \in States
  <2>1. <<>> \in Seq(Envelopes)
    OBVIOUS
  <2> QED
    BY <1>1, <1>2, <2>1, Zenon DEF Received, States
<1>4. Kept(t) = Kept(s)
  <2>1. ASSUME NEW a \in Seq(Envelopes) PROVE a \o <<>> = a
    OBVIOUS
  <2> QED
    BY <1>1, <1>2, <2>1 DEF Kept
<1> QED
  BY <1>1, <1>3, <1>4 DEF Consistent

-----------------------------------------------------------------------------
(* The initial state.                                                      *)
LEMMA CopiesInit == Init => CopiesOK
<1> SUFFICES ASSUME Init PROVE CopiesOK
  OBVIOUS
<1>1. FirstState \in States /\ Kept(FirstState) = <<>> /\ Consistent(FirstState)
  <2>1. FirstState \in States
    BY DEF FirstState, States
  <2>2. Kept(FirstState) = <<>> \o <<>>
    BY DEF FirstState, Kept
  <2>3. <<>> \o <<>> = <<>> /\ DOMAIN <<>> = {} /\ Range(<<>>) = {}
    BY DEF Range
  <2> QED
    BY <2>1, <2>2, <2>3 DEF FirstState, Consistent, IsInjectiveSeq
<1>2. FileOK
  BY <1>1 DEF Init, FileOK, Seals
<1> QED
  BY <1>2 DEF Init, CopiesOK, ProcOK, Phases, Seals

(* A step of process p touches no other process.                           *)
LEMMA StepOfOne ==
    ASSUME CopiesOK, NEW p \in Procs, keys' \in Nat, sends' \in Nat,
           UNCHANGED chain \/ (keychain' = made + 1 /\ made' = made + 1),
           NEW l \in Phases, pc' = [pc EXCEPT ![p] = l],
           NEW m, mem' = [mem EXCEPT ![p] = m],
           NEW c, command' = [command EXCEPT ![p] = c],
           NEW k \in Seals', seal' = [seal EXCEPT ![p] = k],
           l # "idle" => m \in States /\ Consistent(m) /\ c \in Commands,
           l # "idle" => (c.name = "accept" => c.arg \in Requests),
           UNCHANGED file \/ FileOK'
    PROVE  CopiesOK'
<1>1. made \in Nat /\ made' \in Nat /\ keychain' = made' /\ made <= made'
  BY DEF CopiesOK, chain
<1>2. Seals \subseteq Seals'
  BY <1>1 DEF Seals, Raw, Plain, Passphrase
<1>3. /\ pc' \in [Procs -> Phases] /\ seal' \in [Procs -> Seals']
      /\ mem' = [q \in Procs |-> mem'[q]] /\ command' = [q \in Procs |-> command'[q]]
  BY <1>2 DEF CopiesOK
<1>4. ASSUME NEW q \in Procs PROVE ProcOK(q)'
  <2>1. CASE q = p
    <3>1. pc'[p] = l /\ mem'[p] = m /\ command'[p] = c
      BY DEF CopiesOK
    <3> QED
      BY <2>1, <3>1 DEF ProcOK
  <2>2. CASE q # p
    <3>1. pc'[q] = pc[q] /\ mem'[q] = mem[q] /\ command'[q] = command[q]
      BY <2>2 DEF CopiesOK
    <3> QED
      BY <3>1 DEF ProcOK, CopiesOK
  <2> QED
    BY <2>1, <2>2
<1>5. FileOK'
  <2>1. CASE UNCHANGED file
    BY <1>2, <2>1 DEF FileOK, CopiesOK, Loadable
  <2> QED
    BY <2>1
<1> QED
  BY <1>1, <1>3, <1>4, <1>5 DEF CopiesOK

(* A process that ends leaves its copy behind.                             *)
LEMMA QuitCopies ==
    ASSUME CopiesOK, NEW p \in Procs, Quit(p), UNCHANGED <<keys, sends, chain>>,
           UNCHANGED file \/ FileOK'
    PROVE  CopiesOK'
<1>0. PICK l \in Phases : l = "idle"
  BY DEF Phases
<1>1. Plain \in Seals'
  BY DEF Seals
<1>2. /\ keys' \in Nat /\ sends' \in Nat
      /\ UNCHANGED chain \/ (keychain' = made + 1 /\ made' = made + 1)
  BY DEF CopiesOK, chain
<1>3. /\ pc' = [pc EXCEPT ![p] = l] /\ mem' = [mem EXCEPT ![p] = None]
      /\ command' = [command EXCEPT ![p] = None] /\ seal' = [seal EXCEPT ![p] = Plain]
  BY <1>0 DEF Quit, Goto
<1> QED
  BY <1>0, <1>1, <1>2, <1>3, StepOfOne

(* A command that succeeds on its copy goes on with the new one.           *)
LEMMA SucceedCopies ==
    ASSUME CopiesOK, NEW p \in Procs, pc[p] # "idle",
           NEW s \in States, Consistent(s), Succeed(p, s, "saving"),
           keys' \in Nat, UNCHANGED <<sends, chain, file>>
    PROVE  CopiesOK'
<1>0. PICK l \in Phases : l = "saving"
  BY DEF Phases
<1>1. /\ sends' \in Nat /\ (UNCHANGED file \/ FileOK')
      /\ UNCHANGED chain \/ (keychain' = made + 1 /\ made' = made + 1)
  BY DEF CopiesOK, chain
<1>2. /\ command' = [command EXCEPT ![p] = command[p]]
      /\ seal' = [seal EXCEPT ![p] = seal[p]] /\ seal[p] \in Seals'
  BY DEF Succeed, CopiesOK, Seals, chain
<1>3. command[p] \in Commands /\ (command[p].name = "accept" => command[p].arg \in Requests)
  BY DEF CopiesOK, ProcOK
<1>4. pc' = [pc EXCEPT ![p] = l] /\ mem' = [mem EXCEPT ![p] = s]
  BY <1>0 DEF Succeed, Goto
<1> QED
  BY <1>0, <1>1, <1>2, <1>3, <1>4, StepOfOne

(* A step that moves a process on, and may choose its seal.                *)
LEMMA MoveCopies ==
    ASSUME CopiesOK, NEW p \in Procs, pc[p] # "idle", NEW l \in Phases \ {"idle"}, Goto(p, l),
           UNCHANGED chain \/ (keychain' = made + 1 /\ made' = made + 1),
           UNCHANGED seal \/ \E k \in Seals' : seal' = [seal EXCEPT ![p] = k],
           UNCHANGED <<keys, sends, command, mem>>, UNCHANGED file \/ FileOK'
    PROVE  CopiesOK'
<1>1. keys' \in Nat /\ sends' \in Nat
  BY DEF CopiesOK
<1>2. PICK k \in Seals' : seal' = [seal EXCEPT ![p] = k]
  <2>1. CASE UNCHANGED seal
    <3>1. made \in Nat /\ (made' = made \/ made' = made + 1)
      BY DEF chain, CopiesOK
    <3>2. seal[p] \in Seals /\ Seals \subseteq Seals'
      BY <3>1 DEF CopiesOK, Seals, Raw, Plain, Passphrase
    <3>3. seal' = [seal EXCEPT ![p] = seal[p]]
      BY <2>1 DEF CopiesOK
    <3> QED
      BY <3>2, <3>3
  <2> QED
    BY <2>1
<1>3. command' = [command EXCEPT ![p] = command[p]] /\ mem' = [mem EXCEPT ![p] = mem[p]]
  BY DEF CopiesOK
<1>4. /\ mem[p] \in States /\ Consistent(mem[p]) /\ command[p] \in Commands
      /\ command[p].name = "accept" => command[p].arg \in Requests
  BY DEF CopiesOK, ProcOK
<1> QED
  BY <1>1, <1>2, <1>3, <1>4, StepOfOne DEF Goto

(* Every step keeps the copies consistent.                                 *)
LEMMA CopiesNext == CopiesOK /\ [Next]_vars => CopiesOK'
<1> SUFFICES ASSUME CopiesOK, [Next]_vars PROVE CopiesOK'
  OBVIOUS
<1>0. /\ keys \in Nat /\ sends \in Nat /\ made \in Nat /\ keychain = made
      /\ \A p \in Procs : pc[p] # "idle" =>
            /\ mem[p] \in States /\ Consistent(mem[p]) /\ command[p] \in Commands
            /\ command[p].name = "accept" => command[p].arg \in Requests
  BY DEF CopiesOK, ProcOK
<1>1. ASSUME NEW p \in Procs, Load(p) PROVE CopiesOK'
  <2>1. file.state \in States /\ Consistent(file.state)
    BY <1>1 DEF Load, CopiesOK, FileOK
  <2>2. PICK c \in Commands : /\ command' = [command EXCEPT ![p] = c]
                              /\ c.name = "accept" => c.arg \in Requests
    <3>1. PICK d \in {[name |-> "accept", arg |-> r] : r \in Requests}
                       \cup {[name |-> n, arg |-> None] : n \in {"send", "poll", "rotate", "other"}},
               pass \in BOOLEAN :
            command' = [command EXCEPT ![p] = [name |-> d.name, arg |-> d.arg, pass |-> pass]]
      BY <1>1 DEF Load
    <3>2. /\ d.name \in {"accept", "send", "poll", "rotate", "other"} /\ d.arg \in Requests \cup {None}
          /\ d.name = "accept" => d.arg \in Requests
      OBVIOUS
    <3>3. [name |-> d.name, arg |-> d.arg, pass |-> pass] \in Commands
      BY <3>2 DEF Commands
    <3> QED
      BY <3>1, <3>2, <3>3
  <2>3. PICK l \in Phases : l = "loaded"
    BY DEF Phases
  <2>4. /\ keys' \in Nat /\ sends' \in Nat /\ UNCHANGED chain /\ UNCHANGED file
        /\ pc' = [pc EXCEPT ![p] = l] /\ mem' = [mem EXCEPT ![p] = file.state]
        /\ seal' = [seal EXCEPT ![p] = seal[p]] /\ seal[p] \in Seals'
    BY <1>1, <2>3, <1>0 DEF Load, Goto, CopiesOK, Seals, chain
  <2> QED
    BY <2>1, <2>2, <2>3, <2>4, StepOfOne
<1>2. ASSUME NEW p \in Procs, GrantAccept(p) PROVE CopiesOK'
  <2> DEFINE r == command[p].arg
  <2>1. pc[p] # "idle" /\ r \in Requests /\ UNCHANGED <<keys, sends, chain, file>>
    BY <1>2, <1>0 DEF GrantAccept, env
  <2>2. CASE MayAccept(mem[p], r)
    <3>1. Succeed(p, Granted(mem[p], r), "saving")
      BY <1>2, <2>2 DEF GrantAccept
    <3>2. Granted(mem[p], r) \in States /\ Consistent(Granted(mem[p], r))
      BY <1>0, <2>1, <2>2, GrantedConsistent
    <3> QED
      BY <1>0, <2>1, <3>1, <3>2, SucceedCopies
  <2>3. CASE ~MayAccept(mem[p], r)
    BY <1>2, <2>1, <2>3, QuitCopies DEF GrantAccept
  <2> QED
    BY <2>2, <2>3
<1>3. ASSUME NEW p \in Procs, MsgSend(p) PROVE CopiesOK'
  <2> DEFINE e == Envelope(p)
             c == [command[p] EXCEPT !.arg = e]
  <2>1. mem[p] \in States /\ Consistent(mem[p]) /\ command[p] \in Commands
    BY <1>0, <1>3 DEF MsgSend
  <2>2. e \in Envelopes /\ e.seq = mem[p].next_seq
    BY <1>0, <2>1 DEF Envelope, Envelopes, States
  <2>3. Sent(mem[p], e) \in States /\ Consistent(Sent(mem[p], e))
    BY <2>1, <2>2, SentConsistent
  <2>4. c \in Commands /\ c.name = "send"
    BY <1>3, <2>1, <2>2 DEF MsgSend, Commands
  <2>5. PICK l \in Phases : pc' = [pc EXCEPT ![p] = l]
    BY <1>3 DEF MsgSend, Goto, Phases
  <2>6. /\ keys' \in Nat /\ sends' \in Nat /\ UNCHANGED chain /\ UNCHANGED file
        /\ mem' = [mem EXCEPT ![p] = Sent(mem[p], e)]
        /\ command' = [command EXCEPT ![p] = c]
        /\ seal' = [seal EXCEPT ![p] = seal[p]] /\ seal[p] \in Seals'
    BY <1>3, <1>0 DEF MsgSend, CopiesOK, Seals, chain
  <2> HIDE DEF c
  <2> QED
    BY <2>3, <2>4, <2>5, <2>6, StepOfOne
<1>4. ASSUME NEW p \in Procs, InboxPoll(p) PROVE CopiesOK'
  <2>1. pc[p] # "idle" /\ UNCHANGED <<keys, sends, chain, file>>
    BY <1>4 DEF InboxPoll, env
  <2>2. CASE Succeed(p, Received(mem[p]), "saving")
    <3>1. Received(mem[p]) \in States /\ Consistent(Received(mem[p]))
      BY <1>0, <2>1, ReceivedConsistent
    <3> QED
      BY <1>0, <2>1, <2>2, <3>1, SucceedCopies
  <2>3. CASE Quit(p)
    BY <2>1, <2>3, QuitCopies
  <2> QED
    BY <1>4, <2>2, <2>3 DEF InboxPoll
<1>5. ASSUME NEW p \in Procs, RotateKey(p) PROVE CopiesOK'
  <2> DEFINE t == [mem[p] EXCEPT !.key = keys + 1]
  <2>1. mem[p] \in States /\ Consistent(mem[p]) /\ pc[p] # "idle"
    BY <1>0, <1>5 DEF RotateKey
  <2>2. keys + 1 \in Nat /\ t \in States
    <3>1. keys + 1 \in Nat
      BY <1>0
    <3> QED
      BY <2>1, <3>1, Zenon DEF States
  <2>3. /\ t.grants = mem[p].grants /\ t.accepted_request_ids = mem[p].accepted_request_ids
        /\ t.next_seq = mem[p].next_seq
        /\ t.messages = mem[p].messages /\ t.gossip = mem[p].gossip
    BY <2>1 DEF States
  <2>4. Consistent(t)
    BY <2>1, <2>3 DEF Consistent, Kept
  <2>5. Succeed(p, t, "saving") /\ keys' \in Nat /\ UNCHANGED <<sends, chain, file>>
    BY <1>5, <2>2 DEF RotateKey
  <2> HIDE DEF t
  <2> QED
    BY <2>1, <2>2, <2>4, <2>5, SucceedCopies
<1>5a. ASSUME NEW p \in Procs, Other(p) PROVE CopiesOK'
  <2>1. pc[p] # "idle" /\ UNCHANGED <<keys, sends, chain, file>>
    BY <1>5a DEF Other, env
  <2> QED
    BY <1>0, <1>5a, <2>1, SucceedCopies, QuitCopies DEF Other
<1>6. ASSUME NEW p \in Procs, Publish(p) PROVE CopiesOK'
  BY <1>6 DEF Publish, CopiesOK, ProcOK, FileOK, Seals, env, chain, Loadable
<1>7. ASSUME NEW p \in Procs, PublishDone(p) PROVE CopiesOK'
  <2>1. PICK l \in Phases \ {"idle"} : l = "saving"
    BY DEF Phases
  <2>2. pc[p] # "idle" /\ Goto(p, l) /\ UNCHANGED <<keys, sends, command, mem, chain, seal, file>>
    BY <1>7, <2>1 DEF PublishDone, env
  <2> QED
    BY <2>2, MoveCopies
<1>8. ASSUME NEW p \in Procs, PublishFails(p) PROVE CopiesOK'
  BY <1>8, QuitCopies DEF PublishFails, env
<1>9. ASSUME NEW p \in Procs, Seal(p) PROVE CopiesOK'
  <2>1. /\ pc[p] # "idle" /\ UNCHANGED <<keys, sends, command, mem, chain, file>>
        /\ \E l \in Phases \ {"idle"} : Goto(p, l)
    BY <1>9 DEF Seal, env, Phases
  <2>2. UNCHANGED seal \/ \E k \in Seals' : seal' = [seal EXCEPT ![p] = k]
    <3>1. Passphrase \in Seals' /\ (keychain # 0 => Raw(keychain) \in Seals')
      BY <1>0, <2>1 DEF Seals, chain
    <3> QED
      BY <1>9, <3>1 DEF Seal
  <2> QED
    BY <2>1, <2>2, MoveCopies
<1>10. ASSUME NEW p \in Procs, MakeKey(p) PROVE CopiesOK'
  <2>1. /\ pc[p] # "idle" /\ UNCHANGED <<keys, sends, command, mem, file>>
        /\ keychain' = made + 1 /\ made' = made + 1
        /\ \E l \in Phases \ {"idle"} : Goto(p, l)
    BY <1>10 DEF MakeKey, env, Phases
  <2>2. \E k \in Seals' : seal' = [seal EXCEPT ![p] = k]
    <3>1. Raw(made + 1) \in Seals'
      BY <1>0, <2>1 DEF Seals
    <3> QED
      BY <1>10, <3>1 DEF MakeKey
  <2> QED
    BY <2>1, <2>2, MoveCopies
<1>11. ASSUME NEW p \in Procs, Truncate(p) PROVE CopiesOK'
  <2>1. /\ pc[p] # "idle" /\ UNCHANGED <<keys, sends, command, mem, chain, seal>>
        /\ \E l \in Phases \ {"idle"} : Goto(p, l)
    BY <1>11 DEF Truncate, env, Phases
  <2>2. FileOK'
    BY <1>11 DEF Truncate, FileOK, Loadable
  <2> QED
    BY <2>1, <2>2, MoveCopies
<1>12. ASSUME NEW p \in Procs, Write(p) PROVE CopiesOK'
  <2>1. pc[p] # "idle" /\ Quit(p) /\ UNCHANGED <<keys, sends, chain>>
    BY <1>12 DEF Write, env
  <2>2. seal[p] \in Seals' /\ mem[p] \in States /\ Consistent(mem[p])
    BY <1>0, <2>1 DEF CopiesOK, Seals, chain
  <2>3. file' = [state |-> mem[p], seal |-> seal[p]] \/ file' = Torn
    BY <1>12 DEF Write
  <2>4. FileOK'
    BY <2>2, <2>3 DEF FileOK, Loadable
  <2> QED
    BY <2>1, <2>4, QuitCopies
<1>13. ASSUME NEW p \in Procs, Crash(p) PROVE CopiesOK'
  <2>1. Quit(p) /\ UNCHANGED <<keys, sends, chain>>
    BY <1>13 DEF Crash, env
  <2>2. UNCHANGED file \/ file' = Torn
    BY <1>13 DEF Crash
  <2>3. file' = Torn => FileOK'
    BY DEF FileOK, Loadable
  <2> QED
    BY <2>1, <2>2, <2>3, QuitCopies
<1>14. CASE Tick \/ UNCHANGED vars
  BY <1>14 DEF Tick, vars, env, CopiesOK, ProcOK, FileOK, Seals, chain, Loadable
<1> QED
  BY <1>1, <1>2, <1>3, <1>4, <1>5, <1>5a, <1>6, <1>7, <1>8, <1>9, <1>10, <1>11, <1>12, <1>13, <1>14
     DEF Next

(* Every state file that loads holds one grant for each request of its     *)
(* replay cache, however many processes race to write it (GrantsMatchIds). *)
THEOREM GrantsTheorem == Spec => []GrantsMatchIds
<1>1. CopiesOK => GrantsMatchIds
  BY DEF CopiesOK, FileOK, Consistent, GrantsMatchIds
<1> QED
  BY <1>1, CopiesInit, CopiesNext, PTL DEF Spec

(* A whole state file opens unless two processes made a keychain key       *)
(* (SealedStateOpens).                                                     *)
THEOREM SealedTheorem == Spec => []SealedStateOpens
<1>1. CopiesOK => SealedStateOpens
  <2> SUFFICES ASSUME CopiesOK, made <= 1, Loadable(file)
               PROVE  Unseals(file.seal, file.seal.kdf = "argon2id")
    BY DEF SealedStateOpens
  <2>1. file.seal \in Seals /\ made \in Nat /\ keychain = made
    BY DEF CopiesOK, FileOK
  <2> QED
    BY <2>1 DEF Seals, Unseals, Plain, Passphrase, Raw
<1> QED
  BY <1>1, CopiesInit, CopiesNext, PTL DEF Spec

-----------------------------------------------------------------------------
(* The initial state.                                                      *)
LEMMA AloneInit == Init => AloneOK
<1> SUFFICES ASSUME Init PROVE AloneOK
  OBVIOUS
<1>1. Range(<<>>) = {} /\ IsInjectiveSeq(<<>>)
  BY DEF Range, IsInjectiveSeq
<1>2. \A p \in Procs : pc[p] = "idle"
  BY DEF Init
<1> QED
  BY <1>1, <1>2 DEF Init, AloneOK, Current, Remembers, Late

(* A step of the process that runs: the others are idle.                   *)
LEMMA AloneStep ==
    ASSUME CopiesOK, AloneOK, NEW p \in Procs, pc[p] # "idle", UNCHANGED overlap,
           ~overlap => /\ accepted' \in Seq(Requests) /\ sent' \in Seq(Envelopes)
                       /\ IsInjectiveSeq(accepted'),
           NEW l, pc' = [pc EXCEPT ![p] = l],
           NEW m, mem' = [mem EXCEPT ![p] = m],
           NEW c, command' = [command EXCEPT ![p] = c],
           ~overlap => Current(l, m, c, accepted', sent'),
           ~overlap => (Loadable(file') => Remembers(file'.state, accepted', sent'))
    PROVE  AloneOK'
<1> SUFFICES ASSUME ~overlap
             PROVE  /\ \A q, r \in Procs : pc'[q] # "idle" /\ pc'[r] # "idle" => q = r
                    /\ \A q \in Procs : Current(pc'[q], mem'[q], command'[q], accepted', sent')
  BY DEF AloneOK
<1>1. \A q \in Procs \ {p} : pc'[q] = "idle"
  BY DEF AloneOK, CopiesOK
<1>2. pc'[p] = l /\ mem'[p] = m /\ command'[p] = c
  BY DEF CopiesOK
<1>3. \A q \in Procs \ {p} : Current(pc'[q], mem'[q], command'[q], accepted', sent')
  BY <1>1 DEF Current, Late
<1> QED
  BY <1>1, <1>2, <1>3

(* A process that ends without having completed its command.               *)
LEMMA AloneQuit ==
    ASSUME CopiesOK, AloneOK, NEW p \in Procs, pc[p] # "idle", Quit(p), UNCHANGED history,
           UNCHANGED file \/ ~Loadable(file')
    PROVE  AloneOK'
<1>1. PICK l : l = "idle"
  OBVIOUS
<1>2. /\ pc' = [pc EXCEPT ![p] = l] /\ mem' = [mem EXCEPT ![p] = None]
      /\ command' = [command EXCEPT ![p] = None]
      /\ UNCHANGED overlap /\ accepted' = accepted /\ sent' = sent
  BY <1>1 DEF Quit, Goto, history
<1>3. Current(l, None, None, accepted', sent')
  BY <1>1 DEF Current, Late
<1>4. ~overlap => (Loadable(file') => Remembers(file'.state, accepted', sent'))
  BY <1>2 DEF AloneOK, Loadable
<1>5. ~overlap => /\ accepted' \in Seq(Requests) /\ sent' \in Seq(Envelopes)
                  /\ IsInjectiveSeq(accepted')
  BY <1>2 DEF AloneOK
<1> QED
  BY <1>2, <1>3, <1>4, <1>5, AloneStep

(* A process that goes on with the same command, with its copy or a better *)
(* one.                                                                    *)
LEMMA AloneMove ==
    ASSUME CopiesOK, AloneOK, NEW p \in Procs, pc[p] # "idle", UNCHANGED history,
           NEW l, Goto(p, l), NEW m, mem' = [mem EXCEPT ![p] = m],
           NEW c, command' = [command EXCEPT ![p] = c],
           ~overlap => Current(l, m, c, accepted, sent),
           UNCHANGED file \/ ~Loadable(file')
    PROVE  AloneOK'
<1>1. /\ pc' = [pc EXCEPT ![p] = l]
      /\ UNCHANGED overlap /\ accepted' = accepted /\ sent' = sent
  BY DEF Goto, history
<1>2. ~overlap => (Loadable(file') => Remembers(file'.state, accepted', sent'))
  BY <1>1 DEF AloneOK, Loadable
<1>3. /\ ~overlap => /\ accepted' \in Seq(Requests) /\ sent' \in Seq(Envelopes)
                     /\ IsInjectiveSeq(accepted')
      /\ ~overlap => Current(l, m, c, accepted', sent')
  BY <1>1 DEF AloneOK
<1> QED
  BY <1>1, <1>2, <1>3, AloneStep

(* Every step keeps commands that do not overlap building on each other.   *)
LEMMA AloneNext == CopiesOK /\ AloneOK /\ [Next]_vars => AloneOK'
<1> SUFFICES ASSUME CopiesOK, AloneOK, [Next]_vars PROVE AloneOK'
  OBVIOUS
<1>0. \A p \in Procs : pc[p] # "idle" =>
         /\ mem[p] \in States /\ Consistent(mem[p]) /\ command[p] \in Commands
         /\ command[p].name = "accept" => command[p].arg \in Requests
         /\ ~overlap => Current(pc[p], mem[p], command[p], accepted, sent)
  BY DEF CopiesOK, ProcOK, AloneOK
<1>1. ASSUME NEW p \in Procs, Load(p) PROVE AloneOK'
  <2> SUFFICES ASSUME ~overlap'
               PROVE  /\ accepted' \in Seq(Requests) /\ sent' \in Seq(Envelopes)
                      /\ \A q, r \in Procs : pc'[q] # "idle" /\ pc'[r] # "idle" => q = r
                      /\ Loadable(file') => Remembers(file'.state, accepted', sent')
                      /\ \A q \in Procs : Current(pc'[q], mem'[q], command'[q], accepted', sent')
                      /\ IsInjectiveSeq(accepted')
    BY <1>1 DEF Load, AloneOK
  <2>1. ~overlap /\ \A q \in Procs \ {p} : pc[q] = "idle"
    BY <1>1 DEF Load
  <2>2. /\ pc'[p] = "loaded" /\ mem'[p] = file.state
        /\ \A q \in Procs \ {p} : pc'[q] = "idle"
        /\ accepted' = accepted /\ sent' = sent /\ file' = file /\ Loadable(file)
    BY <1>1, <2>1 DEF Load, Goto, CopiesOK
  <2>3. \A q \in Procs : Current(pc'[q], mem'[q], command'[q], accepted', sent')
    BY <2>1, <2>2 DEF Current, Late, AloneOK
  <2> QED
    BY <2>1, <2>2, <2>3 DEF AloneOK
<1>2. ASSUME NEW p \in Procs, GrantAccept(p) PROVE AloneOK'
  <2> DEFINE r == command[p].arg
             g == Granted(mem[p], r)
  <2>1. /\ pc[p] = "loaded" /\ pc[p] # "idle" /\ r \in Requests
        /\ command[p].name = "accept" /\ UNCHANGED history /\ UNCHANGED file
    BY <1>2, <1>0 DEF GrantAccept
  <2>2. CASE MayAccept(mem[p], r)
    <3>1. Goto(p, "saving") /\ mem' = [mem EXCEPT ![p] = g] /\ UNCHANGED command
      BY <1>2, <2>2 DEF GrantAccept, Succeed
    <3>2. command' = [command EXCEPT ![p] = command[p]]
      BY <3>1 DEF CopiesOK
    <3>3. /\ g.accepted_request_ids = mem[p].accepted_request_ids \cup {r}
          /\ Kept(g) = Kept(mem[p])
      BY <1>0, <2>1, <2>2, GrantedConsistent
    <3>4. ~overlap => Current("saving", g, command[p], accepted, sent)
      <4> SUFFICES ASSUME ~overlap PROVE Current("saving", g, command[p], accepted, sent)
        OBVIOUS
      <4>1. Remembers(mem[p], accepted, sent) /\ r \notin Range(accepted)
        BY <1>0, <2>1, <2>2 DEF Current, Remembers, MayAccept
      <4> HIDE DEF g
      <4> QED
        BY <2>1, <3>3, <4>1 DEF Current, Remembers
    <3> HIDE DEF g
    <3> QED
      BY <2>1, <3>1, <3>2, <3>4, AloneMove
  <2>3. CASE ~MayAccept(mem[p], r)
    BY <1>2, <2>1, <2>3, AloneQuit DEF GrantAccept
  <2> QED
    BY <2>2, <2>3
<1>3. ASSUME NEW p \in Procs, MsgSend(p) PROVE AloneOK'
  <2> DEFINE e == Envelope(p)
             c == [command[p] EXCEPT !.arg = e]
             t == Sent(mem[p], e)
  <2>1. /\ mem[p] \in States /\ Consistent(mem[p]) /\ command[p] \in Commands
        /\ pc[p] # "idle" /\ UNCHANGED history /\ UNCHANGED file
    BY <1>0, <1>3 DEF MsgSend
  <2>2. e \in Envelopes /\ e.seq = mem[p].next_seq
    BY <2>1 DEF Envelope, Envelopes, States, CopiesOK
  <2>3. /\ t.accepted_request_ids = mem[p].accepted_request_ids
        /\ Range(Kept(t)) = Range(Kept(mem[p])) \cup {e}
    BY <2>1, <2>2, SentConsistent
  <2>4. c.name = "send" /\ c.arg = e
    BY <1>3, <2>1 DEF MsgSend, Commands
  <2>5. PICK l : Goto(p, l)
    BY <1>3 DEF MsgSend
  <2>6. mem' = [mem EXCEPT ![p] = t] /\ command' = [command EXCEPT ![p] = c]
    BY <1>3 DEF MsgSend, CopiesOK
  <2>7. ~overlap => Current(l, t, c, accepted, sent)
    <3> SUFFICES ASSUME ~overlap PROVE Current(l, t, c, accepted, sent)
      OBVIOUS
    <3>1. Remembers(mem[p], accepted, sent)
      BY <1>0, <2>1 DEF Current
    <3> HIDE DEF t, c, e
    <3> QED
      BY <2>2, <2>3, <2>4, <3>1 DEF Current, Remembers
  <2> HIDE DEF t, c, e
  <2> QED
    BY <2>1, <2>5, <2>6, <2>7, AloneMove
<1>4. ASSUME NEW p \in Procs, InboxPoll(p) PROVE AloneOK'
  <2>1. /\ pc[p] # "idle" /\ command[p].name = "poll" /\ UNCHANGED history /\ UNCHANGED file
    BY <1>4 DEF InboxPoll
  <2>2. CASE Succeed(p, Received(mem[p]), "saving")
    <3> DEFINE t == Received(mem[p])
    <3>1. /\ Goto(p, "saving") /\ mem' = [mem EXCEPT ![p] = t]
          /\ command' = [command EXCEPT ![p] = command[p]]
      BY <2>2 DEF Succeed, CopiesOK
    <3>2. /\ t.accepted_request_ids = mem[p].accepted_request_ids /\ Kept(t) = Kept(mem[p])
      BY <1>0, <2>1, ReceivedConsistent
    <3>3. ~overlap => Current("saving", t, command[p], accepted, sent)
      BY <1>0, <2>1, <3>2 DEF Current, Remembers
    <3> HIDE DEF t
    <3> QED
      BY <2>1, <3>1, <3>3, AloneMove
  <2>3. CASE Quit(p)
    BY <2>1, <2>3, AloneQuit
  <2> QED
    BY <1>4, <2>2, <2>3 DEF InboxPoll
<1>5. ASSUME NEW p \in Procs, RotateKey(p) PROVE AloneOK'
  <2> DEFINE t == [mem[p] EXCEPT !.key = keys + 1]
  <2>1. /\ pc[p] # "idle" /\ command[p].name = "rotate" /\ UNCHANGED history /\ UNCHANGED file
    BY <1>5 DEF RotateKey
  <2>2. /\ t.accepted_request_ids = mem[p].accepted_request_ids
        /\ t.messages = mem[p].messages /\ t.gossip = mem[p].gossip
    BY <1>0, <2>1 DEF States
  <2>3. /\ Goto(p, "saving") /\ mem' = [mem EXCEPT ![p] = t]
        /\ command' = [command EXCEPT ![p] = command[p]]
    BY <1>5 DEF RotateKey, Succeed, CopiesOK
  <2>4. ~overlap => Current("saving", t, command[p], accepted, sent)
    BY <1>0, <2>1, <2>2 DEF Current, Remembers, Kept
  <2> HIDE DEF t
  <2> QED
    BY <2>1, <2>3, <2>4, AloneMove
<1>5a. ASSUME NEW p \in Procs, Other(p) PROVE AloneOK'
  <2>1. /\ pc[p] # "idle" /\ command[p].name = "other" /\ UNCHANGED history /\ UNCHANGED file
    BY <1>5a DEF Other
  <2>2. CASE Succeed(p, mem[p], "saving")
    <3>1. /\ Goto(p, "saving") /\ mem' = [mem EXCEPT ![p] = mem[p]]
          /\ command' = [command EXCEPT ![p] = command[p]]
      BY <2>2 DEF Succeed, CopiesOK
    <3>2. ~overlap => Current("saving", mem[p], command[p], accepted, sent)
      BY <1>0, <2>1 DEF Current
    <3> QED
      BY <2>1, <3>1, <3>2, AloneMove
  <2>3. CASE Quit(p)
    BY <2>1, <2>3, AloneQuit
  <2> QED
    BY <1>5a, <2>2, <2>3 DEF Other
<1>6. ASSUME NEW p \in Procs, Publish(p) PROVE AloneOK'
  BY <1>6 DEF Publish, AloneOK, history
<1>7. ASSUME NEW p \in Procs, NEW l \in Late, pc[p] \in Late, Goto(p, l), UNCHANGED history,
             UNCHANGED <<mem, command>>, UNCHANGED file \/ ~Loadable(file')
      PROVE  AloneOK'
  <2>1. pc[p] # "idle" /\ l # "idle"
    BY <1>7 DEF Late
  <2>2. mem' = [mem EXCEPT ![p] = mem[p]] /\ command' = [command EXCEPT ![p] = command[p]]
    BY <1>7 DEF CopiesOK
  <2>3. ~overlap => Current(l, mem[p], command[p], accepted, sent)
    BY <1>0, <1>7, <2>1 DEF Current
  <2> QED
    BY <1>7, <2>1, <2>2, <2>3, AloneMove
<1>8. ASSUME NEW p \in Procs, PublishFails(p) PROVE AloneOK'
  BY <1>8, AloneQuit DEF PublishFails
<1>9. ASSUME NEW p \in Procs, PublishDone(p) \/ Seal(p) \/ MakeKey(p) \/ Truncate(p)
      PROVE  AloneOK'
  <2>1. /\ pc[p] \in Late /\ UNCHANGED history /\ UNCHANGED <<mem, command>>
        /\ \E l \in Late : Goto(p, l)
    BY <1>9 DEF PublishDone, Seal, MakeKey, Truncate, Late
  <2>2. UNCHANGED file \/ ~Loadable(file')
    BY <1>9 DEF PublishDone, Seal, MakeKey, Truncate, Loadable
  <2> QED
    BY <1>7, <2>1, <2>2
<1>10. ASSUME NEW p \in Procs, Write(p) PROVE AloneOK'
  <2> DEFINE a == command[p].arg
  <2>1. /\ pc[p] # "idle" /\ pc[p] \in Late /\ Quit(p) /\ UNCHANGED overlap
        /\ file' = [state |-> mem[p], seal |-> seal[p]] \/ file' = Torn
        /\ accepted' = IF command[p].name = "accept" THEN Append(accepted, a) ELSE accepted
        /\ sent' = IF command[p].name = "send" THEN Append(sent, a) ELSE sent
    BY <1>10 DEF Write, Completed, Late
  <2>2. PICK l : l = "idle"
    OBVIOUS
  <2>3. /\ pc' = [pc EXCEPT ![p] = l] /\ mem' = [mem EXCEPT ![p] = None]
        /\ command' = [command EXCEPT ![p] = None]
    BY <2>1, <2>2 DEF Quit, Goto
  <2>4. Current(l, None, None, accepted', sent')
    BY <2>2 DEF Current, Late
  <2>5. ASSUME ~overlap
        PROVE  /\ accepted' \in Seq(Requests) /\ sent' \in Seq(Envelopes)
               /\ IsInjectiveSeq(accepted') /\ Remembers(mem[p], accepted', sent')
    <3>1. /\ accepted \in Seq(Requests) /\ sent \in Seq(Envelopes) /\ IsInjectiveSeq(accepted)
          /\ Current(pc[p], mem[p], command[p], accepted, sent)
      BY <2>5 DEF AloneOK
    <3>2. Remembers(mem[p], accepted, sent)
      BY <2>1, <3>1 DEF Current
    <3>3. CASE command[p].name = "accept"
      <4>0. a \notin Range(accepted) /\ a \in mem[p].accepted_request_ids
        BY <2>1, <3>1, <3>3 DEF Current
      <4>1. a \in Requests /\ a \notin Range(accepted) /\ a \in mem[p].accepted_request_ids
        BY <1>0, <2>1, <3>3, <4>0
      <4>2. /\ accepted' \in Seq(Requests) /\ IsInjectiveSeq(accepted')
            /\ Range(accepted') = Range(accepted) \cup {a}
        <5>1. accepted' = Append(accepted, a)
          BY <2>1, <3>3
        <5>2. /\ Append(accepted, a) \in Seq(Requests)
              /\ Range(Append(accepted, a)) = Range(accepted) \cup {a}
              /\ IsInjectiveSeq(accepted) /\ a \notin Range(accepted)
                    => IsInjectiveSeq(Append(accepted, a))
          <6> HIDE DEF a
          <6> QED
            BY <3>1, <4>1, AppendFacts
        <5> QED
          BY <3>1, <4>1, <5>1, <5>2
      <4> QED
        BY <2>1, <3>1, <3>2, <3>3, <4>1, <4>2 DEF Remembers
    <3>4. CASE command[p].name = "send"
      <4>1. a \in Envelopes /\ a \in Range(Kept(mem[p]))
        BY <2>1, <3>1, <3>4 DEF Current
      <4>2. sent' \in Seq(Envelopes) /\ Range(sent') = Range(sent) \cup {a}
        <5>1. sent' = Append(sent, a)
          BY <2>1, <3>4
        <5> QED
          BY <3>1, <4>1, <5>1, AppendFacts
      <4> QED
        BY <2>1, <3>1, <3>2, <3>4, <4>1, <4>2 DEF Remembers
    <3>5. CASE command[p].name \notin {"accept", "send"}
      BY <2>1, <3>1, <3>2, <3>5
    <3> QED
      BY <3>3, <3>4, <3>5
  <2>6. ~overlap => (Loadable(file') => Remembers(file'.state, accepted', sent'))
    <3>1. CASE file' = [state |-> mem[p], seal |-> seal[p]]
      <4>1. file'.state = mem[p]
        BY <3>1
      <4> QED
        BY <2>5, <4>1
    <3>2. CASE file' = Torn
      BY <3>2 DEF Loadable
    <3> QED
      BY <2>1, <3>1, <3>2
  <2> QED
    BY <2>1, <2>3, <2>4, <2>5, <2>6, AloneStep
<1>11. ASSUME NEW p \in Procs, Crash(p) PROVE AloneOK'
  <2>1. pc[p] # "idle" /\ Quit(p) /\ UNCHANGED history /\ (UNCHANGED file \/ ~Loadable(file'))
    BY <1>11 DEF Crash, Loadable
  <2> QED
    BY <2>1, AloneQuit
<1>12. CASE Tick \/ UNCHANGED vars
  BY <1>12 DEF Tick, vars, AloneOK, history
<1> QED
  BY <1>1, <1>2, <1>3, <1>4, <1>5, <1>5a, <1>6, <1>8, <1>9, <1>10, <1>11, <1>12 DEF Next

(* Commands that run one at a time never accept a request twice            *)
(* (ReplayRejected).                                                       *)
THEOREM ReplayTheorem == Spec => []ReplayRejected
<1>1. AloneOK => ReplayRejected
  BY DEF AloneOK, ReplayRejected
<1> QED
  BY <1>1, CopiesInit, CopiesNext, AloneInit, AloneNext, PTL DEF Spec

(* Commands that run one at a time lose no message whose send succeeded,   *)
(* and give no sequence number twice (StagedNotLost).                      *)
THEOREM StagedTheorem == Spec => []StagedNotLost
<1>1. CopiesOK /\ AloneOK => StagedNotLost
  BY DEF CopiesOK, FileOK, Consistent, AloneOK, Remembers, Kept, StagedNotLost
<1> QED
  BY <1>1, CopiesInit, CopiesNext, AloneInit, AloneNext, PTL DEF Spec

-----------------------------------------------------------------------------
(* Types: the numbers of a copy stay within what has been handed out.      *)

(* A copy of the state after n messages were sent.                         *)
Fits(s, n) ==
    /\ s.key \in 1 .. MaxKeys /\ s.next_seq \in 0 .. n
    /\ s.messages \in Seq(EnvelopeSet) /\ s.gossip \in Seq(EnvelopeSet)

FileFits == Loadable(file) => Fits(file.state, sends)

ProcFits(p) == IF pc[p] = "idle" THEN mem[p] = None ELSE Fits(mem[p], sends)

BoundsOK ==
    /\ clock \in 0 .. MaxTime /\ sends \in 0 .. MaxSends /\ keys \in 1 .. MaxKeys
    /\ todo \in [Procs -> SUBSET Recipients]
    /\ \A p \in Procs : ProcFits(p)
    /\ FileFits

(* A copy that fits still does after another message.                      *)
LEMMA FitsLater ==
    ASSUME NEW s, NEW n \in Nat, NEW k \in Nat, n <= k, Fits(s, n)
    PROVE  Fits(s, k)
<1>1. s.next_seq \in 0 .. k
  BY DEF Fits
<1> QED
  BY <1>1 DEF Fits

(* The initial state.                                                      *)
LEMMA BoundsInit == Init => BoundsOK
<1> SUFFICES ASSUME Init PROVE BoundsOK
  OBVIOUS
<1>1. <<>> \in Seq(EnvelopeSet)
  OBVIOUS
<1>2. MaxKeys \in Nat \ {0} /\ MaxSends \in Nat /\ MaxTime \in Nat
  BY ClientAssumption
<1>3. Fits(FirstState, 0)
  BY <1>1, <1>2 DEF Fits, FirstState
<1>4. FileFits
  BY <1>3 DEF Init, FileFits
<1>5. clock \in 0 .. MaxTime /\ sends \in 0 .. MaxSends /\ keys \in 1 .. MaxKeys
  BY <1>2 DEF Init
<1> QED
  BY <1>4, <1>5 DEF Init, BoundsOK, ProcFits

(* A step of process p: its new copy fits, and so does a new file.         *)
LEMMA BoundsStep ==
    ASSUME CopiesOK, BoundsOK, NEW p \in Procs, clock' = clock,
           sends' \in 0 .. MaxSends, sends <= sends', keys' \in 1 .. MaxKeys,
           NEW l, pc' = [pc EXCEPT ![p] = l],
           NEW m, mem' = [mem EXCEPT ![p] = m],
           IF l = "idle" THEN m = None ELSE Fits(m, sends'),
           NEW T \in SUBSET Recipients, todo' = [todo EXCEPT ![p] = T],
           UNCHANGED file \/ FileFits'
    PROVE  BoundsOK'
<1>1. sends \in Nat /\ sends' \in Nat
  BY DEF BoundsOK
<1>2. todo' \in [Procs -> SUBSET Recipients]
  BY DEF BoundsOK
<1>3. ASSUME NEW q \in Procs PROVE ProcFits(q)'
  <2>1. CASE q = p
    <3>1. pc'[p] = l /\ mem'[p] = m
      BY DEF CopiesOK
    <3> QED
      BY <2>1, <3>1 DEF ProcFits
  <2>2. CASE q # p
    <3>1. pc'[q] = pc[q] /\ mem'[q] = mem[q]
      BY <2>2 DEF CopiesOK
    <3>2. ProcFits(q)
      BY DEF BoundsOK
    <3> QED
      BY <1>1, <3>1, <3>2, FitsLater DEF ProcFits
  <2> QED
    BY <2>1, <2>2
<1>4. FileFits'
  <2>1. CASE UNCHANGED file
    <3>1. FileFits
      BY DEF BoundsOK
    <3> QED
      BY <1>1, <2>1, <3>1, FitsLater DEF FileFits, Loadable
  <2> QED
    BY <2>1
<1> QED
  BY <1>2, <1>3, <1>4 DEF BoundsOK

(* A process that ends has no copy any more.                               *)
LEMMA BoundsQuit ==
    ASSUME CopiesOK, BoundsOK, NEW p \in Procs, Quit(p), UNCHANGED env,
           UNCHANGED file \/ FileFits'
    PROVE  BoundsOK'
<1>1. /\ clock' = clock /\ sends' \in 0 .. MaxSends /\ sends <= sends' /\ keys' \in 1 .. MaxKeys
  BY DEF env, BoundsOK
<1>2. PICK T \in SUBSET Recipients : T = {}
  OBVIOUS
<1>3. PICK l : l = "idle"
  OBVIOUS
<1>4. /\ pc' = [pc EXCEPT ![p] = l] /\ mem' = [mem EXCEPT ![p] = None]
      /\ todo' = [todo EXCEPT ![p] = T]
  BY <1>2, <1>3 DEF Quit, Goto
<1> QED
  BY <1>1, <1>3, <1>4, BoundsStep

(* A command that goes on with a copy that fits, its todo left alone.      *)
LEMMA BoundsMove ==
    ASSUME CopiesOK, BoundsOK, NEW p \in Procs, NEW l, l # "idle", Goto(p, l),
           NEW s, Fits(s, sends), mem' = [mem EXCEPT ![p] = s], UNCHANGED todo,
           UNCHANGED <<clock, sends>>, keys' \in 1 .. MaxKeys, UNCHANGED file \/ FileFits'
    PROVE  BoundsOK'
<1>1. clock' = clock /\ sends' \in 0 .. MaxSends /\ sends <= sends' /\ Fits(s, sends')
  BY DEF BoundsOK
<1>2. PICK T \in SUBSET Recipients : T = todo[p]
  BY DEF BoundsOK
<1>3. todo' = [todo EXCEPT ![p] = T] /\ pc' = [pc EXCEPT ![p] = l]
  BY <1>2 DEF BoundsOK, Goto
<1> QED
  BY <1>1, <1>3, BoundsStep

(* Every step keeps the numbers within their bounds.                       *)
LEMMA BoundsNext == CopiesOK /\ BoundsOK /\ [Next]_vars => BoundsOK'
<1> SUFFICES ASSUME CopiesOK, BoundsOK, [Next]_vars PROVE BoundsOK'
  OBVIOUS
<1>0. /\ sends \in 0 .. MaxSends /\ keys \in 1 .. MaxKeys
      /\ MaxSends \in Nat /\ MaxKeys \in Nat /\ MaxTime \in Nat
      /\ \A p \in Procs : pc[p] # "idle" => mem[p] \in States /\ Fits(mem[p], sends)
  BY ClientAssumption DEF CopiesOK, ProcOK, BoundsOK, ProcFits
<1>1. ASSUME NEW p \in Procs, Load(p) PROVE BoundsOK'
  <2>1. Fits(file.state, sends)
    BY <1>1 DEF Load, BoundsOK, FileFits
  <2>2. /\ Goto(p, "loaded") /\ mem' = [mem EXCEPT ![p] = file.state]
        /\ UNCHANGED <<clock, sends, todo, file>> /\ keys' \in 1 .. MaxKeys
    BY <1>0, <1>1 DEF Load
  <2> QED
    BY <2>1, <2>2, BoundsMove
<1>2. ASSUME NEW p \in Procs, GrantAccept(p) PROVE BoundsOK'
  <2>1. pc[p] # "idle" /\ UNCHANGED env /\ UNCHANGED file
    BY <1>2 DEF GrantAccept
  <2>2. CASE Quit(p)
    BY <2>1, <2>2, BoundsQuit
  <2>3. CASE Succeed(p, Granted(mem[p], command[p].arg), "saving")
    <3>1. PICK s : s = Granted(mem[p], command[p].arg)
      OBVIOUS
    <3>2. /\ s.key = mem[p].key /\ s.next_seq = mem[p].next_seq
          /\ s.messages = mem[p].messages /\ s.gossip = mem[p].gossip
      BY <1>0, <2>1, <3>1 DEF Granted, States
    <3>3. Fits(s, sends)
      BY <1>0, <2>1, <3>2 DEF Fits
    <3>4. /\ Goto(p, "saving") /\ mem' = [mem EXCEPT ![p] = s]
          /\ UNCHANGED <<clock, sends, todo>> /\ keys' \in 1 .. MaxKeys
      BY <1>0, <2>1, <2>3, <3>1 DEF Succeed, env
    <3> QED
      BY <2>1, <3>3, <3>4, BoundsMove
  <2> QED
    BY <1>2, <2>2, <2>3 DEF GrantAccept
<1>3. ASSUME NEW p \in Procs, MsgSend(p) PROVE BoundsOK'
  <2>1. /\ pc[p] # "idle" /\ sends < MaxSends /\ sends' = sends + 1
        /\ UNCHANGED <<clock, file, keys>>
        /\ mem' = [mem EXCEPT ![p] = Sent(mem[p], Envelope(p))]
    BY <1>3 DEF MsgSend
  <2>2. sends' \in 0 .. MaxSends /\ sends <= sends' /\ sends' \in Nat /\ keys' \in 1 .. MaxKeys
    BY <1>0, <2>1
  <2>3. mem[p] \in States /\ Fits(mem[p], sends)
    BY <1>0, <2>1
  <2>4. PICK e : e = Envelope(p) /\ e \in EnvelopeSet
    <3>1. mem[p].next_seq \in 0 .. sends /\ mem[p].key \in 1 .. MaxKeys
      BY <2>3 DEF Fits
    <3>2. PICK i, q, k : /\ i = sends + 1 /\ q = mem[p].next_seq /\ k = mem[p].key
      OBVIOUS
    <3>3. i \in 1 .. MaxSends /\ q \in 0 .. MaxSends - 1 /\ k \in 1 .. MaxKeys
      BY <1>0, <2>1, <3>1, <3>2
    <3>4. Envelope(p) = [id |-> i, seq |-> q, key |-> k]
      BY <3>2 DEF Envelope
    <3>5. [id |-> i, seq |-> q, key |-> k] \in EnvelopeSet
      BY <3>3 DEF EnvelopeSet
    <3> QED
      BY <3>4, <3>5
  <2>5. PICK s : s = Sent(mem[p], e)
    OBVIOUS
  <2>6. /\ s.key = mem[p].key /\ s.next_seq = mem[p].next_seq + 1
        /\ s.messages = mem[p].messages /\ s.gossip = Append(mem[p].gossip, e)
    BY <2>3, <2>5 DEF Sent, States
  <2>7. Fits(s, sends')
    <3>1. /\ mem[p].next_seq \in 0 .. sends /\ mem[p].key \in 1 .. MaxKeys
          /\ mem[p].messages \in Seq(EnvelopeSet) /\ mem[p].gossip \in Seq(EnvelopeSet)
      BY <2>3 DEF Fits
    <3>2. s.next_seq \in 0 .. sends'
      BY <1>0, <2>1, <2>6, <3>1
    <3>3. Append(mem[p].gossip, e) \in Seq(EnvelopeSet)
      BY <2>4, <3>1, AppendFacts
    <3>4. s.gossip \in Seq(EnvelopeSet) /\ s.messages \in Seq(EnvelopeSet) /\ s.key \in 1 .. MaxKeys
      BY <2>6, <3>1, <3>3
    <3> QED
      BY <3>2, <3>4 DEF Fits
  <2>8. PICK l : l # "idle" /\ pc' = [pc EXCEPT ![p] = l]
    BY <1>3 DEF MsgSend, Goto
  <2>9. PICK T \in SUBSET Recipients : todo' = [todo EXCEPT ![p] = T]
    <3>1. todo = [todo EXCEPT ![p] = todo[p]] /\ todo[p] \in SUBSET Recipients
      BY DEF BoundsOK
    <3>2. todo' = [todo EXCEPT ![p] = Recipients] \/ todo' = todo
      BY <1>3 DEF MsgSend
    <3> QED
      BY <3>1, <3>2
  <2>10. mem' = [mem EXCEPT ![p] = s] /\ clock' = clock /\ UNCHANGED file
    BY <2>1, <2>4, <2>5
  <2> QED
    BY <2>2, <2>7, <2>8, <2>9, <2>10, BoundsStep
<1>4. ASSUME NEW p \in Procs, InboxPoll(p) PROVE BoundsOK'
  <2>1. pc[p] # "idle" /\ UNCHANGED env /\ UNCHANGED file
    BY <1>4 DEF InboxPoll
  <2>2. CASE Quit(p)
    BY <2>1, <2>2, BoundsQuit
  <2>3. CASE Succeed(p, Received(mem[p]), "saving")
    <3>1. PICK s : s = Received(mem[p])
      OBVIOUS
    <3>2. PICK a, b : /\ a = mem[p].messages /\ b = mem[p].gossip
                      /\ a \in Seq(EnvelopeSet) /\ b \in Seq(EnvelopeSet)
      BY <1>0, <2>1 DEF Fits
    <3>3. /\ s.key = mem[p].key /\ s.next_seq = mem[p].next_seq
          /\ s.messages = a \o b /\ s.gossip = <<>>
      BY <1>0, <2>1, <3>1, <3>2 DEF Received, States
    <3>4. a \o b \in Seq(EnvelopeSet) /\ <<>> \in Seq(EnvelopeSet)
      BY <3>2
    <3>5. Fits(s, sends)
      BY <1>0, <2>1, <3>3, <3>4 DEF Fits
    <3>6. /\ Goto(p, "saving") /\ mem' = [mem EXCEPT ![p] = s]
          /\ UNCHANGED <<clock, sends, todo>> /\ keys' \in 1 .. MaxKeys
      BY <1>0, <2>1, <2>3, <3>1 DEF Succeed, env
    <3> QED
      BY <2>1, <3>5, <3>6, BoundsMove
  <2> QED
    BY <1>4, <2>2, <2>3 DEF InboxPoll
<1>5. ASSUME NEW p \in Procs, RotateKey(p) PROVE BoundsOK'
  <2>1. /\ pc[p] # "idle" /\ keys < MaxKeys /\ keys' = keys + 1
        /\ Succeed(p, [mem[p] EXCEPT !.key = keys + 1], "saving") /\ UNCHANGED <<clock, file, sends>>
    BY <1>5 DEF RotateKey
  <2>2. PICK s : s = [mem[p] EXCEPT !.key = keys + 1]
    OBVIOUS
  <2>3. /\ s.key = keys + 1 /\ s.next_seq = mem[p].next_seq
        /\ s.messages = mem[p].messages /\ s.gossip = mem[p].gossip
    BY <1>0, <2>1, <2>2 DEF States
  <2>4. keys' \in 1 .. MaxKeys /\ s.key \in 1 .. MaxKeys
    BY <1>0, <2>1, <2>3
  <2>5. Fits(s, sends)
    BY <1>0, <2>1, <2>3, <2>4 DEF Fits
  <2>6. /\ Goto(p, "saving") /\ mem' = [mem EXCEPT ![p] = s] /\ UNCHANGED <<clock, sends, todo>>
    BY <2>1, <2>2 DEF Succeed
  <2> QED
    BY <2>1, <2>4, <2>5, <2>6, BoundsMove
<1>6. ASSUME NEW p \in Procs, NEW l, l # "idle", pc[p] # "idle", Goto(p, l),
             UNCHANGED <<env, mem, todo>>, UNCHANGED file \/ FileFits'
      PROVE  BoundsOK'
  <2>1. /\ mem' = [mem EXCEPT ![p] = mem[p]] /\ Fits(mem[p], sends)
        /\ UNCHANGED <<clock, sends>> /\ keys' \in 1 .. MaxKeys
    BY <1>0, <1>6 DEF CopiesOK, env
  <2> QED
    BY <1>6, <2>1, BoundsMove
<1>7. ASSUME NEW p \in Procs, Other(p) PROVE BoundsOK'
  <2>1. pc[p] # "idle" /\ UNCHANGED env /\ UNCHANGED file
    BY <1>7 DEF Other
  <2>2. CASE Quit(p)
    BY <2>1, <2>2, BoundsQuit
  <2>3. CASE Succeed(p, mem[p], "saving")
    <3>1. Goto(p, "saving") /\ UNCHANGED todo /\ mem' = [mem EXCEPT ![p] = mem[p]]
      BY <2>3 DEF Succeed
    <3>2. UNCHANGED mem
      BY <3>1 DEF CopiesOK
    <3> QED
      BY <1>6, <2>1, <3>1, <3>2
  <2> QED
    BY <1>7, <2>2, <2>3 DEF Other
<1>8. ASSUME NEW p \in Procs, Publish(p) PROVE BoundsOK'
  <2>1. PICK T \in SUBSET Recipients : todo' = [todo EXCEPT ![p] = T]
    <3>1. PICK r \in todo[p] : todo' = [todo EXCEPT ![p] = todo[p] \ {r}]
      BY <1>8 DEF Publish
    <3> QED
      BY <3>1 DEF BoundsOK
  <2>2. PICK l : l = pc[p] /\ l # "idle"
    BY <1>8 DEF Publish
  <2>3. /\ clock' = clock /\ sends' \in 0 .. MaxSends /\ sends <= sends' /\ keys' \in 1 .. MaxKeys
        /\ UNCHANGED file /\ Fits(mem[p], sends')
    BY <1>0, <1>8, <2>2 DEF Publish, env
  <2>4. pc' = [pc EXCEPT ![p] = l] /\ mem' = [mem EXCEPT ![p] = mem[p]]
    BY <1>8, <2>2 DEF Publish, CopiesOK
  <2> QED
    BY <2>1, <2>2, <2>3, <2>4, BoundsStep
<1>9. ASSUME NEW p \in Procs, PublishDone(p) PROVE BoundsOK'
  BY <1>6, <1>9 DEF PublishDone
<1>10. ASSUME NEW p \in Procs, PublishFails(p) PROVE BoundsOK'
  BY <1>10, BoundsQuit DEF PublishFails
<1>11. ASSUME NEW p \in Procs, Seal(p) PROVE BoundsOK'
  <2>1. /\ pc[p] # "idle" /\ (Goto(p, "sealed") \/ Goto(p, "making"))
        /\ UNCHANGED <<env, mem, todo, file>>
    BY <1>11 DEF Seal
  <2> QED
    BY <1>6, <2>1
<1>12. ASSUME NEW p \in Procs, MakeKey(p) PROVE BoundsOK'
  BY <1>6, <1>12 DEF MakeKey
<1>13. ASSUME NEW p \in Procs, Truncate(p) PROVE BoundsOK'
  <2>1. FileFits'
    BY <1>13 DEF Truncate, FileFits, Loadable
  <2> QED
    BY <1>6, <1>13, <2>1 DEF Truncate
<1>14. ASSUME NEW p \in Procs, Write(p) PROVE BoundsOK'
  <2>1. pc[p] # "idle" /\ Quit(p) /\ UNCHANGED env
    BY <1>14 DEF Write
  <2>2. file' = [state |-> mem[p], seal |-> seal[p]] \/ file' = Torn
    BY <1>14 DEF Write
  <2>3. Fits(mem[p], sends')
    BY <1>0, <2>1 DEF env
  <2>4. FileFits'
    BY <2>2, <2>3 DEF FileFits, Loadable
  <2> QED
    BY <2>1, <2>4, BoundsQuit
<1>15. ASSUME NEW p \in Procs, Crash(p) PROVE BoundsOK'
  <2>1. Quit(p) /\ UNCHANGED env /\ (UNCHANGED file \/ file' = Torn)
    BY <1>15 DEF Crash
  <2>2. file' = Torn => FileFits'
    BY DEF FileFits, Loadable
  <2> QED
    BY <2>1, <2>2, BoundsQuit
<1>16. CASE Tick
  <2>1. clock \in 0 .. MaxTime
    BY DEF BoundsOK
  <2>2. clock' \in 0 .. MaxTime /\ UNCHANGED <<file, pc, mem, todo, sends, keys>>
    BY <1>0, <1>16, <2>1 DEF Tick
  <2> QED
    BY <2>2 DEF BoundsOK, ProcFits, FileFits, Loadable
<1>17. CASE UNCHANGED vars
  BY <1>17 DEF vars, env, BoundsOK, ProcFits, FileFits, Loadable
<1> QED
  BY <1>1, <1>2, <1>3, <1>4, <1>5, <1>7, <1>8, <1>9, <1>10, <1>11, <1>12, <1>13, <1>14, <1>15,
     <1>16, <1>17 DEF Next

(* Types of ClientState: a copy's next_seq never passes the number of      *)
(* messages sent, its key is one that was made, and the file is sealed     *)
(* with a key that was made too (TypeOK).                                  *)
THEOREM ClientTypes == Spec => []TypeOK
<1>1. CopiesOK /\ BoundsOK => TypeOK
  <2> SUFFICES ASSUME CopiesOK, BoundsOK PROVE TypeOK
    OBVIOUS
  <2>1. sends \in 0 .. MaxSends /\ MaxSends \in Nat
    BY ClientAssumption DEF BoundsOK
  <2>2. ASSUME NEW s \in States, Fits(s, sends) PROVE StateSet(s)
    <3>1. s.next_seq \in 0 .. MaxSends
      BY <2>1, <2>2 DEF Fits
    <3>2. s.accepted_request_ids \subseteq Requests /\ s.grants \in Seq(Requests)
      BY DEF States
    <3> QED
      BY <2>2, <3>1, <3>2 DEF Fits, StateSet
  <2>3. Loadable(file) => StateSet(file.state) /\ file.seal.key <= made
    <3> SUFFICES ASSUME Loadable(file) PROVE StateSet(file.state) /\ file.seal.key <= made
      OBVIOUS
    <3>1. file.state \in States /\ Fits(file.state, sends) /\ file.seal \in Seals /\ made \in Nat
      BY DEF CopiesOK, FileOK, BoundsOK, FileFits
    <3>2. file.seal.key <= made
      BY <3>1 DEF Seals, Plain, Passphrase, Raw
    <3> QED
      BY <2>2, <3>1, <3>2
  <2>4. \A p \in Procs : IF pc[p] = "idle" THEN mem[p] = None ELSE StateSet(mem[p])
    BY <2>2 DEF CopiesOK, ProcOK, BoundsOK, ProcFits
  <2> QED
    BY <2>3, <2>4 DEF TypeOK, CopiesOK, BoundsOK, Phases
<1> QED
  BY <1>1, CopiesInit, CopiesNext, BoundsInit, BoundsNext, PTL DEF Spec

=============================================================================
