---------------------------- MODULE Conversation ----------------------------
(***************************************************************************)
(* Clients that talk in one thread: ThreadCommits composed with the        *)
(* identities that sign, the contact cards that carry their keys, and the  *)
(* two ways to an inbox, the bridge and the peer-to-peer network           *)
(* (spex-client lib.rs, spex-cli main.rs, spex-transport inbox.rs).        *)
(*                                                                         *)
(* A command runs alone and saves at its end: one that fails leaves the    *)
(* client as it was, but not what it has published so far.  ClientState    *)
(* has the interleavings inside a command, Bridge and InboxScan those of   *)
(* the bridge, ChunkTransport those of the network.                        *)
(***************************************************************************)
EXTENDS ThreadCommits

CONSTANTS
    Ttl,            \* ttl of a published item
    None,           \* no contact
    MaxKeys,        \* bounds of the model: keys of a client,
    MaxTime,        \* the clock,
    MaxOut,         \* letters under way at a time,
    Rotating,       \* the clients that rotate their identity
    Polling         \* and those that redeem cards and poll

ASSUME ConversationAssumption ==
    /\ Ttl \in Nat \ {0}
    /\ None \notin Nat
    /\ MaxKeys \in Nat \ {0} /\ {MaxTime, MaxOut} \subseteq Nat
    /\ Rotating \cup Polling \subseteq Clients

VARIABLES
    clock,      \* now of the bridge
    key,        \* key[c]: the signing key of c's identity, numbered per client
    contacts,   \* contacts[c][d]: the key c has on file for d, or None
    bridge,     \* items of the bridge that have not expired
    gossip,     \* payloads that can be recovered from the network
    received    \* received[c]: letters recorded in c's thread

people == <<key, contacts>>
post == <<bridge, gossip>>
allVars == <<vars, clock, people, post, received>>

(* Inbox keys: a user id, hashed n times.                                  *)
Seed(c) == <<c, 0>>
Hashed(k) == <<k[1], k[2] + 1>>

(* create_identity, and a thread whose members do not know each other yet. *)
StartInit ==
    /\ Init
    /\ clock = 0
    /\ key = [c \in Clients |-> 1]
    /\ contacts = [c \in Clients |-> [d \in Clients \ {c} |-> None]]
    /\ bridge = {} /\ gossip = {}
    /\ received = [c \in Clients |-> {}]

(* Membership commits, as in ThreadCommits.                                *)
Commit ==
    /\ \/ \E kind \in {"add", "remove"}, m \in Members : Issue(kind, m)
       \/ \E c \in Clients : \E k \in DOMAIN issued : ApplyCommit(c, k)
    /\ UNCHANGED <<clock, people, post, received>>

(* rotate_identity_in_state, as far as others notice it.                   *)
Rotate(c) ==
    /\ key[c] < MaxKeys
    /\ key' = [key EXCEPT ![c] = @ + 1]
    /\ UNCHANGED <<vars, clock, contacts, post, received>>

(* redeem_contact_card_to_state: a card d made with any key it has had so  *)
(* far replaces what is on file; a changed key is reported, not refused.   *)
(* Cards are those build_contact_card makes, without invite or extension:  *)
(* parse_contact_card reads neither, so a signature over one is refused.   *)
Redeem(c, d) ==
    /\ \E k \in 1 .. key[d] : contacts' = [contacts EXCEPT ![c][d] = k]
    /\ UNCHANGED <<vars, clock, key, post, received>>

-----------------------------------------------------------------------------
(* Sending.                                                                *)

(* What build_envelope signs; basis is history: the commits the sender had *)
(* applied.                                                                *)
Letter(c) == [envelope |-> Sealed(c), key |-> key[c], basis |-> applied[c]]

(* inbox_keys_for_thread.                                                  *)
Addressees(c) == Range(thread[c].members) \ {c}

(* Variants of a name each hold one mistake the properties must detect.    *)
OnBridge_PlainKey(c, to) ==
    {[inbox |-> Seed(m), letter |-> Letter(c), expires_at |-> clock + Ttl, to |-> m] : m \in to}

(* publish_via_bridge, for each addressee in to: the item is stored under  *)
(* the hash of the user id; to is history.                                 *)
OnBridge(c, to) ==
    {[inbox |-> Hashed(Seed(m)), letter |-> Letter(c), expires_at |-> clock + Ttl, to |-> m] : m \in to}

(* publish_to_inboxes announces on topics named by the hash of the user id. *)
OnTopics(c, to) == {[inbox |-> Hashed(Seed(m)), letter |-> Letter(c), to |-> m] : m \in to}

(* Letters under way.                                                      *)
Out == {i.letter : i \in bridge} \cup {i.letter : i \in gossip}

(* msg send to the bridge, the network, both or neither.                   *)
Send(c) ==
    /\ Cardinality(Out) < MaxOut
    /\ SendMessage(c)
    /\ \E viaBridge, viaPeers \in {{}, Addressees(c)} :
          /\ bridge' = bridge \cup OnBridge(c, viaBridge)
          /\ gossip' = gossip \cup OnTopics(c, viaPeers)
    /\ UNCHANGED <<clock, people, received>>

(* msg send that fails on the way: the bridge comes first, addressee by    *)
(* addressee, and what is out stays out; the sender's state is not saved.  *)
SendFails(c) ==
    /\ Cardinality(Out) < MaxOut
    /\ \/ \E to \in SUBSET Addressees(c) :
             bridge' = bridge \cup OnBridge(c, to) /\ UNCHANGED gossip
       \/ \E viaBridge \in {{}, Addressees(c)}, to \in SUBSET Addressees(c) :
             /\ bridge' = bridge \cup OnBridge(c, viaBridge)
             /\ gossip' = gossip \cup OnTopics(c, to)
    /\ UNCHANGED <<vars, clock, people, received>>

-----------------------------------------------------------------------------
(* Receiving.                                                              *)

(* resolve_sender_verifying_key.                                           *)
KeyOnFile(c, d) == IF d = c THEN key[c] ELSE contacts[c][d]

(* decrypt_thread_envelope.                                                *)
Readable(c, letter) ==
    /\ letter.envelope.sender \in Range(thread[c].members)
    /\ letter.key = KeyOnFile(c, letter.envelope.sender)
    /\ Opens(thread[c], letter.envelope)

(* ingest_inbox_payloads, or receive_inbox_messages with                   *)
(* record_inbox_messages: one letter that cannot be read fails the command *)
(* and nothing is recorded.                                                *)
Ingest(c, letters) ==
    /\ \A l \in letters : Readable(c, l)
    /\ received' = [received EXCEPT ![c] = @ \cup letters]
    /\ UNCHANGED <<vars, clock, people, post>>

(* BridgeClient::scan_inbox asks for the key as it is given.  An inbox the *)
(* bridge does not know is an error, which records nothing either.         *)
Scanned(k) == {item.letter : item \in {i \in bridge : i.inbox = k}}

(* recover_payloads_for_inbox asks for the hash of the key.                *)
Recoverable(k) == {g.letter : g \in {i \in gossip : i.inbox = Hashed(k)}}

(* The keys a user can give to inbox poll for their inbox.                 *)
InboxKeys(c) == {Seed(c), Hashed(Seed(c))}

(* inbox poll --bridge-url, and recover_payloads_with_fallback when the    *)
(* network fails or gives nothing.  Nothing is staged locally under the    *)
(* client's own keys, so receive_inbox_messages goes to the bridge.        *)
PollBridge(c, k) == Ingest(c, Scanned(k))

(* inbox poll --p2p: some of what is out there arrives in time.            *)
PollPeers(c, k) == \E letters \in (SUBSET Recoverable(k)) \ {{}} : Ingest(c, letters)

(* Time passes; load_inbox_items leaves out what has expired.              *)
Tick ==
    /\ clock < MaxTime
    /\ clock' = clock + 1
    /\ bridge' = {i \in bridge : i.expires_at > clock'}
    /\ UNCHANGED <<vars, people, gossip, received>>

Talk ==
    \/ Commit
    \/ \E c \in Clients : Send(c) \/ SendFails(c)
    \/ \E c \in Rotating : Rotate(c)
    \/ \E c \in Polling :
          \/ \E d \in Clients \ {c} : Redeem(c, d)
          \/ \E k \in InboxKeys(c) : PollBridge(c, k) \/ PollPeers(c, k)
    \/ Tick

TalkSpec == StartInit /\ [][Talk]_allVars

-----------------------------------------------------------------------------
LetterSet(l) ==
    /\ l.envelope.sender \in Clients /\ l.key \in 1 .. MaxKeys
    /\ Range(l.basis) \subseteq DOMAIN issued

(* Keys, contacts, items and recorded letters have their types, and a      *)
(* contact never has a key on file its owner has not had.                  *)
TalkTypeOK ==
    /\ TypeOK
    /\ clock \in 0 .. MaxTime /\ key \in [Clients -> 1 .. MaxKeys]
    /\ \A c \in Clients : \A d \in Clients \ {c} : contacts[c][d] \in {None} \cup 1 .. key[d]
    /\ \A i \in bridge : LetterSet(i.letter) /\ i.expires_at > clock
    /\ \A g \in gossip : LetterSet(g.letter)
    /\ \A c \in Clients : \A l \in received[c] : LetterSet(l)

(* A letter under way can be read by every client that has applied exactly *)
(* the commits its sender had applied and has the sender's key of that     *)
(* time on file, whatever happened to the thread's epoch and to either     *)
(* client since it was sealed (encrypt_and_chunk_message,                  *)
(* decrypt_thread_envelope).                                               *)
LettersReadable ==
    \A l \in Out :
        \A c \in Clients :
            LET d == l.envelope.sender
            IN  /\ applied[c] = l.basis
                /\ d \in Range(thread[c].members)
                /\ KeyOnFile(c, d) = l.key
                => Readable(c, l)

(* What publish_via_bridge has stored for a client and has not expired,    *)
(* and what publish_to_inboxes has announced to it.                        *)
Waiting(c) == {i.letter : i \in {j \in bridge : j.to = c}}
Announced(c) == {g.letter : g \in {h \in gossip : h.to = c}}

(* A client that asks the bridge for the hash of its user id and the       *)
(* network for the user id itself finds all the letters published to it    *)
(* that have not expired and no others, whoever sent them and however the  *)
(* sending command ended (publish_via_bridge, scan_inbox,                  *)
(* recover_payloads_for_inbox).                                            *)
PollFindsPublished ==
    \A c \in Clients : /\ Scanned(Hashed(Seed(c))) = Waiting(c)
                       /\ Recoverable(Seed(c)) = Announced(c)

(* "Recovers inbox payloads via P2P manifests, falling back to the HTTP    *)
(* bridge if needed": there is one key a client can give to inbox poll     *)
(* that finds what was announced to it on the network and, by the          *)
(* fallback, what waits for it on the bridge                               *)
(* (recover_payloads_with_fallback).                                       *)
FallbackFindsPublished ==
    \A c \in Clients :
        \E k \in InboxKeys(c) : Recoverable(k) = Announced(c) /\ Scanned(k) = Waiting(c)
=============================================================================
