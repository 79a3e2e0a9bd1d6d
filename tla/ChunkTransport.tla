--------------------------- MODULE ChunkTransport ---------------------------
(***************************************************************************)
(* Delivery of a payload over the P2P network (spex-transport chunking.rs, *)
(* transport.rs and p2p.rs): a sender cuts it into chunks, stores them in  *)
(* the DHT under their hashes and gossips a manifest on the topic of every *)
(* recipient's inbox; a receiver collects manifests, queries the DHT for   *)
(* the chunks and puts the payloads together.                              *)
(*                                                                         *)
(* A payload is a sequence of chunk contents and its total_len counts      *)
(* chunks.  The hash of a content is the content itself, so no two         *)
(* contents collide; Blank is the empty value of replicate_manifest.       *)
(* The DHT and gossip are external: records are lost, manifests lost,      *)
(* repeated and reordered, queries answered in any order or not at all.    *)
(***************************************************************************)
EXTENDS Integers, FiniteSets, Sequences, Functions

CONSTANTS
    Payloads,       \* sequences of contents that may be published
    Inboxes,
    Blank,          \* the empty record value
    None,
    max_retries,    \* of AdaptiveRetryConfig
    MaxPublished,   \* bounds of the model: payloads announced,
    MaxHeard        \* messages collected by one recovery

ASSUME TransportAssumption ==
    /\ {max_retries, MaxPublished, MaxHeard} \subseteq Nat
    /\ \A p \in Payloads : p \in Seq(Range(p)) /\ {Blank, None} \cap Range(p) = {}
    /\ IsFiniteSet(Inboxes)

VARIABLES
    sending,    \* publish_to_inboxes under way: [payload, left, attempts], or None
    acked,      \* payloads whose publish_to_inboxes returned Ok
    records,    \* DHT records [key, value]
    gossip,     \* messages [inbox, payload] sent, the manifest named by its payload
    subscribed, \* topics the receiver has subscribed to
    inbox,      \* inbox of the recovery under way, or None
    phase,      \* "listening", "choosing" the next manifest, "fetching"
    heard,      \* messages collected; None is one that does not parse
    pending,    \* indices of the chunks with a query outstanding
    retries,    \* retries[h] for the hashes of the manifest
    store,      \* records fetched and verified
    recovered   \* messages whose payload is put together

sender == <<sending, acked>>
network == <<records, gossip>>
session == <<subscribed, inbox>>
query == <<pending, retries, store>>
receiver == <<session, phase, heard, query, recovered>>
vars == <<sender, network, receiver>>

Contents == UNION {Range(p) : p \in Payloads}

-----------------------------------------------------------------------------
(* Chunks and manifests.                                                   *)

Hash(value) == value

chunk_data(payload) ==
    [n \in DOMAIN payload |-> [index |-> n, hash |-> Hash(payload[n]), data |-> payload[n]]]

ManifestOf(payload) ==
    [chunks |-> [n \in DOMAIN payload |-> [index |-> n, hash |-> chunk_data(payload)[n].hash]],
     total_len |-> Len(payload)]

Hashes(m) == {m.chunks[n].hash : n \in DOMAIN m.chunks}

(* Variants of a name each hold one mistake the properties must detect.    *)
validate_manifest_HashesUnchecked(m) ==
    /\ m.chunks = <<>> => m.total_len = 0
    /\ \A i, j \in DOMAIN m.chunks : i # j => m.chunks[i].index # m.chunks[j].index

(* validate_manifest: no index and no hash occurs twice.                   *)
validate_manifest(m) ==
    /\ m.chunks = <<>> => m.total_len = 0
    /\ \A i, j \in DOMAIN m.chunks :
          i # j => /\ m.chunks[i].index # m.chunks[j].index
                   /\ m.chunks[i].hash # m.chunks[j].hash

(* recover_chunks_from_store: the content of chunk d, if it is there and   *)
(* has the hash.                                                           *)
Found(s, d) == {r \in s : r.key = d.hash /\ Hash(r.value) = d.hash}

Reassembled_Partial(m, s) ==
    IF validate_manifest(m)
    THEN LET got == SelectSeq(m.chunks, LAMBDA d : Found(s, d) # {})
         IN  [n \in DOMAIN got |-> (CHOOSE r \in Found(s, got[n]) : TRUE).value]
    ELSE None

(* reassemble_payload_from_store: every chunk, ordered by index, and the   *)
(* length checked.  None is an error.                                      *)
Reassembled(m, s) ==
    IF /\ validate_manifest(m)
       /\ \A n \in DOMAIN m.chunks : Found(s, m.chunks[n]) # {}
       /\ Len(m.chunks) = m.total_len
    THEN LET Chunk(n) == CHOOSE d \in Range(m.chunks) : d.index = n
         IN  [n \in DOMAIN m.chunks |-> (CHOOSE r \in Found(s, Chunk(n)) : TRUE).value]
    ELSE None

-----------------------------------------------------------------------------
Init ==
    /\ sending = None /\ acked = {}
    /\ records = {} /\ gossip = {}
    /\ subscribed = {} /\ inbox = None
    /\ phase = "listening" /\ heard = <<>>
    /\ pending = {} /\ retries = <<>> /\ store = {}
    /\ recovered = <<>>

ChunkRecords(m) == {[key |-> h, value |-> h] : h \in Hashes(m)}

Known == {g.payload : g \in gossip}

(* publish_to_inboxes: store the chunks, then announce inbox by inbox.     *)
StartPublish(payload, inboxes) ==
    /\ sending = None
    /\ payload \notin Known /\ Cardinality(Known) < MaxPublished
    /\ sending' = [payload |-> payload, left |-> inboxes, attempts |-> 0]
    /\ records' = records \cup ChunkRecords(ManifestOf(payload))
    /\ UNCHANGED <<acked, gossip, receiver>>

(* The list the caller passes, in some order.                              *)
InboxList == CHOOSE s \in Bijection(1 .. Cardinality(Inboxes), Inboxes) : TRUE

NextInbox == sending' = [sending EXCEPT !.left = Tail(@), !.attempts = 0]

PublishManifest ==
    /\ sending # None /\ sending.left # <<>>
    /\ gossip' = gossip \cup {[inbox |-> Head(sending.left), payload |-> sending.payload]}
    /\ NextInbox
    /\ UNCHANGED <<acked, records, receiver>>

NoSubscribers_Skipped ==
    /\ sending # None /\ sending.left # <<>>
    /\ NextInbox
    /\ UNCHANGED <<acked, network, receiver>>

(* NoPeersSubscribedToTopic: try again, or give the whole call up.         *)
NoSubscribers ==
    /\ sending # None /\ sending.left # <<>>
    /\ sending' = IF sending.attempts < max_retries
                  THEN [sending EXCEPT !.attempts = @ + 1]
                  ELSE None
    /\ UNCHANGED <<acked, network, receiver>>

(* The deadline has passed, another publish error, or persist_state fails  *)
(* when all is announced: no retry.                                        *)
PublishFails ==
    /\ sending # None
    /\ sending' = None
    /\ UNCHANGED <<acked, network, receiver>>

PublishDone ==
    /\ sending # None /\ sending.left = <<>>
    /\ acked' = acked \cup {sending.payload}
    /\ sending' = None
    /\ UNCHANGED <<network, receiver>>

(* replicate_manifest announces the chunks with empty records;             *)
(* passive_replicate_chunks and renew_chunk_ttl store them again.          *)
Replicate(m) ==
    /\ records' \in {records \cup {[key |-> h, value |-> Blank] : h \in Hashes(m)},
                     records \cup ChunkRecords(m)}
    /\ UNCHANGED <<sender, gossip, receiver>>

(* A record reaches its record_ttl or its holder leaves.                   *)
Expire ==
    /\ \E r \in records : records' = records \ {r}
    /\ UNCHANGED <<sender, gossip, receiver>>

-----------------------------------------------------------------------------
(* recover_payloads_for_inbox subscribes to the topic of the inbox; no     *)
(* subscription is ever withdrawn.                                         *)
Listen(i) ==
    /\ phase = "listening" /\ inbox = None
    /\ inbox' = i
    /\ subscribed' = subscribed \cup {i}
    /\ UNCHANGED <<sender, network, phase, heard, query, recovered>>

(* A message arrives.  Outside this loop nobody takes it and it is lost.   *)
HearMessage ==
    /\ phase = "listening" /\ inbox # None /\ Len(heard) < MaxHeard
    /\ \E g \in {g \in gossip : g.inbox \in subscribed} \cup {None} : heard' = Append(heard, g)
    /\ UNCHANGED <<sender, network, session, phase, query, recovered>>

(* The deadline has passed: go through the messages one by one.            *)
StopListening ==
    /\ phase = "listening" /\ inbox # None
    /\ phase' = "choosing"
    /\ UNCHANGED <<sender, network, session, heard, query, recovered>>

(* A message that does not parse as a manifest is skipped.                 *)
SkipMessage ==
    /\ phase = "choosing" /\ heard # <<>> /\ Head(heard) = None
    /\ heard' = Tail(heard)
    /\ UNCHANGED <<sender, network, session, phase, query, recovered>>

manifest == ManifestOf(Head(heard).payload)

(* fetch_manifest_chunks: a query for each chunk.                          *)
StartFetch ==
    /\ phase = "choosing" /\ heard # <<>> /\ Head(heard) # None
    /\ phase' = "fetching"
    /\ pending' = DOMAIN manifest.chunks
    /\ retries' = [h \in Hashes(manifest) |-> 0]
    /\ store' = {}
    /\ UNCHANGED <<sender, network, session, heard, recovered>>

(* extract_records: a record with the wrong content is dropped.            *)
Verified(r) == IF Hash(r.value) = r.key THEN {r} ELSE {}

(* FoundRecord ends the query, whatever was found.  The chunk need not be  *)
(* pending: a query goes on after its first record, and after the fetch    *)
(* that began it.                                                          *)
FoundRecord ==
    /\ phase = "fetching" /\ pending # {}
    /\ \E r \in records, n \in DOMAIN manifest.chunks :
          /\ r.key = manifest.chunks[n].hash
          /\ store' = store \cup Verified(r)
          /\ pending' = pending \ {n}
    /\ UNCHANGED <<sender, network, session, phase, heard, retries, recovered>>

FinishedWithNoRecord_OffByOne ==
    /\ phase = "fetching"
    /\ \E n \in pending :
          LET h == manifest.chunks[n].hash
          IN  IF retries[h] <= max_retries
              THEN retries' = [retries EXCEPT ![h] = @ + 1] /\ UNCHANGED pending
              ELSE pending' = pending \ {n} /\ UNCHANGED retries
    /\ UNCHANGED <<sender, network, session, phase, heard, store, recovered>>

FinishedWithNoRecord_CountRestarts ==
    /\ phase = "fetching"
    /\ \E n \in pending :
          LET h == manifest.chunks[n].hash
          IN  retries' = [retries EXCEPT ![h] = (@ + 1) % (max_retries + 1)]
    /\ UNCHANGED <<sender, network, session, phase, heard, pending, store, recovered>>

(* FinishedWithNoAdditionalRecord: query again while retries are left.     *)
FinishedWithNoRecord ==
    /\ phase = "fetching"
    /\ \E n \in pending :
          LET h == manifest.chunks[n].hash
          IN  IF retries[h] < max_retries
              THEN retries' = [retries EXCEPT ![h] = @ + 1] /\ UNCHANGED pending
              ELSE pending' = pending \ {n} /\ UNCHANGED retries
    /\ UNCHANGED <<sender, network, session, phase, heard, store, recovered>>

(* A query that ends in an error, or without a record after the deadline,  *)
(* is not tried again.                                                     *)
QueryFailed ==
    /\ phase = "fetching"
    /\ \E n \in pending : pending' = pending \ {n}
    /\ UNCHANGED <<sender, network, session, phase, heard, retries, store, recovered>>

NextManifest ==
    /\ phase' = "choosing"
    /\ heard' = Tail(heard)
    /\ pending' = {} /\ retries' = <<>> /\ store' = {}

(* The query deadline passes with queries outstanding.                     *)
FetchTimesOut ==
    /\ phase = "fetching" /\ pending # {}
    /\ NextManifest
    /\ UNCHANGED <<sender, network, session, recovered>>

(* All queries have ended: put the payload together or skip the manifest.  *)
Reassemble ==
    /\ phase = "fetching" /\ pending = {}
    /\ LET payload == Reassembled(manifest, store)
       IN  recovered' = IF payload = None
                        THEN recovered
                        ELSE Append(recovered, [Head(heard) EXCEPT !.payload = payload])
    /\ NextManifest
    /\ UNCHANGED <<sender, network, session>>

(* The recovery returns its payloads.                                      *)
Return ==
    /\ phase = "choosing" /\ heard = <<>>
    /\ phase' = "listening" /\ inbox' = None /\ recovered' = <<>>
    /\ UNCHANGED <<sender, network, subscribed, heard, query>>

Answered == FoundRecord \/ FinishedWithNoRecord \/ QueryFailed
Announced == PublishManifest \/ NoSubscribers

Sender == Announced \/ PublishDone
Receiver == StopListening \/ SkipMessage \/ StartFetch \/ Answered \/ Reassemble \/ Return

Next ==
    \/ \E p \in Payloads : StartPublish(p, InboxList)
    \/ Sender \/ PublishFails
    \/ \E p \in Known : Replicate(ManifestOf(p))
    \/ Expire
    \/ \E i \in Inboxes : Listen(i)
    \/ Receiver \/ HearMessage \/ FetchTimesOut

Spec == Init /\ [][Next]_vars

(* Every Kademlia query makes progress until it ends (libp2p gives each    *)
(* one a timeout), gossipsub answers a publish at once, and both nodes run *)
(* on.  Nothing is assumed of the deadlines of a fetch and of a publish:   *)
(* the first is looked at only after an event.                             *)
FairSpec == Spec /\ WF_vars(Sender) /\ WF_vars(Receiver)

-----------------------------------------------------------------------------
(* The queries are for chunks of the manifest at hand, and none is tried   *)
(* again more often than max_retries allows.                               *)
TypeOK ==
    /\ sending = None \/ /\ sending.payload \in Payloads
                         /\ Range(sending.left) \subseteq Inboxes
                         /\ sending.attempts \in 0 .. max_retries
    /\ acked \subseteq Payloads
    /\ records \subseteq [key: Contents, value: Contents \cup {Blank}]
    /\ gossip \subseteq [inbox: Inboxes, payload: Payloads]
    /\ Range(heard) \subseteq gossip \cup {None}
    /\ inbox \in subscribed \cup {None} /\ subscribed \subseteq Inboxes
    /\ phase \in {"listening", "choosing", "fetching"}
    /\ pending # {} => pending \subseteq DOMAIN manifest.chunks
    /\ store \subseteq records \cup [key: DOMAIN retries, value: Contents]
    /\ \A h \in DOMAIN retries : retries[h] \in 0 .. max_retries

(* Whatever is lost, repeated, reordered or blank, a payload that is       *)
(* returned is one that was announced, complete and in order, on a topic   *)
(* this receiver has asked for, if not always for the inbox at hand.       *)
RecoveredWasPublished ==
    \A r \in Range(recovered) : r \in gossip /\ r.inbox \in subscribed

(* publish_to_inboxes returns Ok only when the manifest is out for every   *)
(* inbox, although it meets the inboxes one by one and may fail at each.   *)
AckedIsAnnounced ==
    \A p \in acked, i \in Inboxes : [inbox |-> i, payload |-> p] \in gossip

(* A payload whose chunks have all been fetched and verified is put        *)
(* together again, in every order of answers, except when two of its       *)
(* chunks are equal: chunk_data makes a manifest for it that               *)
(* validate_manifest refuses.                                              *)
FetchedIsReassembled ==
    phase = "fetching" /\ ChunkRecords(manifest) \subseteq store
        => LET payload == Head(heard).payload
           IN  Reassembled(manifest, store) = IF IsInjective(payload) THEN payload ELSE None

(* recover_payloads_for_inbox returns although fetch_manifest_chunks looks *)
(* at its deadline only when an event arrives, and publish_to_inboxes      *)
(* returns although nobody ever subscribes.                                *)
CallsReturn ==
    /\ inbox # None ~> inbox = None
    /\ sending # None ~> sending = None
=============================================================================
