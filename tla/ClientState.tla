---------------------------- MODULE ClientState ----------------------------
(***************************************************************************)
(* Command-line clients that share one state file (spex-cli main.rs and    *)
(* spex-client lib.rs).  Every command loads the whole file, works on its  *)
(* copy, may publish to the bridge, and writes the whole copy back at the  *)
(* very end; an error on the way ends the process without a save.  Nothing *)
(* locks the file, and writing it truncates it first.  The file is sealed  *)
(* with a passphrase, if the command's environment names one, or with a    *)
(* key of the system's keychain, which the first command that needs it     *)
(* makes; the keychain is external.                                        *)
(*                                                                         *)
(* A plain file of an earlier version is there from the beginning, with an *)
(* identity and a thread.  A message is staged once for the other members, *)
(* whose inbox a later poll reads.                                         *)
(***************************************************************************)
EXTENDS Integers, FiniteSets, Sequences, Functions

CONSTANTS
    Procs,
    Requests,           \* request tokens addressed to this identity
    CreatedAt,          \* CreatedAt[r]: created_at of a request
    Proven,             \* requests whose puzzle is valid and bound to them
    Recipients,         \* bridge inboxes of the other members
    MaxAge, MaxSkew,    \* RequestPowPolicy
    None, Empty, Torn,  \* no value; a truncated file; a damaged file
    MaxRuns, MaxSends, MaxKeys, MaxTime     \* bounds of the model

ASSUME ClientAssumption ==
    /\ CreatedAt \in [Requests -> Nat] /\ Proven \subseteq Requests
    /\ {MaxAge, MaxSkew, MaxRuns, MaxSends, MaxTime} \subseteq Nat /\ MaxKeys \in Nat \ {0}

VARIABLES
    clock,      \* now_unix()
    file,       \* the state file: [state, seal], Empty or Torn
    keychain,   \* the keychain's key, 0 when it has no entry
    made,       \* keys made for the keychain so far
    pc,         \* pc[p]: where the process of a command is
    command,    \* command[p]: [name, arg, pass], pass: a passphrase is named
    mem,        \* mem[p]: its copy of the state
    seal,       \* seal[p]: what it seals the file with
    todo,       \* todo[p]: recipients it has not published to
    bridge,     \* envelopes the bridge holds, with their recipient
    runs, sends, keys,      \* commands, messages and keys so far
    accepted,   \* history: requests of grant-accept commands that succeeded
    sent,       \* history: envelopes of send commands that succeeded
    overlap     \* history: whether two commands have run at the same time

env == <<clock, runs, sends, keys>>
chain == <<keychain, made>>
history == <<accepted, sent, overlap>>
vars == <<env, file, chain, pc, command, mem, seal, todo, bridge, history>>

(* A LocalState, as far as these commands use it: the signing key of the   *)
(* identity, the replay cache, the grants, the thread's next_seq and       *)
(* received messages, and the staged manifests.                            *)
FirstState ==
    [key |-> 1, accepted_request_ids |-> {}, grants |-> <<>>, next_seq |-> 0,
     messages |-> <<>>, gossip |-> <<>>]

Loadable(f) == f \notin {Empty, Torn}

(* How a file is sealed: kdf, and the key if it is one of the keychain's.  *)
Plain == [kdf |-> "plain", key |-> 0]
Passphrase == [kdf |-> "argon2id", key |-> 0]
Raw(k) == [kdf |-> "raw", key |-> k]

(* parse_encrypted_state_file and decrypt_state_file: what the file says   *)
(* decides where the key comes from.                                       *)
Unseals(s, pass) ==
    \/ s = Plain
    \/ s = Passphrase /\ pass
    \/ s.kdf = "raw" /\ s.key = keychain

Init ==
    /\ clock = 0 /\ runs = 0 /\ sends = 0 /\ keys = 1
    /\ file = [state |-> FirstState, seal |-> Plain]
    /\ keychain = 0 /\ made = 0
    /\ pc = [p \in Procs |-> "idle"]
    /\ command = [p \in Procs |-> None]
    /\ mem = [p \in Procs |-> None]
    /\ seal = [p \in Procs |-> Plain]
    /\ todo = [p \in Procs |-> {}]
    /\ bridge = {} /\ accepted = <<>> /\ sent = <<>> /\ overlap = FALSE

Goto(p, l) == pc' = [pc EXCEPT ![p] = l]

(* The process ends, by an error or a crash, without a save.               *)
Quit(p) ==
    /\ Goto(p, "idle")
    /\ command' = [command EXCEPT ![p] = None]
    /\ mem' = [mem EXCEPT ![p] = None]
    /\ seal' = [seal EXCEPT ![p] = Plain]
    /\ todo' = [todo EXCEPT ![p] = {}]

-----------------------------------------------------------------------------
(* load_state; a file that does not parse or open fails the command at     *)
(* once.                                                                   *)
Load(p) ==
    /\ pc[p] = "idle" /\ runs < MaxRuns
    /\ runs' = runs + 1
    /\ Loadable(file)
    /\ Goto(p, "loaded")
    /\ mem' = [mem EXCEPT ![p] = file.state]
    /\ \E c \in {[name |-> "accept", arg |-> r] : r \in Requests}
                  \cup {[name |-> n, arg |-> None] : n \in {"send", "poll", "rotate", "other"}},
          pass \in BOOLEAN :
          /\ Unseals(file.seal, pass)
          /\ command' = [command EXCEPT ![p] = [name |-> c.name, arg |-> c.arg, pass |-> pass]]
    /\ overlap' = (overlap \/ \E q \in Procs \ {p} : pc[q] # "idle")
    /\ UNCHANGED <<clock, file, chain, seal, todo, bridge, sends, keys, accepted, sent>>

(* The command succeeded on the copy; it goes on to publish or to save.    *)
Succeed(p, state, l) ==
    /\ mem' = [mem EXCEPT ![p] = state]
    /\ Goto(p, l)
    /\ UNCHANGED <<command, seal, todo>>

Fresh(r) == CreatedAt[r] <= clock + MaxSkew /\ clock - CreatedAt[r] <= MaxAge

MayAccept_ReplayUnchecked(state, r) == Fresh(r) /\ r \in Proven

(* accept_request_for_state_with_policy.  Variants of a name each hold one *)
(* mistake the properties must detect.                                     *)
MayAccept(state, r) == Fresh(r) /\ r \in Proven /\ r \notin state.accepted_request_ids

Granted_IdForgotten(state, r) == [state EXCEPT !.grants = Append(@, r)]

Granted(state, r) ==
    [state EXCEPT !.grants = Append(@, r), !.accepted_request_ids = @ \cup {r}]

GrantAccept(p) ==
    LET r == command[p].arg
    IN  /\ pc[p] = "loaded" /\ command[p].name = "accept"
        /\ IF MayAccept(mem[p], r)
           THEN Succeed(p, Granted(mem[p], r), "saving")
           ELSE Quit(p)
        /\ UNCHANGED <<env, file, chain, bridge, history>>

Envelope(p) == [id |-> sends + 1, seq |-> mem[p].next_seq, key |-> mem[p].key]

Sent_SkipsNumber(state, e) == [state EXCEPT !.next_seq = @ + 2, !.gossip = Append(@, e)]

(* send_thread_message_for_state: take a sequence number and stage.        *)
Sent(state, e) == [state EXCEPT !.next_seq = @ + 1, !.gossip = Append(@, e)]

(* The envelope goes to the bridge's recipients, or nowhere when the       *)
(* command names no bridge.                                                *)
MsgSend(p) ==
    /\ pc[p] = "loaded" /\ command[p].name = "send" /\ sends < MaxSends
    /\ sends' = sends + 1
    /\ mem' = [mem EXCEPT ![p] = Sent(mem[p], Envelope(p))]
    /\ command' = [command EXCEPT ![p].arg = Envelope(p)]
    /\ \/ /\ todo' = [todo EXCEPT ![p] = Recipients]
          /\ Goto(p, "publishing")
       \/ /\ Goto(p, "saving")
          /\ UNCHANGED todo
    /\ UNCHANGED <<clock, file, chain, seal, bridge, runs, keys, history>>

(* publish_via_bridge, one recipient after the other.                      *)
Publish(p) ==
    /\ pc[p] = "publishing" /\ todo[p] # {}
    /\ \E r \in todo[p] :
          /\ bridge' = bridge \cup {[to |-> r, envelope |-> command[p].arg]}
          /\ todo' = [todo EXCEPT ![p] = @ \ {r}]
    /\ UNCHANGED <<env, file, chain, pc, command, mem, seal, history>>

PublishDone(p) ==
    /\ pc[p] = "publishing" /\ todo[p] = {}
    /\ Goto(p, "saving")
    /\ UNCHANGED <<env, file, chain, command, mem, seal, todo, bridge, history>>

(* An item the bridge refuses, or whose answer is lost, fails the command. *)
PublishFails(p) ==
    /\ pc[p] = "publishing" /\ todo[p] # {}
    /\ Quit(p)
    /\ UNCHANGED <<env, file, chain, bridge, history>>

Verifies(state, e) == e.key = state.key

Received_Dropped(state) == [state EXCEPT !.gossip = <<>>]

Received(state) == [state EXCEPT !.messages = @ \o state.gossip, !.gossip = <<>>]

(* receive_transport_messages and record_inbox_messages: one envelope that *)
(* does not verify fails the whole poll.                                   *)
InboxPoll(p) ==
    /\ pc[p] = "loaded" /\ command[p].name = "poll"
    /\ IF \A n \in DOMAIN mem[p].gossip : Verifies(mem[p], mem[p].gossip[n])
       THEN Succeed(p, Received(mem[p]), "saving")
       ELSE Quit(p)
    /\ UNCHANGED <<env, file, chain, bridge, history>>

(* rotate_identity_in_state.                                               *)
RotateKey(p) ==
    /\ pc[p] = "loaded" /\ command[p].name = "rotate" /\ keys < MaxKeys
    /\ keys' = keys + 1
    /\ Succeed(p, [mem[p] EXCEPT !.key = keys + 1], "saving")
    /\ UNCHANGED <<clock, file, chain, bridge, runs, sends, history>>

(* The commands that change nothing modelled here (contacts, requests,     *)
(* threads, the checkpoint log) or nothing at all: they save all the same, *)
(* unless they fail.                                                       *)
Other(p) ==
    /\ pc[p] = "loaded" /\ command[p].name = "other"
    /\ Succeed(p, mem[p], "saving") \/ Quit(p)
    /\ UNCHANGED <<env, file, chain, bridge, history>>

-----------------------------------------------------------------------------
(* encrypt_state_file; resolve_state_key_source prefers the passphrase.    *)
(* resolve_keychain_key looks for an entry first.                          *)
Seal(p) ==
    /\ pc[p] = "saving"
    /\ IF command[p].pass \/ keychain # 0
       THEN /\ seal' = [seal EXCEPT ![p] = IF command[p].pass THEN Passphrase ELSE Raw(keychain)]
            /\ Goto(p, "sealed")
       ELSE /\ Goto(p, "making")
            /\ UNCHANGED seal
    /\ UNCHANGED <<env, file, chain, command, mem, todo, bridge, history>>

MakeKey_NotStored(p) ==
    /\ pc[p] = "making"
    /\ made' = made + 1
    /\ seal' = [seal EXCEPT ![p] = Raw(made + 1)]
    /\ Goto(p, "sealed")
    /\ UNCHANGED <<env, file, keychain, command, mem, todo, bridge, history>>

(* resolve_keychain_key found no entry: it sets a new one, over whatever   *)
(* another process may have set since.                                     *)
MakeKey(p) ==
    /\ pc[p] = "making"
    /\ made' = made + 1 /\ keychain' = made + 1
    /\ seal' = [seal EXCEPT ![p] = Raw(made + 1)]
    /\ Goto(p, "sealed")
    /\ UNCHANGED <<env, file, command, mem, todo, bridge, history>>

(* save_state: fs::write truncates the file, then writes it.  Two writers  *)
(* that both truncated leave the later copy, or a mixture.                 *)
Truncate(p) ==
    /\ pc[p] = "sealed"
    /\ file' = Empty
    /\ Goto(p, "writing")
    /\ UNCHANGED <<env, chain, command, mem, seal, todo, bridge, history>>

Completed(p) ==
    /\ accepted' = IF command[p].name = "accept" THEN Append(accepted, command[p].arg) ELSE accepted
    /\ sent' = IF command[p].name = "send" THEN Append(sent, command[p].arg) ELSE sent
    /\ UNCHANGED overlap

Write(p) ==
    /\ pc[p] = "writing"
    /\ LET copy == [state |-> mem[p], seal |-> seal[p]]
       IN  file' \in IF file = Empty THEN {copy} ELSE {copy, Torn}
    /\ Completed(p)
    /\ Quit(p)
    /\ UNCHANGED <<env, chain, bridge>>

(* The process is killed; in the middle of a write the file stays as it is *)
(* or is damaged.                                                          *)
Crash(p) ==
    /\ pc[p] # "idle"
    /\ file' \in IF pc[p] = "writing" THEN {file, Torn} ELSE {file}
    /\ Quit(p)
    /\ UNCHANGED <<env, chain, bridge, history>>

Tick ==
    /\ clock < MaxTime
    /\ clock' = clock + 1
    /\ UNCHANGED <<file, chain, pc, command, mem, seal, todo, bridge, runs, sends, keys, history>>

Next ==
    \/ \E p \in Procs :
          \/ Load(p) \/ GrantAccept(p) \/ MsgSend(p) \/ InboxPoll(p) \/ RotateKey(p) \/ Other(p)
          \/ Publish(p) \/ PublishDone(p) \/ PublishFails(p)
          \/ Seal(p) \/ MakeKey(p) \/ Truncate(p) \/ Write(p) \/ Crash(p)
    \/ Tick

Spec == Init /\ [][Next]_vars

-----------------------------------------------------------------------------
EnvelopeSet == [id: 1 .. MaxSends, seq: 0 .. MaxSends - 1, key: 1 .. MaxKeys]

StateSet(s) ==
    /\ s.key \in 1 .. MaxKeys /\ s.accepted_request_ids \subseteq Requests
    /\ s.grants \in Seq(Requests) /\ s.next_seq \in 0 .. MaxSends
    /\ s.messages \in Seq(EnvelopeSet) /\ s.gossip \in Seq(EnvelopeSet)

(* A process has a copy of the state exactly while it runs a command.      *)
TypeOK ==
    /\ clock \in 0 .. MaxTime
    /\ Loadable(file) => StateSet(file.state) /\ file.seal.key <= made
    /\ keychain \in {0, made}
    /\ pc \in [Procs -> {"idle", "loaded", "publishing", "saving", "making", "sealed", "writing"}]
    /\ \A p \in Procs : IF pc[p] = "idle" THEN mem[p] = None ELSE StateSet(mem[p])
    /\ todo \in [Procs -> SUBSET Recipients]

IsInjectiveSeq(s) == \A m, n \in DOMAIN s : s[m] = s[n] => m = n

(* A file that loads holds one grant for each request in its replay cache  *)
(* and for no other, whatever processes raced to write it.                 *)
GrantsMatchIds ==
    Loadable(file) =>
        /\ IsInjectiveSeq(file.state.grants)
        /\ Range(file.state.grants) = file.state.accepted_request_ids

(* As long as commands run one at a time, every message whose send         *)
(* succeeded is waiting or was received, once and under a sequence number  *)
(* of its own, through failed publications, kills and rotated keys.        *)
StagedNotLost ==
    ~overlap /\ Loadable(file) =>
        LET kept == file.state.messages \o file.state.gossip
        IN  /\ Range(sent) \subseteq Range(kept)
            /\ \A m, n \in DOMAIN kept : kept[m].seq = kept[n].seq => m = n

(* A state file that was written whole opens for a command with the same   *)
(* environment as the one that wrote it, through kills at any moment and   *)
(* changes between passphrase and keychain, as long as no two processes    *)
(* have made a key for the keychain (resolve_keychain_key): only such a    *)
(* race can lock the state away.                                           *)
SealedStateOpens ==
    made <= 1 /\ Loadable(file) => Unseals(file.seal, file.seal.kdf = "argon2id")

(* "Stateful acceptance persists normalized request identifiers and        *)
(* rejects exact replay before creating another grant": as long as         *)
(* commands run one at a time, no request is accepted by two commands that *)
(* succeed.                                                                *)
ReplayRejected == ~overlap => IsInjectiveSeq(accepted)
=============================================================================
