------------------------------ MODULE WireTypes ------------------------------
(***************************************************************************)
(* The structures of spex-core types.rs and log.rs as CBOR values: maps    *)
(* with field numbers as keys, in which an absent option has no field and  *)
(* an extension takes the place of a field with its number.                *)
(***************************************************************************)
EXTENDS Cbor, TLC

CONSTANT None       \* an absent option

NoExtensions == <<>>

Optional(key, option, value) == IF option = None THEN <<>> ELSE key :> value

GrantTokenValue(g) ==
    FieldMap(g.extensions
             @@ 0 :> Bytes(g.user_id) @@ 1 :> Integer(g.role)
             @@ Optional(2, g.flags, Integer(g.flags))
             @@ Optional(3, g.expires_at, Integer(g.expires_at)))

InviteTokenValue(i) ==
    FieldMap(i.extensions
             @@ 0 :> Integer(i.major) @@ 1 :> Integer(i.minor) @@ 2 :> Bool(i.requires_puzzle))

ContactCardValue(c) ==
    FieldMap(c.extensions
             @@ 0 :> Bytes(c.user_id) @@ 1 :> Bytes(c.verifying_key)
             @@ 2 :> Bytes(c.device_id) @@ 3 :> Bytes(c.device_nonce)
             @@ 4 :> Integer(c.issued_at)
             @@ Optional(5, c.invite, InviteTokenValue(c.invite))
             @@ Optional(6, c.signature, Bytes(c.signature)))

ThreadConfigValue(t) ==
    FieldMap(t.extensions
             @@ 0 :> Integer(t.proto_major) @@ 1 :> Integer(t.proto_minor)
             @@ 2 :> Integer(t.ciphersuite_id) @@ 3 :> Integer(t.flags)
             @@ 4 :> Bytes(t.thread_id)
             @@ 5 :> Array([n \in DOMAIN t.grants |-> GrantTokenValue(t.grants[n])]))

EnvelopeValue(e) ==
    FieldMap(e.extensions
             @@ 0 :> Bytes(e.thread_id) @@ 1 :> Integer(e.epoch) @@ 2 :> Integer(e.seq)
             @@ 3 :> Bytes(e.sender_user_id) @@ 4 :> Bytes(e.ciphertext)
             @@ Optional(5, e.signature, Bytes(e.signature)))

-----------------------------------------------------------------------------
(* Reading.  Values that do not fit give None, the error.                  *)

(* The fields of a map whose keys are different integers.                  *)
Fields(map) ==
    LET at(k) == CHOOSE n \in DOMAIN map : map[n][1] = Integer(k)
    IN  [k \in {map[n][1].int : n \in DOMAIN map} |-> map[at(k)][2]]

IsBytes(v) == DOMAIN v = {"bytes"}
IsUnsigned(v) == DOMAIN v = {"int"} /\ v.int >= 0

(* EnvelopeVisitor::visit_map; what is not a field is an extension.        *)
visit_map(map) ==
    LET f == Fields(map)
        has(k) == k \in DOMAIN f
    IN  IF /\ \A k \in DOMAIN f : k >= 0
           /\ \A k \in {0, 3, 4} : has(k) /\ IsBytes(f[k])
           /\ \A k \in {1, 2} : has(k) /\ IsUnsigned(f[k])
           /\ has(5) => IsBytes(f[5])
        THEN [thread_id |-> f[0].bytes, epoch |-> f[1].int, seq |-> f[2].int,
              sender_user_id |-> f[3].bytes, ciphertext |-> f[4].bytes,
              signature |-> IF has(5) THEN f[5].bytes ELSE None,
              extensions |-> [k \in {i \in DOMAIN f : i > 5} |-> f[k]]]
        ELSE None

(* parse_contact_card: absent fields are empty, and neither an invite nor  *)
(* an extension is read.                                                   *)
parse_contact_card(map) ==
    LET f == Fields(map)
        has(k) == k \in DOMAIN f
        bytes(k) == IF has(k) THEN f[k].bytes ELSE <<>>
    IN  IF /\ \A k \in {0, 1, 2, 3, 6} : has(k) => IsBytes(f[k])
           /\ has(4) => IsUnsigned(f[4])
           /\ bytes(0) # <<>> /\ bytes(1) # <<>>
        THEN [user_id |-> bytes(0), verifying_key |-> bytes(1), device_id |-> bytes(2),
              device_nonce |-> bytes(3), issued_at |-> IF has(4) THEN f[4].int ELSE 0,
              invite |-> None, signature |-> IF has(6) THEN f[6].bytes ELSE None,
              extensions |-> NoExtensions]
        ELSE None

(* Signatures are ideal: the key that signs, followed by what it signs.    *)
sign_contact_card(key, card) == key \o ctap2_canonical_value_bytes(ContactCardValue(card))

build_contact_card(identity, now) ==
    LET card == [user_id |-> identity.user_id, verifying_key |-> identity.verifying_key,
                 device_id |-> identity.device_id, device_nonce |-> identity.device_nonce,
                 issued_at |-> now, invite |-> None, signature |-> None,
                 extensions |-> NoExtensions]
    IN  [card EXCEPT !.signature = sign_contact_card(identity.verifying_key, card)]

verify_contact_card_signature(card) ==
    card.signature = sign_contact_card(card.verifying_key, [card EXCEPT !.signature = None])

(* redeem_contact_card_payload: the card, or None for an error.            *)
redeem_contact_card_payload(map) ==
    LET card == parse_contact_card(map)
    IN  IF card = None THEN None
        ELSE IF card.signature = None \/ verify_contact_card_signature(card) THEN card
        ELSE None

-----------------------------------------------------------------------------
(* CheckpointEntry: [type, of].                                            *)

KeyCheckpointValue(k) ==
    FieldMap(0 :> Bytes(k.user_id) @@ 1 :> Bytes(k.verifying_key)
             @@ 2 :> Bytes(k.device_id) @@ 3 :> Integer(k.issued_at))

RecoveryKeyValue(r) ==
    FieldMap(0 :> Bytes(r.user_id) @@ 1 :> Bytes(r.recovery_key) @@ 2 :> Integer(r.issued_at))

(* Variants of a name each hold one mistake the properties must detect.    *)
RevocationValue_ReasonAsHash(r) ==
    FieldMap(0 :> Bytes(r.user_id) @@ 1 :> Bytes(r.revoked_key_hash) @@ 2 :> Integer(r.revoked_at)
             @@ Optional(3, r.recovery_key_hash, Bytes(r.recovery_key_hash))
             @@ Optional(3, r.reason, Bytes(r.reason)))

RevocationValue(r) ==
    FieldMap(0 :> Bytes(r.user_id) @@ 1 :> Bytes(r.revoked_key_hash) @@ 2 :> Integer(r.revoked_at)
             @@ Optional(3, r.recovery_key_hash, Bytes(r.recovery_key_hash))
             @@ Optional(4, r.reason, Text(r.reason)))

CheckpointEntryValue(e) ==
    FieldMap(CASE e.type = "Key"        -> 0 :> Integer(0) @@ 1 :> KeyCheckpointValue(e.of)
               [] e.type = "Recovery"   -> 0 :> Integer(1) @@ 1 :> RecoveryKeyValue(e.of)
               [] e.type = "Revocation" -> 0 :> Integer(2) @@ 1 :> RevocationValue(e.of))

(* What is hashed for an entry.                                            *)
CheckpointEntryBytes(e) == ctap2_canonical_value_bytes(CheckpointEntryValue(e))
=============================================================================
