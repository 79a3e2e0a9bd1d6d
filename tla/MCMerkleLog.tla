----------------------------- MODULE MCMerkleLog -----------------------------
(* Entries of all types that differ in one field, in the type of a field,  *)
(* or in a number's width; and the encoders against the test vectors of    *)
(* the repository (spex-core test_vectors.rs, ctap2_cbor_vectors.rs).      *)
EXTENDS MerkleLog, WireTypes

KeyAt(t) ==
    [type |-> "Key",
     of |-> [user_id |-> <<1>>, verifying_key |-> <<2>>, device_id |-> <<3>>, issued_at |-> t]]

Revoked(recovery, reason) ==
    [type |-> "Revocation",
     of |-> [user_id |-> <<1>>, revoked_key_hash |-> <<2>>, revoked_at |-> 24,
             recovery_key_hash |-> recovery, reason |-> reason]]

MCEntries ==
    {KeyAt(24), KeyAt(280),
     [type |-> "Recovery", of |-> [user_id |-> <<1>>, recovery_key |-> <<2>>, issued_at |-> 24]],
     Revoked(<<7>>, None), Revoked(None, <<7>>)}

Encoded == [e \in MCEntries |-> CheckpointEntryBytes(e)]

MCEncoding == Encoded

Symmetry == Permutations(Holders)

(* The incremental root of logs longer than those of the run.              *)
ASSUME LongRootsCanonical ==
    \A n \in 0 .. 9 :
        LET entries == [i \in 1 .. n |-> IF i % 3 = 0 THEN KeyAt(280) ELSE KeyAt(24)]
        IN  MerkleRoot(Rebuilt(entries)) = CanonicalRoot(entries)

-----------------------------------------------------------------------------
Repeated(byte, n) == [i \in 1 .. n |-> byte]

Nibbles == [i \in 1 .. 16 |-> 17 * (i - 1)]

(* TV1: a thread configuration with two grants.                            *)
Tv1Config ==
    [proto_major |-> 1, proto_minor |-> 0, ciphersuite_id |-> 1, flags |-> 1,
     thread_id |-> Nibbles \o Nibbles, extensions |-> NoExtensions,
     grants |-> <<[user_id |-> Repeated(161, 20), role |-> 1, flags |-> 7,
                   expires_at |-> None, extensions |-> NoExtensions],
                  [user_id |-> Repeated(178, 20), role |-> 2, flags |-> None,
                   expires_at |-> 1, extensions |-> NoExtensions]>>]

ASSUME Tv1Bytes ==
    ctap2_canonical_value_bytes(ThreadConfigValue(Tv1Config)) =
        <<166, 0, 1, 1, 0, 2, 1, 3, 1, 4, 88, 32>>
        \o Nibbles \o Nibbles \o <<5, 130, 163, 0, 84>>
        \o Repeated(161, 20) \o <<1, 1, 2, 7, 163, 0, 84>>
        \o Repeated(178, 20) \o <<1, 2, 3, 1>>

(* TV2: a contact card with an invite and an extension, not signed.        *)
Tv2Key ==
    <<215, 90, 152, 1, 130, 177, 10, 183, 213, 75, 254, 211, 201, 100, 7, 58,
      14, 225, 114, 243, 218, 166, 35, 37, 175, 2, 26, 104, 247, 7, 81, 26>>

Tv2Card ==
    [user_id |-> Repeated(161, 20), verifying_key |-> Tv2Key, device_id |-> Repeated(12, 16),
     device_nonce |-> <<1, 166, 118, 179>>, issued_at |-> 1735080576, signature |-> None,
     invite |-> [major |-> 1, minor |-> 2, requires_puzzle |-> TRUE, extensions |-> NoExtensions],
     extensions |-> 6 :> Bytes(<<222, 173, 190, 239, 202, 254, 186, 190>>)]

ASSUME Tv2Bytes ==
    ctap2_canonical_value_bytes(ContactCardValue(Tv2Card)) =
        <<167, 0, 84>>
        \o Repeated(161, 20) \o <<1, 88, 32>>
        \o Tv2Key \o <<2, 80>>
        \o Repeated(12, 16) \o <<3, 68, 1, 166, 118, 179, 4, 26, 103, 107, 58, 128>>
        \o <<5, 163, 0, 1, 1, 2, 2, 245, 6, 72, 222, 173, 190, 239, 202, 254, 186, 190>>

(* An envelope is read back as it was written, also with extensions.       *)
ASSUME EnvelopesReadBack ==
    \A e \in [thread_id: {<<1>>}, epoch: {1, 24}, seq: {0, 256}, sender_user_id: {<<1>>},
              ciphertext: {<<>>, <<2, 3>>}, signature: {None, <<4>>},
              extensions: {NoExtensions, 6 :> Integer(1), 24 :> Null @@ 256 :> Text(<<5>>)}] :
        visit_map(EnvelopeValue(e).map) = e

(* Cards as build_contact_card makes them, and with an invite that is      *)
(* signed as well.                                                         *)
Identities ==
    [user_id: {<<1>>}, verifying_key: {<<2>>}, device_id: {<<>>, <<3>>}, device_nonce: {<<4>>}]

Inviting(card, invite) ==
    LET unsigned == [card EXCEPT !.invite = invite, !.signature = None]
    IN  [unsigned EXCEPT !.signature = sign_contact_card(card.verifying_key, unsigned)]

(* A card is redeemed as it was made.  One with a signed invite, which the *)
(* wire format provides for, is refused: parse_contact_card leaves the     *)
(* invite out and the signature does not verify without it.                *)
ASSUME CardsRedeemed ==
    \A id \in Identities, now \in {0, 24} :
        LET card == build_contact_card(id, now)
        IN  /\ redeem_contact_card_payload(ContactCardValue(card).map) = card
            /\ redeem_contact_card_payload(
                  ContactCardValue(Inviting(card, Tv2Card.invite)).map) = None
=============================================================================
