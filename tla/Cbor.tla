-------------------------------- MODULE Cbor --------------------------------
(***************************************************************************)
(* The canonical CBOR encoder of spex-core cbor.rs.  A value is a record   *)
(* with one field that tells its variant; a map is a sequence of pairs, as *)
(* in ciborium.  Left out are floats and tags, which no SPEX structure     *)
(* uses, and integers of more than 31 bits.                                *)
(***************************************************************************)
EXTENDS Integers, FiniteSets, Sequences, SequencesExt

Null == [simple |-> 22]
Bool(b) == [simple |-> IF b THEN 21 ELSE 20]
Integer(n) == [int |-> n]
Bytes(s) == [bytes |-> s]
Text(s) == [text |-> s]
Array(s) == [array |-> s]
Map(s) == [map |-> s]

BigEndian(n, width) == [i \in 1 .. width |-> (n \div 256^(width - i)) % 256]

(* The head of a value, in the fewest bytes.                               *)
encode_u64(major, n) ==
    CASE n \in 0 .. 23 -> <<major + n>>
      [] n \in 24 .. 255 -> <<major + 24>> \o BigEndian(n, 1)
      [] n \in 256 .. 65535 -> <<major + 25>> \o BigEndian(n, 2)
      [] OTHER -> <<major + 26>> \o BigEndian(n, 4)

encode_integer(n) == IF n >= 0 THEN encode_u64(0, n) ELSE encode_u64(32, -1 - n)

(* Shorter keys first, keys of one length byte by byte.                    *)
KeyBefore(left, right) ==
    \/ Len(left) < Len(right)
    \/ /\ Len(left) = Len(right)
       /\ \E i \in DOMAIN left :
             left[i] < right[i] /\ \A j \in 1 .. i - 1 : left[j] = right[j]

RECURSIVE encode_value(_)
encode_value(v) ==
    LET all(s) == FlattenSeq([i \in DOMAIN s |-> encode_value(s[i])])
        pairs == [i \in DOMAIN v.map |-> <<encode_value(v.map[i][1]), encode_value(v.map[i][2])>>]
        sorted == SortSeq(pairs, LAMBDA p, q : KeyBefore(p[1], q[1]))
    IN  CASE DOMAIN v = {"simple"} -> <<224 + v.simple>>
          [] DOMAIN v = {"int"}    -> encode_integer(v.int)
          [] DOMAIN v = {"bytes"}  -> encode_u64(64, Len(v.bytes)) \o v.bytes
          [] DOMAIN v = {"text"}   -> encode_u64(96, Len(v.text)) \o v.text
          [] DOMAIN v = {"array"}  -> encode_u64(128, Len(v.array)) \o all(v.array)
          [] DOMAIN v = {"map"}    ->
                encode_u64(160, Len(v.map)) \o FlattenSeq([i \in DOMAIN sorted |-> sorted[i][1] \o sorted[i][2]])

ctap2_canonical_value_bytes(v) == encode_value(v)

(* The map of fields with small numbers as keys that the to_cbor_value     *)
(* functions build: a function from numbers to values, in a BTreeMap.      *)
FieldMap(fields) ==
    LET below(k) == {j \in DOMAIN fields : j < k}
        nth(i) == CHOOSE k \in DOMAIN fields : Cardinality(below(k)) = i - 1
    IN  Map([i \in 1 .. Cardinality(DOMAIN fields) |-> <<Integer(nth(i)), fields[nth(i)]>>])
=============================================================================
