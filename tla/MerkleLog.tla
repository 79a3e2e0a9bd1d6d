----------------------------- MODULE MerkleLog ------------------------------
(***************************************************************************)
(* CheckpointLog of spex-core log.rs: an append-only list of entries with  *)
(* a Merkle root that is computed incrementally.  The frontier keeps, for  *)
(* every level, the root of a complete subtree or nothing; it is not       *)
(* serialized, so it may be missing, and it is trusted whenever its leaf   *)
(* count equals the number of entries.                                     *)
(*                                                                         *)
(* Hashing is ideal: the hash of a leaf or a node is the term itself.      *)
(* What is hashed for a leaf is the canonical encoding of the entry, which *)
(* WireTypes defines.  An Option is a sequence of at most one element.     *)
(***************************************************************************)
EXTENDS Integers, FiniteSets, Sequences, Functions

CONSTANTS
    Holders,        \* holders of a CheckpointLog value
    Entries,        \* checkpoint entries
    Encoding,       \* Encoding[e]: the bytes of an entry
    MaxEntries,     \* bounds of the model: entries of a log,
    MaxKinds        \*   different entries at a time

ASSUME LogAssumption == {MaxEntries, MaxKinds} \subseteq Nat

VARIABLE logs       \* logs[s] = [entries, frontier, leaf_count]

-----------------------------------------------------------------------------
(* Hashes.                                                                 *)

leaf_hash(e) == [leaf |-> Encoding[e]]

hash_node(left, right) == [left |-> left, right |-> right]

(* The root of an empty log is the empty byte string.                      *)
EmptyRoot == <<>>

-----------------------------------------------------------------------------
(* MerkleState.                                                            *)

NoState == [frontier |-> <<>>, leaf_count |-> 0]

Slot(frontier, l) == IF l \in DOMAIN frontier THEN frontier[l] ELSE <<>>

(* An iteration of the loop of append_leaf: take what is in the slot of    *)
(* the level and hash it in front of the carry.  It ends at an even index. *)
Climb(c) ==
    LET left == Slot(c.frontier, c.level + 1)
    IN  IF c.index % 2 = 0 THEN c
        ELSE [carry |-> IF left = <<>> THEN c.carry ELSE hash_node(left[1], c.carry),
              frontier |-> [l \in DOMAIN c.frontier |->
                               IF l = c.level + 1 THEN <<>> ELSE c.frontier[l]],
              level |-> c.level + 1,
              index |-> c.index \div 2]

Climbed(m, hash) ==
    LET climbed[k \in 0 .. m.leaf_count] ==
            IF k = 0 THEN [carry |-> hash, frontier |-> m.frontier,
                           level |-> 0, index |-> m.leaf_count]
            ELSE Climb(climbed[k - 1])
    IN  climbed

(* append_leaf: the carry goes into the slot of the level reached, which   *)
(* may have to be added.                                                   *)
AppendLeaf(m, hash) ==
    LET c == Climbed(m, hash)[m.leaf_count]
        slots == IF Len(c.frontier) > c.level THEN Len(c.frontier) ELSE c.level + 1
    IN  [frontier |-> [l \in 1 .. slots |->
                          IF l = c.level + 1 THEN <<c.carry>> ELSE Slot(c.frontier, l)],
         leaf_count |-> m.leaf_count + 1]

States(entries) ==
    LET state[n \in 0 .. Len(entries)] ==
            IF n = 0 THEN NoState ELSE AppendLeaf(state[n - 1], leaf_hash(entries[n]))
    IN  state

FromEntries(entries) == States(entries)[Len(entries)]

(* An iteration of the loop of root, from the highest slot down: a full    *)
(* slot is hashed in front.                                                *)
HashedInFront(slot, above) ==
    IF slot = <<>> THEN above
    ELSE IF above = <<>> THEN slot
    ELSE <<hash_node(slot[1], above[1])>>

Roots(frontier) ==
    LET root[l \in 1 .. Len(frontier) + 1] ==
            IF l = Len(frontier) + 1 THEN <<>> ELSE HashedInFront(frontier[l], root[l + 1])
    IN  root

Root(m) ==
    LET root == Roots(m.frontier)[1]
    IN  IF root = <<>> THEN EmptyRoot ELSE root[1]

-----------------------------------------------------------------------------
(* CheckpointLog.                                                          *)

merkle_state(l) == [frontier |-> l.frontier, leaf_count |-> l.leaf_count]

WithState(entries, m) ==
    [entries |-> entries, frontier |-> m.frontier, leaf_count |-> m.leaf_count]

(* from_cbor_bytes and import_base64 rebuild the Merkle state.             *)
Rebuilt(entries) == WithState(entries, FromEntries(entries))

(* Variants of a name each hold one mistake the properties must detect.    *)
Ensured_Unchecked(l) == merkle_state(l)

(* ensure_merkle_state: a state with the right leaf count is kept.         *)
Ensured(l) ==
    IF l.leaf_count = Len(l.entries) THEN merkle_state(l) ELSE FromEntries(l.entries)

(* append_with_root.                                                       *)
Appended(l, e) ==
    WithState(Append(l.entries, e), AppendLeaf(Ensured(l), leaf_hash(e)))

(* merkle_root.                                                            *)
MerkleRoot(l) == IF l.entries = <<>> THEN EmptyRoot ELSE Root(Ensured(l))

is_prefix_of(l, other) ==
    /\ Len(l.entries) <= Len(other.entries)
    /\ \A n \in DOMAIN l.entries : l.entries[n] = other.entries[n]

compare_with(l, other) ==
    CASE l.entries = other.entries -> "Identical"
      [] l.entries # other.entries /\ is_prefix_of(l, other) -> "LocalBehind"
      [] ~is_prefix_of(l, other) /\ is_prefix_of(other, l) -> "LocalAhead"
      [] OTHER -> "Diverged"

-----------------------------------------------------------------------------
LogInit == logs = [s \in Holders |-> WithState(<<>>, NoState)]

Kinds == UNION {Range(logs[s].entries) : s \in Holders}

AppendEntry(s) ==
    /\ Len(logs[s].entries) < MaxEntries
    /\ \E e \in Entries :
          /\ Cardinality(Kinds \cup {e}) <= MaxKinds
          /\ logs' = [logs EXCEPT ![s] = Appended(@, e)]

(* A log exported by one site is imported by another one.                  *)
ExportImport(s, t) == logs' = [logs EXCEPT ![t] = Rebuilt(logs[s].entries)]

(* The derived Deserialize skips the Merkle state and leaves it empty.     *)
Deserialize(s) == logs' = [logs EXCEPT ![s] = WithState(@.entries, NoState)]

LogNext ==
    \/ \E s \in Holders : AppendEntry(s) \/ Deserialize(s)
    \/ \E s, t \in Holders : ExportImport(s, t)

LogSpec == LogInit /\ [][LogNext]_logs

-----------------------------------------------------------------------------
(* The reference definition of the root, a tree built row by row: the      *)
(* lowest row has the hashes of the entries, and each row pairs up the     *)
(* nodes of the one below.  The last node of a row of odd length has no    *)
(* partner; it is hashed in front of the root of all that is above it.     *)

Paired(row) == [i \in 1 .. Len(row) \div 2 |-> hash_node(row[2 * i - 1], row[2 * i])]

Rows(entries) ==
    LET row[h \in 0 .. Len(entries)] ==
            IF h = 0 THEN [i \in DOMAIN entries |-> leaf_hash(entries[i])]
            ELSE Paired(row[h - 1])
    IN  row

OverRow(row, above) ==
    IF Len(row) = 1 THEN row[1]
    ELSE IF Len(row) % 2 = 0 THEN above
    ELSE hash_node(row[Len(row)], above)

(* The root of the rows from h up; the highest one is empty.               *)
RootsFrom(entries) ==
    LET rows == Rows(entries)
        root[h \in 0 .. Len(entries)] ==
            IF h = Len(entries) THEN EmptyRoot ELSE OverRow(rows[h], root[h + 1])
    IN  root

CanonicalRoot(entries) == RootsFrom(entries)[0]

(* Every log has its entries and either no Merkle state or one that counts *)
(* them all and has no more slots than it counts.                          *)
LogTypeOK ==
    \A s \in Holders :
        /\ logs[s].entries \in Seq(Entries) /\ Len(logs[s].entries) <= MaxEntries
        /\ logs[s].leaf_count \in {0, Len(logs[s].entries)}
        /\ Len(logs[s].frontier) <= logs[s].leaf_count

(* merkle_root depends on the entries alone: whether the frontier was      *)
(* grown by appends, rebuilt by an import, or left out by Deserialize and  *)
(* rebuilt later, the root is the canonical one.                           *)
RootIsCanonical ==
    \A s \in Holders : MerkleRoot(logs[s]) = CanonicalRoot(logs[s].entries)

(* The encoding of an entry tells it from all others.                      *)
EncodingInjective == \A d, e \in Entries : Encoding[d] = Encoding[e] => d = e

ProperPrefix(es, fs) == Len(es) < Len(fs) /\ es = SubSeq(fs, 1, Len(es))

(* The verdict seen from the other side.                                   *)
Mirror ==
    [Identical |-> "Identical", LocalBehind |-> "LocalAhead",
     LocalAhead |-> "LocalBehind", Diverged |-> "Diverged"]

(* The two ways of comparing a gossiped log agree and are symmetric: roots *)
(* are equal exactly when compare_with finds the logs identical, so a root *)
(* commits to the whole history, its length, and every field of every      *)
(* entry through its encoding; one log is behind exactly when the other is *)
(* ahead.                                                                  *)
VerdictsAgree ==
    \A s, t \in Holders :
        LET verdict == compare_with(logs[s], logs[t])
        IN  /\ verdict = "Identical" <=> MerkleRoot(logs[s]) = MerkleRoot(logs[t])
            /\ verdict = "LocalBehind" <=> ProperPrefix(logs[s].entries, logs[t].entries)
            /\ compare_with(logs[t], logs[s]) = Mirror[verdict]
=============================================================================
