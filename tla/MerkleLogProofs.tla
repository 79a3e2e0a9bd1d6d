-------------------------- MODULE MerkleLogProofs --------------------------
(* Proofs about MerkleLog, for any number of holders, any entries and logs *)
(* of any length: the incremental root is the canonical one, and canonical *)
(* roots commit to the entries.                                            *)
EXTENDS MerkleLog, WellFoundedInduction, TLAPS

(* Induction.                                                              *)

(* A set of numbers has a smallest one.                                    *)
LEMMA LeastNatural ==
    ASSUME NEW S \in SUBSET Nat, S # {}
    PROVE  \E n \in S : \A m \in S : n <= m
<1> DEFINE R == {ss \in Nat \X Nat : ss[1] < ss[2]}
<1>1. IsWellFoundedOn(R, Nat)
  BY NatLessThanWellFounded DEF OpToRel
<1>2. PICK n \in S : \A m \in S : ~(<<m, n>> \in R)
  <2> HIDE DEF R
  <2> QED
    BY <1>1, WFMin
<1>3. \A m \in S : ~(m < n)
  BY <1>2
<1> QED
  BY <1>3

(* A set with 0 and all successors is the set of natural numbers.          *)
LEMMA Induction ==
    ASSUME NEW S \in SUBSET Nat, 0 \in S, \A n \in S : n + 1 \in S
    PROVE  S = Nat
<1> SUFFICES ASSUME Nat \ S # {} PROVE FALSE
  OBVIOUS
<1>1. PICK n \in Nat \ S : \A m \in Nat \ S : n <= m
  BY LeastNatural
<1>2. n - 1 \in Nat /\ ~(n <= n - 1) /\ (n - 1) + 1 = n
  BY <1>1
<1> QED
  BY <1>1, <1>2

(* The same from a number down.                                            *)
LEMMA Downward ==
    ASSUME NEW n \in Nat, NEW S, n \in S, \A h \in 0 .. n - 1 : h + 1 \in S => h \in S
    PROVE  0 .. n \subseteq S
<1> DEFINE T == {d \in Nat : d <= n => n - d \in S}
<1>1. 0 \in T
  OBVIOUS
<1>2. ASSUME NEW d \in T PROVE d + 1 \in T
  <2>1. SUFFICES ASSUME d + 1 <= n PROVE n - (d + 1) \in S
    OBVIOUS
  <2>2. n - d \in S /\ n - (d + 1) \in 0 .. n - 1 /\ (n - (d + 1)) + 1 = n - d
    BY <2>1
  <2> QED
    BY <2>2
<1>3. T = Nat
  <2> HIDE DEF T
  <2>1. T \in SUBSET Nat
    BY DEF T
  <2> QED
    BY <1>1, <1>2, <2>1, Induction
<1>4. ASSUME NEW h \in 0 .. n PROVE h \in S
  <2>1. n - h \in Nat /\ n - h <= n /\ n - (n - h) = h
    OBVIOUS
  <2>2. n - h \in T
    BY <1>3, <2>1
  <2> QED
    BY <2>1, <2>2
<1> QED
  BY <1>4

-----------------------------------------------------------------------------
(* The recursive functions of the model satisfy their defining equations.  *)

Leaves(es) == [i \in DOMAIN es |-> leaf_hash(es[i])]

(* The rows of the tree. *)
LEMMA RowsDef ==
    ASSUME NEW es, Len(es) \in Nat
    PROVE  Rows(es) =
             [k \in 0 .. Len(es) |-> IF k = 0 THEN Leaves(es) ELSE Paired(Rows(es)[k - 1])]
<1> DEFINE Is(f, n) == f = [k \in 0 .. n |-> IF k = 0 THEN Leaves(es) ELSE Paired(f[k - 1])]
           S == {n \in Nat : \E f : Is(f, n)}
<1>1. 0 \in S
  <2>1. Is([k \in 0 .. 0 |-> Leaves(es)], 0)
    OBVIOUS
  <2> QED
    BY <2>1
<1>2. ASSUME NEW n \in S PROVE n + 1 \in S
  <2>1. PICK f : Is(f, n)
    OBVIOUS
  <2> DEFINE g == [k \in 0 .. n + 1 |-> IF k <= n THEN f[k] ELSE Paired(f[n])]
  <2>2. ASSUME NEW k \in 0 .. n + 1
        PROVE  g[k] = IF k = 0 THEN Leaves(es) ELSE Paired(g[k - 1])
    <3>1. CASE k = 0
      BY <2>1, <3>1
    <3>2. CASE k \in 1 .. n
      <4>1. g[k] = f[k] /\ g[k - 1] = f[k - 1] /\ k \in 0 .. n
        BY <3>2
      <4> QED
        BY <2>1, <3>2, <4>1
    <3>3. CASE k = n + 1
      BY <3>3
    <3> QED
      BY <3>1, <3>2, <3>3
  <2>3. Is(g, n + 1)
    <3> HIDE DEF g
    <3>1. g = [k \in 0 .. n + 1 |-> g[k]]
      BY DEF g
    <3> QED
      BY <2>2, <3>1
  <2>4. n + 1 \in Nat
    OBVIOUS
  <2> HIDE DEF g, Is
  <2> QED
    BY <2>3, <2>4
<1>3. S = Nat
  <2> HIDE DEF S
  <2>1. S \in SUBSET Nat
    BY DEF S
  <2> QED
    BY <1>1, <1>2, <2>1, Induction
<1>4. \E f : Is(f, Len(es))
  BY <1>3
<1> QED
  BY <1>4 DEF Rows, Leaves

ClimbStart(m, hash) ==
    [carry |-> hash, frontier |-> m.frontier, level |-> 0, index |-> m.leaf_count]

(* The loop of append_leaf. *)
LEMMA ClimbedDef ==
    ASSUME NEW m, NEW hash, m.leaf_count \in Nat
    PROVE  Climbed(m, hash) =
             [k \in 0 .. m.leaf_count |-> IF k = 0 THEN ClimbStart(m, hash) ELSE Climb(Climbed(m, hash)[k - 1])]
<1> DEFINE Is(f, n) == f = [k \in 0 .. n |-> IF k = 0 THEN ClimbStart(m, hash) ELSE Climb(f[k - 1])]
           S == {n \in Nat : \E f : Is(f, n)}
<1>1. 0 \in S
  <2>1. Is([k \in 0 .. 0 |-> ClimbStart(m, hash)], 0)
    OBVIOUS
  <2> QED
    BY <2>1
<1>2. ASSUME NEW n \in S PROVE n + 1 \in S
  <2>1. PICK f : Is(f, n)
    OBVIOUS
  <2> DEFINE g == [k \in 0 .. n + 1 |-> IF k <= n THEN f[k] ELSE Climb(f[n])]
  <2>2. ASSUME NEW k \in 0 .. n + 1
        PROVE  g[k] = IF k = 0 THEN ClimbStart(m, hash) ELSE Climb(g[k - 1])
    <3>1. CASE k = 0
      BY <2>1, <3>1
    <3>2. CASE k \in 1 .. n
      <4>1. g[k] = f[k] /\ g[k - 1] = f[k - 1] /\ k \in 0 .. n
        BY <3>2
      <4> QED
        BY <2>1, <3>2, <4>1
    <3>3. CASE k = n + 1
      BY <3>3
    <3> QED
      BY <3>1, <3>2, <3>3
  <2>3. Is(g, n + 1)
    <3> HIDE DEF g
    <3>1. g = [k \in 0 .. n + 1 |-> g[k]]
      BY DEF g
    <3> QED
      BY <2>2, <3>1
  <2>4. n + 1 \in Nat
    OBVIOUS
  <2> HIDE DEF g, Is
  <2> QED
    BY <2>3, <2>4
<1>3. S = Nat
  <2> HIDE DEF S
  <2>1. S \in SUBSET Nat
    BY DEF S
  <2> QED
    BY <1>1, <1>2, <2>1, Induction
<1>4. \E f : Is(f, m.leaf_count)
  BY <1>3
<1> QED
  BY <1>4 DEF Climbed, ClimbStart

(* The states of from_entries. *)
LEMMA StatesDef ==
    ASSUME NEW es, Len(es) \in Nat
    PROVE  States(es) =
             [k \in 0 .. Len(es) |-> IF k = 0 THEN NoState ELSE AppendLeaf(States(es)[k - 1], leaf_hash(es[k]))]
<1> DEFINE Is(f, n) == f = [k \in 0 .. n |-> IF k = 0 THEN NoState ELSE AppendLeaf(f[k - 1], leaf_hash(es[k]))]
           S == {n \in Nat : \E f : Is(f, n)}
<1>1. 0 \in S
  <2>1. Is([k \in 0 .. 0 |-> NoState], 0)
    OBVIOUS
  <2> QED
    BY <2>1
<1>2. ASSUME NEW n \in S PROVE n + 1 \in S
  <2>1. PICK f : Is(f, n)
    OBVIOUS
  <2> DEFINE g == [k \in 0 .. n + 1 |-> IF k <= n THEN f[k] ELSE AppendLeaf(f[n], leaf_hash(es[n + 1]))]
  <2>2. ASSUME NEW k \in 0 .. n + 1
        PROVE  g[k] = IF k = 0 THEN NoState ELSE AppendLeaf(g[k - 1], leaf_hash(es[k]))
    <3>1. CASE k = 0
      BY <2>1, <3>1
    <3>2. CASE k \in 1 .. n
      <4>1. g[k] = f[k] /\ g[k - 1] = f[k - 1] /\ k \in 0 .. n
        BY <3>2
      <4> QED
        BY <2>1, <3>2, <4>1
    <3>3. CASE k = n + 1
      BY <3>3
    <3> QED
      BY <3>1, <3>2, <3>3
  <2>3. Is(g, n + 1)
    <3> HIDE DEF g
    <3>1. g = [k \in 0 .. n + 1 |-> g[k]]
      BY DEF g
    <3> QED
      BY <2>2, <3>1
  <2>4. n + 1 \in Nat
    OBVIOUS
  <2> HIDE DEF g, Is
  <2> QED
    BY <2>3, <2>4
<1>3. S = Nat
  <2> HIDE DEF S
  <2>1. S \in SUBSET Nat
    BY DEF S
  <2> QED
    BY <1>1, <1>2, <2>1, Induction
<1>4. \E f : Is(f, Len(es))
  BY <1>3
<1> QED
  BY <1>4 DEF States

(* The roots of the reference definition. *)
LEMMA RootsFromDef ==
    ASSUME NEW es, Len(es) \in Nat
    PROVE  RootsFrom(es) =
             [k \in 0 .. Len(es) |-> IF k = Len(es) THEN EmptyRoot ELSE OverRow(Rows(es)[k], RootsFrom(es)[k + 1])]
<1> DEFINE Is(f, n) ==
             f = [k \in Len(es) - n .. Len(es) |-> IF k = Len(es) THEN EmptyRoot ELSE OverRow(Rows(es)[k], f[k + 1])]
           S == {n \in Nat : \E f : Is(f, n)}
<1>1. 0 \in S
  <2>1. Is([k \in Len(es) - 0 .. Len(es) |-> EmptyRoot], 0)
    OBVIOUS
  <2> QED
    BY <2>1
<1>2. ASSUME NEW n \in S PROVE n + 1 \in S
  <2>1. PICK f : Is(f, n)
    OBVIOUS
  <2> DEFINE low == Len(es) - (n + 1)
             g == [k \in low .. Len(es) |-> IF k # low THEN f[k] ELSE OverRow(Rows(es)[low], f[low + 1])]
  <2>2. ASSUME NEW k \in low .. Len(es)
        PROVE  g[k] = IF k = Len(es) THEN EmptyRoot ELSE OverRow(Rows(es)[k], g[k + 1])
    <3>1. CASE k = Len(es)
      <4>1. k # low /\ k \in Len(es) - n .. Len(es)
        BY <3>1
      <4>2. g[k] = f[k]
        BY <4>1
      <4> QED
        BY <2>1, <3>1, <4>1, <4>2
    <3>2. CASE k # Len(es) /\ k # low
      <4>1. g[k] = f[k] /\ g[k + 1] = f[k + 1] /\ k \in Len(es) - n .. Len(es)
        BY <3>2
      <4> QED
        BY <2>1, <3>2, <4>1
    <3>3. CASE k = low
      <4>1. low + 1 \in low .. Len(es) /\ low + 1 # low /\ low # Len(es)
        OBVIOUS
      <4>2. g[low + 1] = f[low + 1]
        BY <4>1
      <4> QED
        BY <3>3, <4>1, <4>2
    <3> QED
      BY <3>1, <3>2, <3>3
  <2>3. Is(g, n + 1)
    <3> HIDE DEF g
    <3>1. g = [k \in low .. Len(es) |-> g[k]]
      BY DEF g
    <3> QED
      BY <2>2, <3>1
  <2>4. n + 1 \in Nat
    OBVIOUS
  <2> HIDE DEF g, Is
  <2> QED
    BY <2>3, <2>4
<1>3. S = Nat
  <2> HIDE DEF S
  <2>1. S \in SUBSET Nat
    BY DEF S
  <2> QED
    BY <1>1, <1>2, <2>1, Induction
<1>4. PICK f : Is(f, Len(es) - 0)
  <2>1. Len(es) - 0 \in Nat
    OBVIOUS
  <2> HIDE DEF Is
  <2> QED
    BY <1>3, <2>1
<1>5. Len(es) - (Len(es) - 0) = 0
  OBVIOUS
<1>6. f = [k \in 0 .. Len(es) |-> IF k = Len(es) THEN EmptyRoot ELSE OverRow(Rows(es)[k], f[k + 1])]
  BY <1>4, <1>5
<1> QED
  BY <1>6 DEF RootsFrom

(* The roots that root computes. *)
LEMMA RootsDef ==
    ASSUME NEW fr, Len(fr) \in Nat
    PROVE  Roots(fr) =
             [k \in 1 .. (Len(fr) + 1) |-> IF k = (Len(fr) + 1) THEN <<>> ELSE HashedInFront(fr[k], Roots(fr)[k + 1])]
<1> DEFINE Is(f, n) ==
             f = [k \in (Len(fr) + 1) - n .. (Len(fr) + 1) |-> IF k = (Len(fr) + 1) THEN <<>> ELSE HashedInFront(fr[k], f[k + 1])]
           S == {n \in Nat : \E f : Is(f, n)}
<1>1. 0 \in S
  <2>1. Is([k \in (Len(fr) + 1) - 0 .. (Len(fr) + 1) |-> <<>>], 0)
    OBVIOUS
  <2> QED
    BY <2>1
<1>2. ASSUME NEW n \in S PROVE n + 1 \in S
  <2>1. PICK f : Is(f, n)
    OBVIOUS
  <2> DEFINE low == (Len(fr) + 1) - (n + 1)
             g == [k \in low .. (Len(fr) + 1) |-> IF k # low THEN f[k] ELSE HashedInFront(fr[low], f[low + 1])]
  <2>2. ASSUME NEW k \in low .. (Len(fr) + 1)
        PROVE  g[k] = IF k = (Len(fr) + 1) THEN <<>> ELSE HashedInFront(fr[k], g[k + 1])
    <3>1. CASE k = (Len(fr) + 1)
      <4>1. k # low /\ k \in (Len(fr) + 1) - n .. (Len(fr) + 1)
        BY <3>1
      <4>2. g[k] = f[k]
        BY <4>1
      <4> QED
        BY <2>1, <3>1, <4>1, <4>2
    <3>2. CASE k # (Len(fr) + 1) /\ k # low
      <4>1. g[k] = f[k] /\ g[k + 1] = f[k + 1] /\ k \in (Len(fr) + 1) - n .. (Len(fr) + 1)
        BY <3>2
      <4> QED
        BY <2>1, <3>2, <4>1
    <3>3. CASE k = low
      <4>1. low + 1 \in low .. (Len(fr) + 1) /\ low + 1 # low /\ low # (Len(fr) + 1)
        OBVIOUS
      <4>2. g[low + 1] = f[low + 1]
        BY <4>1
      <4> QED
        BY <3>3, <4>1, <4>2
    <3> QED
      BY <3>1, <3>2, <3>3
  <2>3. Is(g, n + 1)
    <3> HIDE DEF g
    <3>1. g = [k \in low .. (Len(fr) + 1) |-> g[k]]
      BY DEF g
    <3> QED
      BY <2>2, <3>1
  <2>4. n + 1 \in Nat
    OBVIOUS
  <2> HIDE DEF g, Is
  <2> QED
    BY <2>3, <2>4
<1>3. S = Nat
  <2> HIDE DEF S
  <2>1. S \in SUBSET Nat
    BY DEF S
  <2> QED
    BY <1>1, <1>2, <2>1, Induction
<1>4. PICK f : Is(f, (Len(fr) + 1) - 1)
  <2>1. (Len(fr) + 1) - 1 \in Nat
    OBVIOUS
  <2> HIDE DEF Is
  <2> QED
    BY <1>3, <2>1
<1>5. (Len(fr) + 1) - ((Len(fr) + 1) - 1) = 1
  OBVIOUS
<1>6. f = [k \in 1 .. (Len(fr) + 1) |-> IF k = (Len(fr) + 1) THEN <<>> ELSE HashedInFront(fr[k], f[k + 1])]
  BY <1>4, <1>5
<1> QED
  BY <1>6 DEF Roots

-----------------------------------------------------------------------------
(* Rows.                                                                   *)

(* A function on 1 .. n is a sequence of length n.                         *)
LEMMA LenOf ==
    ASSUME NEW n \in Nat, NEW f, f = [i \in 1 .. n |-> f[i]]
    PROVE  Len(f) = n /\ DOMAIN f = 1 .. n
<1>1. f \in [1 .. n -> {f[i] : i \in 1 .. n}]
  OBVIOUS
<1>2. f \in Seq({f[i] : i \in 1 .. n})
  BY <1>1
<1> QED
  BY <1>1, <1>2

(* Half of a number is smaller, unless it is 0.                            *)
LEMMA Halved ==
    ASSUME NEW c \in Nat, NEW d \in Nat \ {0}, c <= d
    PROVE  c \div 2 \in 0 .. d - 1
OBVIOUS

(* After an odd number comes an even one.                                  *)
LEMMA OddNext ==
    ASSUME NEW c \in Nat, c % 2 # 0
    PROVE  (c + 1) % 2 = 0
OBVIOUS

(* When half of a number is 0.                                             *)
LEMMA HalfOfEven ==
    ASSUME NEW c \in Nat, c % 2 = 0
    PROVE  c # 1 /\ (c = 0 <=> c \div 2 = 0)
OBVIOUS

(* Half of an odd number is 0 only for 1.                                  *)
LEMMA HalfOfOdd ==
    ASSUME NEW c \in Nat, c % 2 # 0
    PROVE  c # 0 /\ (c = 1 <=> c \div 2 = 0)
OBVIOUS

(* What a row that pairs up another one has.                               *)
LEMMA PairedShape ==
    ASSUME NEW row, Len(row) \in Nat
    PROVE  /\ Len(Paired(row)) = Len(row) \div 2
           /\ Paired(row) = [i \in 1 .. Len(row) \div 2 |-> Paired(row)[i]]
           /\ \A i \in 1 .. Len(row) \div 2 :
                 Paired(row)[i] = hash_node(row[2 * i - 1], row[2 * i])
<1> DEFINE p == Paired(row)
           n == Len(row) \div 2
<1>1. n \in Nat
  OBVIOUS
<1>2. /\ p = [i \in 1 .. n |-> p[i]]
      /\ \A i \in 1 .. n : p[i] = hash_node(row[2 * i - 1], row[2 * i])
  BY DEF Paired
<1> HIDE DEF p, n
<1>3. Len(p) = n
  BY <1>1, <1>2, LenOf
<1> QED
  BY <1>2, <1>3 DEF p, n

(* The lowest row, and each of the others from the one below.              *)
LEMMA RowStep ==
    ASSUME NEW es, Len(es) \in Nat
    PROVE  /\ Rows(es)[0] = Leaves(es)
           /\ \A h \in 0 .. Len(es) - 1 : Rows(es)[h + 1] = Paired(Rows(es)[h])
<1> DEFINE f == Rows(es)
<1>1. f = [k \in 0 .. Len(es) |-> IF k = 0 THEN Leaves(es) ELSE Paired(f[k - 1])]
  BY RowsDef
<1> HIDE DEF f
<1>2. f[0] = Leaves(es)
  BY <1>1
<1>3. ASSUME NEW h \in 0 .. Len(es) - 1 PROVE f[h + 1] = Paired(f[h])
  <2>1. h + 1 \in 0 .. Len(es) /\ h + 1 # 0 /\ (h + 1) - 1 = h
    OBVIOUS
  <2> QED
    BY <1>1, <2>1
<1> QED
  BY <1>2, <1>3 DEF f

(* Rows are sequences that get shorter with every step up.                 *)
LEMMA RowShape ==
    ASSUME NEW es \in Seq(Entries), NEW h \in 0 .. Len(es)
    PROVE  /\ Len(Rows(es)[h]) \in 0 .. Len(es) - h
           /\ Rows(es)[h] = [i \in 1 .. Len(Rows(es)[h]) |-> Rows(es)[h][i]]
           /\ DOMAIN Rows(es)[h] = 1 .. Len(Rows(es)[h])
<1> DEFINE r == Rows(es)
           Shape(k) == /\ Len(r[k]) \in 0 .. Len(es) - k
                       /\ r[k] = [i \in 1 .. Len(r[k]) |-> r[k][i]]
           S == {k \in Nat : k <= Len(es) => Shape(k)}
<1>1. Len(es) \in Nat /\ DOMAIN es = 1 .. Len(es)
  OBVIOUS
<1>2. r[0] = Leaves(es) /\ \A k \in 0 .. Len(es) - 1 : r[k + 1] = Paired(r[k])
  BY <1>1, RowStep
<1> HIDE DEF r
<1>3. 0 \in S
  <2>1. Leaves(es) = [i \in 1 .. Len(es) |-> Leaves(es)[i]]
    BY <1>1 DEF Leaves
  <2>2. Len(Leaves(es)) = Len(es)
    BY <1>1, <2>1, LenOf
  <2>3. PICK f : f = r[0]
    OBVIOUS
  <2>4. Len(f) = Len(es) /\ f = [i \in 1 .. Len(es) |-> f[i]]
    BY <1>2, <2>1, <2>2, <2>3
  <2>5. Len(f) \in 0 .. Len(es) - 0 /\ f = [i \in 1 .. Len(f) |-> f[i]]
    BY <1>1, <2>4
  <2> QED
    BY <2>3, <2>5
<1>4. ASSUME NEW k \in S PROVE k + 1 \in S
  <2>1. SUFFICES ASSUME k + 1 <= Len(es) PROVE Shape(k + 1)
    OBVIOUS
  <2>2. k \in 0 .. Len(es) - 1 /\ Len(r[k]) \in 0 .. Len(es) - k
    BY <1>1, <2>1
  <2>3. r[k + 1] = Paired(r[k])
    BY <1>2, <2>2
  <2>4. PICK low, up : low = r[k] /\ up = r[k + 1]
    OBVIOUS
  <2>5. Len(low) \in Nat /\ Len(low) <= Len(es) - k /\ up = Paired(low)
    BY <1>1, <2>2, <2>3, <2>4
  <2>6. Len(up) = Len(low) \div 2 /\ up = [i \in 1 .. Len(low) \div 2 |-> up[i]]
    BY <2>5, PairedShape
  <2>7. Len(es) - k \in Nat \ {0} /\ (Len(es) - k) - 1 = Len(es) - (k + 1)
    <3>1. PICK n \in Nat : n = Len(es)
      BY <1>1
    <3>2. k \in 0 .. n - 1
      BY <2>2, <3>1
    <3>3. n - k \in Nat \ {0} /\ (n - k) - 1 = n - (k + 1)
      <4> HIDE DEF S
      <4> QED
        BY <3>2
    <3> QED
      BY <3>1, <3>3
  <2>8. Len(low) \div 2 \in 0 .. Len(es) - (k + 1)
    BY <2>5, <2>7, Halved
  <2>9. Len(up) \in 0 .. Len(es) - (k + 1) /\ up = [i \in 1 .. Len(up) |-> up[i]]
    BY <2>6, <2>8
  <2> QED
    BY <2>4, <2>9
<1>5. S = Nat
  <2> HIDE DEF S
  <2>1. S \in SUBSET Nat
    BY DEF S
  <2> QED
    BY <1>3, <1>4, <2>1, Induction
<1>6. Shape(h)
  BY <1>1, <1>5
<1>7. DOMAIN r[h] = 1 .. Len(r[h])
  <2>1. PICK f : f = r[h]
    OBVIOUS
  <2>2. Len(f) \in Nat /\ f = [i \in 1 .. Len(f) |-> f[i]]
    BY <1>1, <1>6, <2>1
  <2> QED
    BY <2>1, <2>2
<1> QED
  BY <1>6, <1>7 DEF r

(* The highest row is empty.                                               *)
LEMMA TopEmpty ==
    ASSUME NEW es \in Seq(Entries)
    PROVE  Len(Rows(es)[Len(es)]) = 0
<1>1. PICK n \in Nat : n = Len(es)
  OBVIOUS
<1>2. Len(Rows(es)[n]) \in 0 .. n - n
  <2>1. n \in 0 .. Len(es)
    BY <1>1
  <2> QED
    BY <1>1, <2>1, RowShape
<1> QED
  BY <1>1, <1>2

(* The nodes of a row above another one, and their number.                 *)
LEMMA RowNext ==
    ASSUME NEW es \in Seq(Entries), NEW h \in 0 .. Len(es) - 1
    PROVE  /\ Rows(es)[h + 1] = Paired(Rows(es)[h])
           /\ Len(Rows(es)[h + 1]) = Len(Rows(es)[h]) \div 2
<1>1. Len(es) \in Nat /\ h \in 0 .. Len(es)
  OBVIOUS
<1>2. PICK low : low = Rows(es)[h]
  OBVIOUS
<1>3. Len(low) \in Nat
  BY <1>1, <1>2, RowShape
<1>4. Rows(es)[h + 1] = Paired(low)
  BY <1>1, <1>2, RowStep
<1>5. Len(Paired(low)) = Len(low) \div 2
  BY <1>3, PairedShape
<1> QED
  BY <1>2, <1>4, <1>5

(* A row with a node more.                                                 *)
Ext(row, x) == [i \in 1 .. Len(row) + 1 |-> IF i <= Len(row) THEN row[i] ELSE x]

(* Its length and nodes.                                                   *)
LEMMA ExtShape ==
    ASSUME NEW row, Len(row) \in Nat, NEW x
    PROVE  /\ Len(Ext(row, x)) = Len(row) + 1
           /\ \A i \in 1 .. Len(row) : Ext(row, x)[i] = row[i]
           /\ Ext(row, x)[Len(row) + 1] = x
<1> DEFINE f == Ext(row, x)
           n == Len(row) + 1
<1>1. /\ f = [i \in 1 .. n |-> f[i]] /\ n \in Nat
      /\ \A i \in 1 .. Len(row) : f[i] = row[i]
      /\ f[n] = x
  BY DEF Ext
<1> HIDE DEF f, n
<1>2. Len(f) = n
  BY <1>1, LenOf
<1> QED
  BY <1>1, <1>2 DEF f, n

(* A new node at the end of a row of even length has no partner.           *)
LEMMA PairedEven ==
    ASSUME NEW row, Len(row) \in Nat, Len(row) % 2 = 0, NEW x
    PROVE  Paired(Ext(row, x)) = Paired(row)
<1>1. PICK f : f = Ext(row, x)
  OBVIOUS
<1>2. Len(f) = Len(row) + 1 /\ \A i \in 1 .. Len(row) : f[i] = row[i]
  BY <1>1, ExtShape
<1>3. PICK n \in Nat : n = Len(row) \div 2
  OBVIOUS
<1>4. (Len(row) + 1) \div 2 = n /\ \A i \in 1 .. n : 2 * i - 1 \in 1 .. Len(row) /\ 2 * i \in 1 .. Len(row)
  BY <1>3
<1>5. \A i \in 1 .. n : hash_node(f[2 * i - 1], f[2 * i]) = hash_node(row[2 * i - 1], row[2 * i])
  BY <1>2, <1>4
<1>6. Paired(f) = [i \in 1 .. n |-> hash_node(f[2 * i - 1], f[2 * i])]
  BY <1>2, <1>4 DEF Paired
<1>7. Paired(row) = [i \in 1 .. n |-> hash_node(row[2 * i - 1], row[2 * i])]
  BY <1>3 DEF Paired
<1> QED
  BY <1>1, <1>5, <1>6, <1>7

(* In a row of odd length it is the partner of the last one.               *)
LEMMA PairedOdd ==
    ASSUME NEW row, Len(row) \in Nat, Len(row) % 2 # 0, NEW x
    PROVE  Paired(Ext(row, x)) = Ext(Paired(row), hash_node(row[Len(row)], x))
<1>1. PICK f : f = Ext(row, x)
  OBVIOUS
<1>2. /\ Len(f) = Len(row) + 1 /\ \A i \in 1 .. Len(row) : f[i] = row[i]
      /\ f[Len(row) + 1] = x
  BY <1>1, ExtShape
<1>3. PICK n \in Nat : n = Len(row) \div 2
  OBVIOUS
<1>4. /\ (Len(row) + 1) \div 2 = n + 1 /\ Len(row) = 2 * n + 1
      /\ \A i \in 1 .. n : 2 * i - 1 \in 1 .. Len(row) /\ 2 * i \in 1 .. Len(row)
  BY <1>3
<1>5. PICK p : p = Paired(row)
  OBVIOUS
<1>6. Len(p) = n /\ \A i \in 1 .. n : p[i] = hash_node(row[2 * i - 1], row[2 * i])
  BY <1>3, <1>5, PairedShape
<1>7. PICK y : y = hash_node(row[Len(row)], x)
  OBVIOUS
<1>8. ASSUME NEW i \in 1 .. n + 1
      PROVE  hash_node(f[2 * i - 1], f[2 * i]) = IF i <= n THEN p[i] ELSE y
  <2>1. CASE i <= n
    BY <1>2, <1>4, <1>6, <2>1
  <2>2. CASE i = n + 1
    <3>1. 2 * i - 1 = Len(row) /\ 2 * i = Len(row) + 1 /\ ~(i <= n) /\ Len(row) \in 1 .. Len(row)
      BY <1>4, <2>2
    <3> QED
      BY <1>2, <1>7, <3>1
  <2> QED
    BY <2>1, <2>2
<1>9. Paired(f) = [i \in 1 .. n + 1 |-> hash_node(f[2 * i - 1], f[2 * i])]
  BY <1>2, <1>4 DEF Paired
<1>10. Ext(p, y) = [i \in 1 .. n + 1 |-> IF i <= n THEN p[i] ELSE y]
  BY <1>6 DEF Ext
<1> QED
  BY <1>1, <1>5, <1>7, <1>8, <1>9, <1>10

-----------------------------------------------------------------------------
(* The frontier has, for every row, its last node if it has no partner.    *)

LastAlone(row) == IF Len(row) % 2 = 0 THEN <<>> ELSE <<row[Len(row)]>>

FrontierOf(m, es) ==
    /\ m.leaf_count = Len(es)
    /\ DOMAIN m.frontier = 1 .. Len(m.frontier) /\ Len(m.frontier) \in 0 .. Len(es)
    /\ \A l \in 1 .. Len(m.frontier) : m.frontier[l] = LastAlone(Rows(es)[l - 1])
    /\ \A h \in Len(m.frontier) .. Len(es) : Len(Rows(es)[h]) = 0

(* A loop of append_leaf that has reached a level has emptied the slots    *)
(* below it, and its carry is the new last node of the row of the level.   *)
Reached(c, m, es, es2, k) ==
    /\ c.level \in 0 .. k
    /\ c.index = Len(Rows(es)[c.level])
    /\ c.level = k \/ c.index % 2 = 0
    /\ Rows(es2)[c.level] = Ext(Rows(es)[c.level], c.carry)
    /\ \A h \in 0 .. c.level - 1 : Len(Rows(es2)[h]) % 2 = 0
    /\ DOMAIN c.frontier = 1 .. Len(m.frontier) /\ Len(c.frontier) = Len(m.frontier)
    /\ \A l \in 1 .. Len(m.frontier) :
          c.frontier[l] = IF l <= c.level THEN <<>> ELSE m.frontier[l]

(* The lowest row of a log with an entry more.                             *)
LEMMA LeavesGrow ==
    ASSUME NEW es \in Seq(Entries), NEW e \in Entries
    PROVE  /\ Append(es, e) \in Seq(Entries) /\ Len(Append(es, e)) = Len(es) + 1
           /\ Rows(Append(es, e))[0] = Ext(Rows(es)[0], leaf_hash(e))
<1>1. PICK es2 : es2 = Append(es, e)
  OBVIOUS
<1>2. /\ es2 \in Seq(Entries) /\ Len(es2) = Len(es) + 1 /\ Len(es) \in Nat
      /\ DOMAIN es2 = 1 .. Len(es) + 1 /\ DOMAIN es = 1 .. Len(es)
      /\ \A i \in 1 .. Len(es) : es2[i] = es[i]
      /\ es2[Len(es) + 1] = e
  BY <1>1
<1>3. Leaves(es2) = [i \in 1 .. Len(es) + 1 |-> leaf_hash(es2[i])]
  BY <1>2 DEF Leaves
<1>4. PICK row : row = Leaves(es)
  OBVIOUS
<1>5. row = [i \in 1 .. Len(es) |-> leaf_hash(es[i])]
  BY <1>2, <1>4 DEF Leaves
<1>6. row = [i \in 1 .. Len(es) |-> row[i]] /\ \A i \in 1 .. Len(es) : row[i] = leaf_hash(es[i])
  BY <1>5
<1>7. Len(row) = Len(es)
  BY <1>2, <1>6, LenOf
<1>8. \A i \in 1 .. Len(es) + 1 :
         leaf_hash(es2[i]) = IF i <= Len(es) THEN row[i] ELSE leaf_hash(e)
  BY <1>2, <1>6
<1>9. Ext(row, leaf_hash(e)) = [i \in 1 .. Len(es) + 1 |-> IF i <= Len(es) THEN row[i] ELSE leaf_hash(e)]
  BY <1>7 DEF Ext
<1>10. Leaves(es2) = Ext(row, leaf_hash(e))
  BY <1>3, <1>8, <1>9
<1>11. Rows(es2)[0] = Leaves(es2) /\ Rows(es)[0] = Leaves(es)
  BY <1>2, RowStep
<1> QED
  BY <1>1, <1>2, <1>4, <1>10, <1>11

(* The start of the loop and its iterations.                               *)
LEMMA ClimbedStep ==
    ASSUME NEW m, NEW hash, m.leaf_count \in Nat
    PROVE  /\ Climbed(m, hash)[0] = ClimbStart(m, hash)
           /\ \A k \in 0 .. m.leaf_count - 1 :
                 Climbed(m, hash)[k + 1] = Climb(Climbed(m, hash)[k])
<1> DEFINE f == Climbed(m, hash)
           n == m.leaf_count
<1>1. f = [k \in 0 .. n |-> IF k = 0 THEN ClimbStart(m, hash) ELSE Climb(f[k - 1])]
  BY ClimbedDef
<1>2. n \in Nat
  OBVIOUS
<1> HIDE DEF f, n
<1>3. f[0] = ClimbStart(m, hash)
  BY <1>1, <1>2
<1>4. ASSUME NEW k \in 0 .. n - 1 PROVE f[k + 1] = Climb(f[k])
  <2>1. k + 1 \in 0 .. n /\ k + 1 # 0 /\ (k + 1) - 1 = k
    BY <1>2
  <2> QED
    BY <1>1, <2>1
<1> QED
  BY <1>3, <1>4 DEF f, n

(* An iteration at an odd index goes up a level.                           *)
LEMMA ClimbUp ==
    ASSUME NEW es \in Seq(Entries), NEW e \in Entries, NEW m, FrontierOf(m, es),
           NEW k \in 0 .. Len(es) - 1, NEW c, Reached(c, m, es, Append(es, e), k),
           c.index % 2 # 0
    PROVE  Reached(Climb(c), m, es, Append(es, e), k + 1)
<1>1. PICK es2 \in Seq(Entries) : es2 = Append(es, e)
  BY LeavesGrow
<1>2. Len(es) \in Nat /\ Len(es2) = Len(es) + 1
  BY <1>1, LeavesGrow
<1>3. c.level = k
  BY DEF Reached
<1>4. PICK row, row2 : row = Rows(es)[k] /\ row2 = Rows(es2)[k]
  OBVIOUS
<1>5. /\ c.index = Len(row) /\ row2 = Ext(row, c.carry)
      /\ \A h \in 0 .. k - 1 : Len(Rows(es2)[h]) % 2 = 0
      /\ DOMAIN c.frontier = 1 .. Len(m.frontier) /\ Len(c.frontier) = Len(m.frontier)
      /\ \A l \in 1 .. Len(m.frontier) : c.frontier[l] = IF l <= k THEN <<>> ELSE m.frontier[l]
  BY <1>1, <1>3, <1>4 DEF Reached
<1>6. Len(row) \in Nat /\ Len(row) # 0 /\ Len(row) % 2 # 0
  <2>1. Len(row) \in Nat
    BY <1>2, <1>4, RowShape
  <2> QED
    BY <1>5, <2>1
<1>7. k + 1 \in 1 .. Len(m.frontier) /\ m.frontier[k + 1] = <<row[Len(row)]>>
  <2>1. k + 1 \in 1 .. Len(m.frontier)
    <3>1. Len(m.frontier) \in 0 .. Len(es) /\ \A h \in Len(m.frontier) .. Len(es) : Len(Rows(es)[h]) = 0
      BY DEF FrontierOf
    <3>2. ~(k \in Len(m.frontier) .. Len(es))
      BY <1>4, <1>6, <3>1
    <3> QED
      BY <1>2, <3>1, <3>2
  <2>2. m.frontier[k + 1] = LastAlone(Rows(es)[(k + 1) - 1]) /\ (k + 1) - 1 = k
    BY <2>1 DEF FrontierOf
  <2> QED
    BY <1>4, <1>6, <2>1, <2>2 DEF LastAlone
<1>8. PICK last : last = row[Len(row)]
  OBVIOUS
<1>9. Slot(c.frontier, k + 1) = <<last>>
  BY <1>5, <1>7, <1>8 DEF Slot
<1>10. PICK d : d = Climb(c)
  OBVIOUS
<1>11. /\ d.carry = hash_node(last, c.carry) /\ d.level = k + 1 /\ d.index = Len(row) \div 2
       /\ d.frontier = [l \in DOMAIN c.frontier |-> IF l = k + 1 THEN <<>> ELSE c.frontier[l]]
  <2>1. <<last>> # <<>> /\ <<last>>[1] = last
    OBVIOUS
  <2> QED
    BY <1>3, <1>5, <1>9, <1>10, <2>1 DEF Climb
<1>12. PICK up, up2 : up = Rows(es)[k + 1] /\ up2 = Rows(es2)[k + 1]
  OBVIOUS
<1>13. up = Paired(row) /\ Len(up) = Len(row) \div 2
  BY <1>2, <1>4, <1>12, RowNext
<1>14. up2 = Paired(row2)
  <2>1. k \in 0 .. Len(es2) - 1
    BY <1>2
  <2> QED
    BY <1>4, <1>12, <2>1, RowNext
<1>15. up2 = Ext(up, d.carry)
  BY <1>5, <1>6, <1>8, <1>11, <1>13, <1>14, PairedOdd
<1>16. ASSUME NEW h \in 0 .. k PROVE Len(Rows(es2)[h]) % 2 = 0
  <2>1. CASE h = k
    <3>1. Len(row2) = Len(row) + 1
      BY <1>5, <1>6, ExtShape
    <3>2. Len(row2) % 2 = 0
      BY <1>6, <3>1, OddNext
    <3> QED
      BY <1>4, <2>1, <3>2
  <2>2. CASE h # k
    <3>1. h \in 0 .. k - 1
      BY <1>2, <2>2
    <3> QED
      BY <1>5, <3>1
  <2> QED
    BY <2>1, <2>2
<1>17. /\ DOMAIN d.frontier = 1 .. Len(m.frontier)
       /\ \A l \in 1 .. Len(m.frontier) : d.frontier[l] = IF l <= k + 1 THEN <<>> ELSE m.frontier[l]
  <2>1. DOMAIN d.frontier = 1 .. Len(m.frontier)
    BY <1>5, <1>11
  <2>2. ASSUME NEW l \in 1 .. Len(m.frontier)
        PROVE  d.frontier[l] = IF l <= k + 1 THEN <<>> ELSE m.frontier[l]
    <3>1. d.frontier[l] = IF l = k + 1 THEN <<>> ELSE c.frontier[l]
      BY <1>5, <1>11
    <3>2. Len(m.frontier) \in Nat
      BY DEF FrontierOf
    <3>3. l \in Nat
      BY <3>2
    <3>4. c.frontier[l] = IF l <= k THEN <<>> ELSE m.frontier[l]
      BY <1>5
    <3> QED
      BY <3>1, <3>3, <3>4
  <2> QED
    BY <2>1, <2>2
<1>18. Len(d.frontier) = Len(m.frontier)
  <2>1. Len(m.frontier) \in Nat
    BY DEF FrontierOf
  <2>2. PICK f : f = d.frontier
    OBVIOUS
  <2>3. f = [l \in 1 .. Len(m.frontier) |-> f[l]]
    <3>1. f = [l \in 1 .. Len(m.frontier) |-> IF l = k + 1 THEN <<>> ELSE c.frontier[l]]
      BY <1>5, <1>11, <2>2
    <3> QED
      BY <3>1
  <2> QED
    BY <2>1, <2>2, <2>3, LenOf
<1>19. k + 1 \in 0 .. k + 1 /\ (k + 1) - 1 = k
  BY <1>2
<1> QED
  BY <1>1, <1>10, <1>11, <1>12, <1>13, <1>15, <1>16, <1>17, <1>18, <1>19 DEF Reached

(* After as many iterations as there are leaves the loop has ended at the  *)
(* level of the first row of even length.                                  *)
LEMMA ClimbEnds ==
    ASSUME NEW es \in Seq(Entries), NEW e \in Entries, NEW m, FrontierOf(m, es)
    PROVE  LET c == Climbed(m, leaf_hash(e))[Len(es)]
           IN  Reached(c, m, es, Append(es, e), Len(es)) /\ c.index % 2 = 0
<1>1. PICK n \in Nat : n = Len(es)
  OBVIOUS
<1>2. m.leaf_count = n
  BY <1>1 DEF FrontierOf
<1>3. PICK es2 : es2 = Append(es, e)
  OBVIOUS
<1> DEFINE c == Climbed(m, leaf_hash(e))
           S == {k \in Nat : k <= n => Reached(c[k], m, es, es2, k)}
<1>4. c[0] = ClimbStart(m, leaf_hash(e)) /\ \A k \in 0 .. n - 1 : c[k + 1] = Climb(c[k])
  BY <1>2, ClimbedStep
<1> HIDE DEF c
<1>5. 0 \in S
  <2>1. /\ c[0].carry = leaf_hash(e) /\ c[0].frontier = m.frontier
        /\ c[0].level = 0 /\ c[0].index = n
    BY <1>2, <1>4 DEF ClimbStart
  <2>2. Rows(es2)[0] = Ext(Rows(es)[0], leaf_hash(e))
    BY <1>3, LeavesGrow
  <2>3. Len(Rows(es)[0]) = n
    <3>1. Rows(es)[0] = Leaves(es)
      BY <1>1, RowStep
    <3>2. Leaves(es) = [i \in 1 .. n |-> Leaves(es)[i]]
      BY <1>1 DEF Leaves
    <3>3. Len(Leaves(es)) = n
      BY <3>2, LenOf
    <3> QED
      BY <3>1, <3>3
  <2>4. /\ DOMAIN m.frontier = 1 .. Len(m.frontier) /\ Len(m.frontier) \in Nat
    BY <1>1 DEF FrontierOf
  <2>5. \A l \in 1 .. Len(m.frontier) : ~(l <= 0)
    BY <2>4
  <2>6. Reached(c[0], m, es, es2, 0)
    BY <2>1, <2>2, <2>3, <2>4, <2>5 DEF Reached
  <2> QED
    BY <2>6
<1>6. ASSUME NEW k \in S PROVE k + 1 \in S
  <2>1. k \in Nat
    OBVIOUS
  <2>2. SUFFICES ASSUME k + 1 <= n PROVE Reached(c[k + 1], m, es, es2, k + 1)
    BY <2>1
  <2>3. Reached(c[k], m, es, es2, k) /\ k \in 0 .. n - 1
    BY <2>1, <2>2
  <2> HIDE DEF S
  <2>4. c[k + 1] = Climb(c[k])
    BY <1>4, <2>3
  <2>5. PICK d : d = c[k]
    OBVIOUS
  <2>6. CASE d.index % 2 # 0
    BY <1>1, <1>3, <2>3, <2>4, <2>5, <2>6, ClimbUp
  <2>7. CASE d.index % 2 = 0
    <3>1. Climb(d) = d
      BY <2>7 DEF Climb
    <3>2. Reached(d, m, es, es2, k + 1)
      <4>1. d.level \in 0 .. k + 1
        BY <2>1, <2>3, <2>5 DEF Reached
      <4> QED
        BY <2>3, <2>5, <2>7, <4>1 DEF Reached
    <3> QED
      BY <2>4, <2>5, <3>1, <3>2
  <2> QED
    BY <2>6, <2>7
<1>7. S = Nat
  <2> HIDE DEF S
  <2>1. S \in SUBSET Nat
    BY DEF S
  <2> QED
    BY <1>5, <1>6, <2>1, Induction
<1>8. Reached(c[n], m, es, es2, n)
  BY <1>7
<1>9. c[n].index % 2 = 0
  <2>1. CASE c[n].level = n
    <3>1. Len(Rows(es)[n]) = 0
      BY <1>1, TopEmpty
    <3>2. c[n].index = 0
      BY <1>8, <2>1, <3>1 DEF Reached
    <3> QED
      BY <3>2
  <2> QED
    BY <1>8, <2>1 DEF Reached
<1> QED
  BY <1>1, <1>3, <1>8, <1>9 DEF c

(* Above the level where the loop ends the rows stay as they are.          *)
LEMMA RowsStay ==
    ASSUME NEW es \in Seq(Entries), NEW es2 \in Seq(Entries), Len(es2) = Len(es) + 1,
           NEW t \in 0 .. Len(es), NEW x, Rows(es2)[t] = Ext(Rows(es)[t], x),
           Len(Rows(es)[t]) % 2 = 0, NEW h \in t + 1 .. Len(es)
    PROVE  Rows(es2)[h] = Rows(es)[h]
<1>1. PICK n \in Nat : n = Len(es)
  OBVIOUS
<1> DEFINE S == {k \in Nat : t + 1 + k <= n => Rows(es2)[t + 1 + k] = Rows(es)[t + 1 + k]}
<1>2. 0 \in S
  <2>1. SUFFICES ASSUME t + 1 <= n PROVE Rows(es2)[t + 1] = Rows(es)[t + 1]
    BY <1>1
  <2>2. t \in 0 .. Len(es) - 1 /\ t \in 0 .. Len(es2) - 1
    BY <1>1, <2>1
  <2>3. PICK row : row = Rows(es)[t]
    OBVIOUS
  <2>4. Len(row) \in Nat
    BY <2>3, RowShape
  <2>5. Paired(Ext(row, x)) = Paired(row)
    BY <2>3, <2>4, PairedEven
  <2>6. Rows(es2)[t + 1] = Paired(Ext(row, x)) /\ Rows(es)[t + 1] = Paired(row)
    BY <2>2, <2>3, RowNext
  <2> QED
    BY <2>5, <2>6
<1>3. ASSUME NEW k \in S PROVE k + 1 \in S
  <2>1. k \in Nat
    OBVIOUS
  <2>2. PICK j : j = t + 1 + k
    OBVIOUS
  <2>3. j \in Nat /\ t + 1 + (k + 1) = j + 1
    BY <1>1, <2>1, <2>2
  <2>4. SUFFICES ASSUME j + 1 <= n PROVE Rows(es2)[j + 1] = Rows(es)[j + 1]
    BY <2>1, <2>3
  <2>5. j \in 0 .. Len(es) - 1 /\ j \in 0 .. Len(es2) - 1 /\ j <= n
    BY <1>1, <2>3, <2>4
  <2>6. Rows(es2)[j] = Rows(es)[j]
    BY <2>2, <2>5
  <2> HIDE DEF S
  <2> QED
    BY <2>5, <2>6, RowNext
<1>4. S = Nat
  <2> HIDE DEF S
  <2>1. S \in SUBSET Nat
    BY DEF S
  <2> QED
    BY <1>2, <1>3, <2>1, Induction
<1>5. PICK k \in Nat : t + 1 + k = h
  <2>1. h - (t + 1) \in Nat /\ t + 1 + (h - (t + 1)) = h
    BY <1>1
  <2> QED
    BY <2>1
<1>6. t + 1 + k <= n
  BY <1>1, <1>5
<1> QED
  BY <1>4, <1>5, <1>6

(* append_leaf keeps the frontier that of the entries.                     *)
LEMMA AppendKeeps ==
    ASSUME NEW es \in Seq(Entries), NEW e \in Entries, NEW m, FrontierOf(m, es)
    PROVE  FrontierOf(AppendLeaf(m, leaf_hash(e)), Append(es, e))
<1>1. PICK n \in Nat : n = Len(es)
  OBVIOUS
<1>2. PICK es2 \in Seq(Entries) : es2 = Append(es, e)
  BY LeavesGrow
<1>3. Len(es2) = n + 1
  BY <1>1, <1>2, LeavesGrow
<1>4. /\ m.leaf_count = n
      /\ DOMAIN m.frontier = 1 .. Len(m.frontier) /\ Len(m.frontier) \in 0 .. n
      /\ \A l \in 1 .. Len(m.frontier) : m.frontier[l] = LastAlone(Rows(es)[l - 1])
      /\ \A h \in Len(m.frontier) .. n : Len(Rows(es)[h]) = 0
  BY <1>1 DEF FrontierOf
<1>5. PICK size \in 0 .. n : size = Len(m.frontier)
  BY <1>4
<1>6. PICK c : c = Climbed(m, leaf_hash(e))[n]
  OBVIOUS
<1>7. Reached(c, m, es, es2, n) /\ c.index % 2 = 0
  BY <1>1, <1>2, <1>6, ClimbEnds
<1>8. PICK t \in 0 .. n : t = c.level
  BY <1>7 DEF Reached
<1>9. PICK row : row = Rows(es)[t]
  OBVIOUS
<1>10. /\ Len(row) % 2 = 0 /\ Rows(es2)[t] = Ext(row, c.carry)
       /\ \A h \in 0 .. t - 1 : Len(Rows(es2)[h]) % 2 = 0
       /\ DOMAIN c.frontier = 1 .. size /\ Len(c.frontier) = size
       /\ \A l \in 1 .. size : c.frontier[l] = IF l <= t THEN <<>> ELSE m.frontier[l]
  BY <1>5, <1>7, <1>8, <1>9 DEF Reached
<1>11. Len(row) \in Nat
  BY <1>1, <1>9, RowShape
<1>12. \A h \in t + 1 .. n : Rows(es2)[h] = Rows(es)[h]
  <2>1. /\ Len(es2) = Len(es) + 1 /\ t \in 0 .. Len(es)
        /\ Rows(es2)[t] = Ext(Rows(es)[t], c.carry) /\ Len(Rows(es)[t]) % 2 = 0
    BY <1>1, <1>3, <1>9, <1>10
  <2>2. \A h \in t + 1 .. Len(es) : Rows(es2)[h] = Rows(es)[h]
    BY <2>1, RowsStay
  <2> QED
    BY <1>1, <2>2
<1>13. PICK slots \in Nat : slots = IF size > t THEN size ELSE t + 1
  OBVIOUS
<1>14. slots >= size /\ slots >= t + 1 /\ slots <= n + 1 /\ (slots = size \/ slots = t + 1)
  BY <1>13
<1>15. PICK a : a = AppendLeaf(m, leaf_hash(e))
  OBVIOUS
<1>16. /\ a.leaf_count = n + 1
       /\ a.frontier = [l \in 1 .. slots |-> IF l = t + 1 THEN <<c.carry>> ELSE Slot(c.frontier, l)]
  BY <1>4, <1>6, <1>8, <1>10, <1>13, <1>15 DEF AppendLeaf
<1>17. PICK fr : fr = a.frontier
  OBVIOUS
<1>18. fr = [l \in 1 .. slots |-> fr[l]]
  BY <1>16, <1>17
<1>19. Len(fr) = slots /\ DOMAIN fr = 1 .. slots
  BY <1>18, LenOf
<1>20. ASSUME NEW l \in 1 .. slots PROVE fr[l] = LastAlone(Rows(es2)[l - 1])
  <2>1. l \in Nat /\ l >= 1 /\ fr[l] = IF l = t + 1 THEN <<c.carry>> ELSE Slot(c.frontier, l)
    BY <1>16, <1>17
  <2>2. CASE l = t + 1
    <3>1. PICK row2 : row2 = Rows(es2)[t]
      OBVIOUS
    <3>2. Len(row2) = Len(row) + 1 /\ row2[Len(row) + 1] = c.carry
      BY <1>10, <1>11, <3>1, ExtShape
    <3>3. Len(row2) % 2 # 0
      BY <1>10, <1>11, <3>2
    <3>4. l - 1 = t
      BY <2>2
    <3> QED
      BY <2>1, <2>2, <3>1, <3>2, <3>3, <3>4 DEF LastAlone
  <2>3. CASE l <= t
    <3>1. l - 1 \in 0 .. t - 1 /\ l # t + 1
      BY <2>1, <2>3
    <3>2. Len(Rows(es2)[l - 1]) % 2 = 0
      BY <1>10, <3>1
    <3>3. Slot(c.frontier, l) = <<>>
      BY <1>10, <2>1, <2>3 DEF Slot
    <3> QED
      BY <2>1, <3>1, <3>2, <3>3 DEF LastAlone
  <2>4. CASE l > t + 1
    <3>1. l \in 1 .. size /\ l - 1 \in t + 1 .. n /\ l # t + 1 /\ ~(l <= t)
      BY <1>14, <2>1, <2>4
    <3>2. fr[l] = m.frontier[l]
      BY <1>10, <2>1, <3>1 DEF Slot
    <3>3. m.frontier[l] = LastAlone(Rows(es)[l - 1])
      BY <1>4, <1>5, <3>1
    <3> QED
      BY <1>12, <3>1, <3>2, <3>3
  <2> QED
    BY <2>1, <2>2, <2>3, <2>4
<1>21. ASSUME NEW h \in slots .. n + 1 PROVE Len(Rows(es2)[h]) = 0
  <2>1. CASE h = n + 1
    BY <1>3, <2>1, TopEmpty
  <2>2. CASE h # n + 1
    <3>1. h \in t + 1 .. n /\ h \in size .. n
      BY <1>14, <2>2
    <3> QED
      BY <1>4, <1>5, <1>12, <3>1
  <2> QED
    BY <2>1, <2>2
<1>22. slots \in 0 .. n + 1
  BY <1>14
<1>23. FrontierOf(a, es2)
  BY <1>3, <1>16, <1>17, <1>19, <1>20, <1>21, <1>22 DEF FrontierOf
<1> QED
  BY <1>2, <1>15, <1>23

-----------------------------------------------------------------------------
(* from_entries and root.                                                  *)

(* The first state of from_entries, and the step for each entry.           *)
LEMMA StatesStep ==
    ASSUME NEW es, Len(es) \in Nat
    PROVE  /\ States(es)[0] = NoState
           /\ \A k \in 0 .. Len(es) - 1 :
                 States(es)[k + 1] = AppendLeaf(States(es)[k], leaf_hash(es[k + 1]))
<1> DEFINE f == States(es)
<1>1. f = [k \in 0 .. Len(es) |-> IF k = 0 THEN NoState ELSE AppendLeaf(f[k - 1], leaf_hash(es[k]))]
  BY StatesDef
<1> HIDE DEF f
<1>2. f[0] = NoState
  BY <1>1
<1>3. ASSUME NEW k \in 0 .. Len(es) - 1 PROVE f[k + 1] = AppendLeaf(f[k], leaf_hash(es[k + 1]))
  <2>1. k + 1 \in 0 .. Len(es) /\ k + 1 # 0 /\ (k + 1) - 1 = k
    OBVIOUS
  <2> QED
    BY <1>1, <2>1
<1> QED
  BY <1>2, <1>3 DEF f

(* Without entries there is nothing in the frontier.                       *)
LEMMA NoStateKeeps == FrontierOf(NoState, <<>>)
<1>1. <<>> \in Seq(Entries) /\ Len(<<>>) = 0
  OBVIOUS
<1>2. Len(Rows(<<>>)[0]) = 0
  BY <1>1, TopEmpty
<1>3. NoState.leaf_count = 0 /\ NoState.frontier = <<>>
  BY DEF NoState
<1>4. \A h \in 0 .. 0 : h = 0
  OBVIOUS
<1>5. DOMAIN <<>> = 1 .. 0 /\ \A l \in 1 .. 0 : FALSE
  OBVIOUS
<1> QED
  BY <1>1, <1>2, <1>3, <1>4, <1>5 DEF FrontierOf

(* The first entries of a log are a log.                                   *)
LEMMA FirstOnes ==
    ASSUME NEW es \in Seq(Entries), NEW k \in 0 .. Len(es)
    PROVE  SubSeq(es, 1, k) \in Seq(Entries)
<1>1. SubSeq(es, 1, k) = [i \in 1 .. k |-> es[i]] /\ k \in Nat
  OBVIOUS
<1>2. \A i \in 1 .. k : es[i] \in Entries
  OBVIOUS
<1> QED
  BY <1>1, <1>2

(* from_entries makes the frontier of the entries.                         *)
LEMMA FromEntriesKeeps ==
    ASSUME NEW es \in Seq(Entries)
    PROVE  FrontierOf(FromEntries(es), es)
<1>1. PICK n \in Nat : n = Len(es)
  OBVIOUS
<1> DEFINE S == {k \in Nat : k <= n => FrontierOf(States(es)[k], SubSeq(es, 1, k))}
<1>2. 0 \in S
  <2>1. SubSeq(es, 1, 0) = <<>>
    OBVIOUS
  <2> QED
    BY <1>1, <2>1, StatesStep, NoStateKeeps
<1>3. ASSUME NEW k \in S PROVE k + 1 \in S
  <2>1. k \in Nat
    OBVIOUS
  <2>2. SUFFICES ASSUME k + 1 <= n PROVE FrontierOf(States(es)[k + 1], SubSeq(es, 1, k + 1))
    BY <2>1
  <2>3. FrontierOf(States(es)[k], SubSeq(es, 1, k)) /\ k \in 0 .. Len(es) - 1
    BY <1>1, <2>1, <2>2
  <2> HIDE DEF S
  <2>4. PICK e \in Entries : e = es[k + 1]
    BY <1>1, <2>3
  <2>5. PICK low \in Seq(Entries) : low = SubSeq(es, 1, k)
    <3>1. k \in 0 .. Len(es)
      BY <1>1, <2>3
    <3>2. SubSeq(es, 1, k) \in Seq(Entries)
      BY <3>1, FirstOnes
    <3> QED
      BY <3>2
  <2>6. SubSeq(es, 1, k + 1) = Append(low, e)
    BY <1>1, <2>3, <2>4, <2>5
  <2>7. States(es)[k + 1] = AppendLeaf(States(es)[k], leaf_hash(e))
    BY <1>1, <2>3, <2>4, StatesStep
  <2> QED
    BY <2>3, <2>5, <2>6, <2>7, AppendKeeps
<1>4. S = Nat
  <2> HIDE DEF S
  <2>1. S \in SUBSET Nat
    BY DEF S
  <2> QED
    BY <1>2, <1>3, <2>1, Induction
<1>5. FrontierOf(States(es)[n], SubSeq(es, 1, n))
  BY <1>4
<1>6. SubSeq(es, 1, n) = es
  BY <1>1
<1> QED
  BY <1>1, <1>5, <1>6 DEF FromEntries

(* The roots of the reference definition, from the top down.               *)
LEMMA RootsFromStep ==
    ASSUME NEW es, Len(es) \in Nat
    PROVE  /\ RootsFrom(es)[Len(es)] = EmptyRoot
           /\ \A h \in 0 .. Len(es) - 1 :
                 RootsFrom(es)[h] = OverRow(Rows(es)[h], RootsFrom(es)[h + 1])
<1> DEFINE f == RootsFrom(es)
<1>1. f = [k \in 0 .. Len(es) |-> IF k = Len(es) THEN EmptyRoot ELSE OverRow(Rows(es)[k], f[k + 1])]
  BY RootsFromDef
<1> HIDE DEF f
<1>2. f[Len(es)] = EmptyRoot
  BY <1>1
<1>3. ASSUME NEW h \in 0 .. Len(es) - 1 PROVE f[h] = OverRow(Rows(es)[h], f[h + 1])
  <2>1. h \in 0 .. Len(es) /\ h # Len(es)
    OBVIOUS
  <2> QED
    BY <1>1, <2>1
<1> QED
  BY <1>2, <1>3 DEF f

(* The roots that root computes, from the top down.                        *)
LEMMA RootsStep ==
    ASSUME NEW fr, Len(fr) \in Nat
    PROVE  /\ Roots(fr)[Len(fr) + 1] = <<>>
           /\ \A l \in 1 .. Len(fr) : Roots(fr)[l] = HashedInFront(fr[l], Roots(fr)[l + 1])
<1> DEFINE f == Roots(fr)
<1>1. f = [k \in 1 .. (Len(fr) + 1) |->
             IF k = (Len(fr) + 1) THEN <<>> ELSE HashedInFront(fr[k], f[k + 1])]
  BY RootsDef
<1> HIDE DEF f
<1>2. f[Len(fr) + 1] = <<>>
  BY <1>1
<1>3. ASSUME NEW l \in 1 .. Len(fr) PROVE f[l] = HashedInFront(fr[l], f[l + 1])
  <2>1. l \in 1 .. Len(fr) + 1 /\ l # Len(fr) + 1
    OBVIOUS
  <2> QED
    BY <1>1, <2>1
<1> QED
  BY <1>2, <1>3 DEF f

(* The root of empty rows is that of an empty log.                         *)
LEMMA EmptyAbove ==
    ASSUME NEW es \in Seq(Entries), NEW h \in 0 .. Len(es), Len(Rows(es)[h]) = 0
    PROVE  RootsFrom(es)[h] = EmptyRoot
<1>1. PICK n \in Nat : n = Len(es)
  OBVIOUS
<1> DEFINE S == {k \in 0 .. n : Len(Rows(es)[k]) = 0 => RootsFrom(es)[k] = EmptyRoot}
<1>2. n \in S
  BY <1>1, RootsFromStep
<1>3. ASSUME NEW k \in 0 .. n - 1, k + 1 \in S PROVE k \in S
  <2>1. SUFFICES ASSUME Len(Rows(es)[k]) = 0 PROVE RootsFrom(es)[k] = EmptyRoot
    OBVIOUS
  <2>2. Len(Rows(es)[k + 1]) = 0
    <3>1. Len(Rows(es)[k + 1]) = Len(Rows(es)[k]) \div 2
      BY <1>1, RowNext
    <3> QED
      BY <2>1, <3>1
  <2>3. RootsFrom(es)[k + 1] = EmptyRoot
    BY <1>3, <2>2
  <2>4. RootsFrom(es)[k] = OverRow(Rows(es)[k], RootsFrom(es)[k + 1])
    BY <1>1, RootsFromStep
  <2>5. PICK c : c = Len(Rows(es)[k])
    OBVIOUS
  <2>6. c # 1 /\ c % 2 = 0
    BY <2>1, <2>5
  <2> QED
    BY <2>3, <2>4, <2>5, <2>6 DEF OverRow
<1>4. 0 .. n \subseteq S
  <2> HIDE DEF S
  <2> QED
    BY <1>2, <1>3, Downward
<1> QED
  BY <1>1, <1>4

(* What root computes from the frontier of the entries is the canonical    *)
(* root.                                                                   *)
LEMMA RootOfFrontier ==
    ASSUME NEW es \in Seq(Entries), NEW m, FrontierOf(m, es)
    PROVE  Root(m) = CanonicalRoot(es)
<1>1. PICK n \in Nat : n = Len(es)
  OBVIOUS
<1>2. PICK fr : fr = m.frontier
  OBVIOUS
<1>3. /\ Len(fr) \in 0 .. n
      /\ \A l \in 1 .. Len(fr) : fr[l] = LastAlone(Rows(es)[l - 1])
      /\ \A h \in Len(fr) .. n : Len(Rows(es)[h]) = 0
  BY <1>1, <1>2 DEF FrontierOf
<1>4. PICK size \in 0 .. n : size = Len(fr)
  BY <1>3
<1> DEFINE Same(a, b, c) == IF c = 0 THEN a = <<>> /\ b = EmptyRoot ELSE a = <<b>>
           S == {h \in 0 .. size :
                    Same(Roots(fr)[h + 1], RootsFrom(es)[h], Len(Rows(es)[h]))}
<1>5. size \in S
  <2>1. Roots(fr)[size + 1] = <<>>
    BY <1>4, RootsStep
  <2>2. Len(Rows(es)[size]) = 0
    BY <1>3, <1>4
  <2>3. RootsFrom(es)[size] = EmptyRoot
    BY <1>1, <2>2, EmptyAbove
  <2> QED
    BY <2>1, <2>2, <2>3
<1>6. ASSUME NEW h \in 0 .. size - 1, h + 1 \in S PROVE h \in S
  <2>1. /\ h + 1 \in 1 .. Len(fr) /\ (h + 1) - 1 = h /\ h \in 0 .. Len(es) - 1
        /\ h \in 0 .. Len(es)
    BY <1>1, <1>4
  <2>2. PICK row, a, b : row = Rows(es)[h] /\ a = Roots(fr)[(h + 1) + 1] /\ b = RootsFrom(es)[h + 1]
    OBVIOUS
  <2>3. Roots(fr)[h + 1] = HashedInFront(LastAlone(row), a)
    <3>1. fr[h + 1] = LastAlone(row)
      BY <1>3, <2>1, <2>2
    <3>2. Len(fr) \in Nat
      BY <1>4
    <3> QED
      BY <2>1, <2>2, <3>1, <3>2, RootsStep
  <2>4. RootsFrom(es)[h] = OverRow(row, b)
    BY <1>1, <2>1, <2>2, RootsFromStep
  <2>5. Len(row) \in Nat
    BY <2>1, <2>2, RowShape
  <2>6. Same(a, b, Len(row) \div 2)
    BY <1>6, <2>1, <2>2, RowNext
  <2> SUFFICES Same(HashedInFront(LastAlone(row), a), OverRow(row, b), Len(row))
    <3> HIDE DEF Same
    <3> QED
      BY <1>4, <2>2, <2>3, <2>4
  <2> HIDE DEF S
  <2>7. CASE Len(row) % 2 = 0
    <3>1. Len(row) # 1 /\ (Len(row) = 0 <=> Len(row) \div 2 = 0)
      BY <2>5, <2>7, HalfOfEven
    <3>2. HashedInFront(LastAlone(row), a) = a
      BY <2>7 DEF HashedInFront, LastAlone
    <3>3. OverRow(row, b) = b
      BY <2>7, <3>1 DEF OverRow
    <3>4. Same(a, b, Len(row))
      BY <2>6, <3>1
    <3> QED
      BY <3>2, <3>3, <3>4
  <2>8. CASE Len(row) = 1
    <3>1. Len(row) % 2 # 0 /\ Len(row) \div 2 = 0
      BY <2>8
    <3>2. a = <<>>
      BY <2>6, <3>1
    <3>3. PICK x : x = row[1]
      OBVIOUS
    <3>4. LastAlone(row) = <<x>> /\ <<x>> # <<>>
      BY <2>8, <3>1, <3>3 DEF LastAlone
    <3>5. HashedInFront(LastAlone(row), a) = <<x>>
      BY <3>2, <3>4 DEF HashedInFront
    <3>6. OverRow(row, b) = x
      BY <2>8, <3>3 DEF OverRow
    <3>7. Same(<<x>>, x, Len(row))
      BY <2>8
    <3> QED
      BY <3>5, <3>6, <3>7
  <2>9. CASE Len(row) % 2 # 0 /\ Len(row) # 1
    <3>1. Len(row) \div 2 # 0 /\ Len(row) # 0
      BY <2>5, <2>9, HalfOfOdd
    <3>2. a = <<b>> /\ a # <<>> /\ a[1] = b
      BY <2>6, <3>1
    <3>3. PICK x : x = row[Len(row)]
      OBVIOUS
    <3>4. LastAlone(row) = <<x>> /\ <<x>> # <<>> /\ <<x>>[1] = x
      BY <2>9, <3>3 DEF LastAlone
    <3>5. HashedInFront(LastAlone(row), a) = <<hash_node(x, b)>>
      BY <3>2, <3>4 DEF HashedInFront
    <3>6. OverRow(row, b) = hash_node(x, b)
      BY <2>9, <3>3 DEF OverRow
    <3> QED
      BY <3>1, <3>5, <3>6
  <2> QED
    BY <2>7, <2>8, <2>9
<1>7. 0 .. size \subseteq S
  <2> HIDE DEF S
  <2>1. size \in Nat
    OBVIOUS
  <2> QED
    BY <1>5, <1>6, <2>1, Downward
<1>8. Same(Roots(fr)[1], RootsFrom(es)[0], Len(Rows(es)[0]))
  BY <1>7
<1>9. PICK b : b = RootsFrom(es)[0]
  OBVIOUS
<1>10. Root(m) = b
  <2>1. CASE Len(Rows(es)[0]) = 0
    BY <1>2, <1>8, <1>9, <2>1 DEF Root
  <2>2. CASE Len(Rows(es)[0]) # 0
    <3>1. Roots(fr)[1] = <<b>> /\ <<b>> # <<>> /\ <<b>>[1] = b
      BY <1>8, <1>9, <2>2
    <3> QED
      BY <1>2, <3>1 DEF Root
  <2> QED
    BY <2>1, <2>2
<1> QED
  BY <1>9, <1>10 DEF CanonicalRoot

-----------------------------------------------------------------------------
(* The specification.                                                      *)

(* A log has a Merkle state that is empty or that of its entries.          *)
Sound(l) ==
    /\ l.entries \in Seq(Entries) /\ Len(l.entries) <= MaxEntries
    /\ FrontierOf(l, l.entries) \/ (l.leaf_count = 0 /\ l.frontier = <<>>)

LogInv ==
    /\ logs = [s \in Holders |-> logs[s]]
    /\ \A s \in Holders : Sound(logs[s])

(* ensure_merkle_state makes it that of the entries.                       *)
LEMMA EnsuredKeeps ==
    ASSUME NEW l, Sound(l)
    PROVE  FrontierOf(Ensured(l), l.entries)
<1>1. PICK es \in Seq(Entries) : es = l.entries
  BY DEF Sound
<1>2. Len(es) \in Nat
  OBVIOUS
<1>3. CASE l.leaf_count # Len(es)
  BY <1>1, <1>3, FromEntriesKeeps DEF Ensured
<1>4. CASE l.leaf_count = Len(es)
  <2>1. /\ Ensured(l).frontier = l.frontier
        /\ Ensured(l).leaf_count = l.leaf_count
    BY <1>1, <1>4 DEF Ensured, merkle_state
  <2>2. CASE FrontierOf(l, es)
    BY <1>1, <2>1, <2>2 DEF FrontierOf
  <2>3. CASE l.leaf_count = 0 /\ l.frontier = <<>>
    <3>0. Len(es) = 0
      BY <1>4, <2>3
    <3>1. es = <<>>
      BY <3>0
    <3>2. NoState.leaf_count = 0 /\ NoState.frontier = <<>>
      BY DEF NoState
    <3>3. FrontierOf(NoState, es)
      BY <3>1, NoStateKeeps
    <3> QED
      BY <1>1, <2>1, <2>3, <3>2, <3>3 DEF FrontierOf
  <2> QED
    BY <1>1, <2>2, <2>3 DEF Sound
<1> QED
  BY <1>3, <1>4

(* What is said of a Merkle state is said of a log that has it.            *)
LEMMA WithStateSound ==
    ASSUME NEW es \in Seq(Entries), Len(es) <= MaxEntries, NEW m,
           FrontierOf(m, es) \/ m = NoState
    PROVE  Sound(WithState(es, m))
<1>1. PICK l : l = WithState(es, m)
  OBVIOUS
<1>2. l.entries = es /\ l.frontier = m.frontier /\ l.leaf_count = m.leaf_count
  BY <1>1 DEF WithState
<1>3. CASE FrontierOf(m, es)
  <2>1. FrontierOf(l, es)
    BY <1>2, <1>3 DEF FrontierOf
  <2> QED
    BY <1>1, <1>2, <2>1 DEF Sound
<1>4. CASE m = NoState
  <2>1. l.leaf_count = 0 /\ l.frontier = <<>>
    BY <1>2, <1>4 DEF NoState
  <2> QED
    BY <1>1, <1>2, <2>1 DEF Sound
<1> QED
  BY <1>3, <1>4

(* The logs start empty.                                                   *)
LEMMA LogStart == LogInit => LogInv
<1>1. <<>> \in Seq(Entries) /\ Len(<<>>) <= MaxEntries
  BY LogAssumption
<1>2. Sound(WithState(<<>>, NoState))
  BY <1>1, WithStateSound
<1>3. PICK l : l = WithState(<<>>, NoState)
  OBVIOUS
<1>4. ASSUME logs = [s \in Holders |-> l] PROVE LogInv
  BY <1>2, <1>3, <1>4 DEF LogInv
<1> QED
  BY <1>3, <1>4 DEF LogInit

(* Appending, exporting and importing, and reading a log without its       *)
(* Merkle state keep what is said of the logs.                             *)
LEMMA LogStep == LogInv /\ [LogNext]_logs => LogInv'
<1>1. ASSUME LogInv, NEW s \in Holders, NEW l, Sound(l), logs' = [logs EXCEPT ![s] = l]
      PROVE  LogInv'
  <2>1. \A t \in Holders : logs'[t] = IF t = s THEN l ELSE logs[t]
    BY <1>1 DEF LogInv
  <2>2. logs' = [t \in Holders |-> logs'[t]]
    BY <1>1 DEF LogInv
  <2>3. \A t \in Holders : Sound(logs[t])
    BY <1>1 DEF LogInv
  <2>4. ASSUME NEW t \in Holders PROVE Sound(logs'[t])
    BY <1>1, <2>1, <2>3
  <2>5. \A t \in Holders : Sound(logs[t])'
    BY <2>4 DEF Sound, FrontierOf, LastAlone
  <2> QED
    BY <2>2, <2>5 DEF LogInv
<1>2. SUFFICES ASSUME LogInv, LogNext PROVE LogInv'
  <2>1. ASSUME LogInv, UNCHANGED logs PROVE LogInv'
    BY <2>1 DEF LogInv, Sound, FrontierOf, LastAlone
  <2> QED
    BY <1>2, <2>1
<1>3. \A s \in Holders : Sound(logs[s])
  BY <1>2 DEF LogInv
<1>4. ASSUME NEW s \in Holders, AppendEntry(s) PROVE LogInv'
  <2>1. PICK l : l = logs[s]
    OBVIOUS
  <2>2. PICK e \in Entries : logs' = [logs EXCEPT ![s] = Appended(l, e)]
    BY <1>2, <1>4, <2>1 DEF AppendEntry, LogInv
  <2>3. Sound(l) /\ l.entries \in Seq(Entries) /\ Len(l.entries) < MaxEntries
    BY <1>3, <1>4, <2>1 DEF Sound, AppendEntry
  <2>4. FrontierOf(Ensured(l), l.entries)
    BY <2>3, EnsuredKeeps
  <2>5. FrontierOf(AppendLeaf(Ensured(l), leaf_hash(e)), Append(l.entries, e))
    BY <2>3, <2>4, AppendKeeps
  <2>6. Append(l.entries, e) \in Seq(Entries) /\ Len(Append(l.entries, e)) <= MaxEntries
    BY <2>3, LogAssumption
  <2>7. Sound(Appended(l, e))
    BY <2>5, <2>6, WithStateSound DEF Appended
  <2> QED
    BY <1>1, <1>2, <2>2, <2>7
<1>5. ASSUME NEW s \in Holders, Deserialize(s) PROVE LogInv'
  <2>1. PICK l : l = logs[s]
    OBVIOUS
  <2>2. logs' = [logs EXCEPT ![s] = WithState(l.entries, NoState)]
    BY <1>2, <1>5, <2>1 DEF Deserialize, LogInv
  <2>3. Sound(WithState(l.entries, NoState))
    BY <1>3, <2>1, WithStateSound DEF Sound
  <2> QED
    BY <1>1, <1>2, <2>2, <2>3
<1>6. ASSUME NEW s \in Holders, NEW t \in Holders, ExportImport(s, t) PROVE LogInv'
  <2>1. PICK es \in Seq(Entries) : es = logs[s].entries /\ Len(es) <= MaxEntries
    BY <1>3 DEF Sound
  <2>2. logs' = [logs EXCEPT ![t] = Rebuilt(es)]
    BY <1>6, <2>1 DEF ExportImport
  <2>3. Sound(Rebuilt(es))
    BY <2>1, FromEntriesKeeps, WithStateSound DEF Rebuilt
  <2> QED
    BY <1>1, <1>2, <2>2, <2>3
<1> QED
  BY <1>2, <1>4, <1>5, <1>6 DEF LogNext

(* All of this holds of every log at all times.                            *)
LEMMA LogInvariant == LogSpec => []LogInv
BY LogStart, LogStep, PTL DEF LogSpec

(* merkle_root gives the canonical root of a log.                          *)
LEMMA RootOfLog ==
    ASSUME NEW l, Sound(l)
    PROVE  MerkleRoot(l) = CanonicalRoot(l.entries)
<1>1. PICK es \in Seq(Entries) : es = l.entries
  BY DEF Sound
<1>2. CASE es = <<>>
  <2>1. Len(es) = 0 /\ Len(es) \in Nat
    BY <1>2
  <2>2. RootsFrom(es)[0] = EmptyRoot
    BY <2>1, RootsFromStep
  <2> QED
    BY <1>1, <1>2, <2>2 DEF MerkleRoot, CanonicalRoot
<1>3. CASE es # <<>>
  <2>1. Root(Ensured(l)) = CanonicalRoot(es)
    BY <1>1, EnsuredKeeps, RootOfFrontier
  <2> QED
    BY <1>1, <1>3, <2>1 DEF MerkleRoot
<1> QED
  BY <1>2, <1>3

(* However its frontier came about, a log's root is the canonical one.     *)
THEOREM RootTheorem == LogSpec => []RootIsCanonical
<1>1. LogInv => RootIsCanonical
  BY RootOfLog DEF LogInv, RootIsCanonical
<1> QED
  BY <1>1, LogInvariant, PTL

(* Logs have their type; no frontier has more slots than its log entries.  *)
THEOREM LogTypes == LogSpec => []LogTypeOK
<1>1. ASSUME LogInv, NEW s \in Holders
      PROVE  /\ logs[s].entries \in Seq(Entries) /\ Len(logs[s].entries) <= MaxEntries
             /\ logs[s].leaf_count \in {0, Len(logs[s].entries)}
             /\ Len(logs[s].frontier) <= logs[s].leaf_count
  <2>1. PICK l : l = logs[s]
    OBVIOUS
  <2>2. Sound(l)
    BY <1>1, <2>1 DEF LogInv
  <2>3. l.entries \in Seq(Entries) /\ Len(l.entries) \in Nat /\ Len(l.entries) <= MaxEntries
    BY <2>2 DEF Sound
  <2>4. CASE FrontierOf(l, l.entries)
    <3>1. l.leaf_count = Len(l.entries) /\ Len(l.frontier) \in 0 .. Len(l.entries)
      BY <2>4 DEF FrontierOf
    <3> QED
      BY <2>1, <2>3, <3>1, LogAssumption
  <2>5. CASE l.leaf_count = 0 /\ l.frontier = <<>>
    BY <2>1, <2>3, <2>5, LogAssumption
  <2> QED
    BY <2>2, <2>4, <2>5 DEF Sound
<1>2. LogInv => LogTypeOK
  BY <1>1 DEF LogTypeOK
<1> QED
  BY <1>2, LogInvariant, PTL

-----------------------------------------------------------------------------
(* A root commits to the entries.                                          *)

(* x is a node of the row of height h of some log.                         *)
IsNode(x, h) ==
    \E es \in Seq(Entries) :
        h \in 0 .. Len(es) /\ \E i \in 1 .. Len(Rows(es)[h]) : x = Rows(es)[h][i]

(* Hashes are ideal: a node gives its children,                            *)
LEMMA SameNode ==
    ASSUME NEW a, NEW b, NEW c, NEW d, hash_node(a, b) = hash_node(c, d)
    PROVE  a = c /\ b = d
<1>1. hash_node(a, b).left = a /\ hash_node(a, b).right = b
  BY DEF hash_node
<1>2. hash_node(c, d).left = c /\ hash_node(c, d).right = d
  BY DEF hash_node
<1> QED
  BY <1>1, <1>2

(* it is not a leaf,                                                       *)
LEMMA NodeNotLeaf ==
    ASSUME NEW a, NEW b, NEW c
    PROVE  hash_node(a, b) # [leaf |-> c]
<1>1. DOMAIN hash_node(a, b) = {"left", "right"} /\ DOMAIN [leaf |-> c] = {"leaf"}
  BY DEF hash_node
<1>2. "left" \notin {"leaf"} /\ "left" \in {"left", "right"}
  OBVIOUS
<1> QED
  BY <1>1, <1>2

(* and neither is the root of an empty log.                                *)
LEMMA NotEmptyRoot ==
    ASSUME NEW a, NEW b
    PROVE  hash_node(a, b) # EmptyRoot /\ [leaf |-> a] # EmptyRoot
<1>1. /\ DOMAIN hash_node(a, b) = {"left", "right"} /\ DOMAIN [leaf |-> a] = {"leaf"}
      /\ DOMAIN EmptyRoot = {}
  BY DEF hash_node, EmptyRoot
<1>2. "left" \in {"left", "right"} /\ "leaf" \in {"leaf"}
  OBVIOUS
<1> QED
  BY <1>1, <1>2

(* The nodes of height 0 are leaves, the others have children that are     *)
(* nodes one row below.                                                    *)
LEMMA NodeShape ==
    ASSUME NEW x, NEW h \in Nat, IsNode(x, h)
    PROVE  /\ h = 0 => \E c : x = [leaf |-> c]
           /\ h # 0 => \E l, r : x = hash_node(l, r) /\ IsNode(l, h - 1) /\ IsNode(r, h - 1)
<1>1. PICK es \in Seq(Entries) :
         h \in 0 .. Len(es) /\ \E i \in 1 .. Len(Rows(es)[h]) : x = Rows(es)[h][i]
  BY DEF IsNode
<1>2. PICK i \in 1 .. Len(Rows(es)[h]) : x = Rows(es)[h][i]
  BY <1>1
<1>3. Len(es) \in Nat /\ DOMAIN es = 1 .. Len(es)
  OBVIOUS
<1>4. CASE h = 0
  <2>1. Rows(es)[0] = Leaves(es)
    BY <1>3, RowStep
  <2>2. DOMAIN Rows(es)[0] = 1 .. Len(Rows(es)[0]) /\ DOMAIN Leaves(es) = DOMAIN es
    BY <1>3, RowShape DEF Leaves
  <2>3. i \in DOMAIN es
    BY <1>2, <1>4, <2>1, <2>2
  <2>4. x = leaf_hash(es[i])
    BY <1>2, <1>4, <2>1, <2>3 DEF Leaves
  <2> QED
    BY <1>4, <2>4 DEF leaf_hash
<1>5. CASE h # 0
  <2>1. PICK k \in 0 .. Len(es) - 1 : k + 1 = h /\ k = h - 1
    <3>1. h - 1 \in 0 .. Len(es) - 1 /\ (h - 1) + 1 = h
      BY <1>1, <1>3, <1>5
    <3> QED
      BY <3>1
  <2>2. PICK row : row = Rows(es)[k]
    OBVIOUS
  <2>3. Rows(es)[h] = Paired(row) /\ Len(Rows(es)[h]) = Len(row) \div 2
    BY <2>1, <2>2, RowNext
  <2>4. Len(row) \in Nat
    BY <1>3, <2>1, <2>2, RowShape
  <2>5. i \in 1 .. Len(row) \div 2
    BY <1>2, <2>3
  <2>6. x = hash_node(row[2 * i - 1], row[2 * i])
    BY <1>2, <2>3, <2>4, <2>5, PairedShape
  <2>7. 2 * i - 1 \in 1 .. Len(row) /\ 2 * i \in 1 .. Len(row)
    BY <2>4, <2>5
  <2>8. k \in 0 .. Len(es)
    BY <1>3, <2>1
  <2>9. IsNode(row[2 * i - 1], k) /\ IsNode(row[2 * i], k)
    BY <2>2, <2>7, <2>8 DEF IsNode
  <2> QED
    BY <1>5, <2>1, <2>6, <2>9
<1> QED
  BY <1>4, <1>5

(* A node has one height.                                                  *)
LEMMA OneHeight ==
    ASSUME NEW x, NEW h \in Nat, NEW k \in Nat, IsNode(x, h), IsNode(x, k)
    PROVE  h = k
<1> DEFINE S == {n \in Nat : \A y : \A j \in Nat : IsNode(y, n) /\ IsNode(y, j) => n = j}
<1>1. 0 \in S
  <2>1. ASSUME NEW y, NEW j \in Nat, IsNode(y, 0), IsNode(y, j), j # 0 PROVE FALSE
    <3>1. PICK c : y = [leaf |-> c]
      BY <2>1, NodeShape
    <3>2. PICK l, r : y = hash_node(l, r)
      BY <2>1, NodeShape
    <3> QED
      BY <3>1, <3>2, NodeNotLeaf
  <2> QED
    BY <2>1
<1>2. ASSUME NEW n \in S PROVE n + 1 \in S
  <2>1. n \in Nat /\ n + 1 \in Nat /\ n + 1 # 0 /\ (n + 1) - 1 = n
    OBVIOUS
  <2>2. \A y : \A j \in Nat : IsNode(y, n) /\ IsNode(y, j) => n = j
    OBVIOUS
  <2> HIDE DEF S
  <2>3. ASSUME NEW y, NEW j \in Nat, IsNode(y, n + 1), IsNode(y, j) PROVE n + 1 = j
    <3>1. PICK l, r : y = hash_node(l, r) /\ IsNode(l, n) /\ IsNode(r, n)
      BY <2>1, <2>3, NodeShape
    <3>2. CASE j = 0
      <4>1. PICK c : y = [leaf |-> c]
        BY <2>3, <3>2, NodeShape
      <4> QED
        BY <3>1, <4>1, NodeNotLeaf
    <3>3. CASE j # 0
      <4>1. PICK l2, r2 : y = hash_node(l2, r2) /\ IsNode(l2, j - 1) /\ IsNode(r2, j - 1)
        BY <2>3, <3>3, NodeShape
      <4>2. l = l2
        BY <3>1, <4>1, SameNode
      <4>3. j - 1 \in Nat
        BY <3>3
      <4>4. n = j - 1
        BY <2>2, <3>1, <4>1, <4>2, <4>3
      <4>5. (j - 1) + 1 = j
        OBVIOUS
      <4> QED
        BY <2>1, <4>4, <4>5
    <3> QED
      BY <3>2, <3>3
  <2> QED
    BY <2>1, <2>3 DEF S
<1>3. S = Nat
  <2> HIDE DEF S
  <2>1. S \in SUBSET Nat
    BY DEF S
  <2> QED
    BY <1>1, <1>2, <2>1, Induction
<1> QED
  BY <1>3

(* The root of the rows from h up, if the row of height h has one node,    *)
LEMMA OverOne ==
    ASSUME NEW es \in Seq(Entries), NEW h \in 0 .. Len(es) - 1, Len(Rows(es)[h]) = 1
    PROVE  /\ RootsFrom(es)[h] = Rows(es)[h][1]
           /\ IsNode(RootsFrom(es)[h], h)
<1>1. Len(es) \in Nat /\ h \in 0 .. Len(es) /\ 1 \in 1 .. 1
  OBVIOUS
<1>2. RootsFrom(es)[h] = OverRow(Rows(es)[h], RootsFrom(es)[h + 1])
  BY <1>1, RootsFromStep
<1>3. RootsFrom(es)[h] = Rows(es)[h][1]
  BY <1>2 DEF OverRow
<1> QED
  BY <1>1, <1>3 DEF IsNode

(* if their number is even,                                                *)
LEMMA OverEven ==
    ASSUME NEW es \in Seq(Entries), NEW h \in 0 .. Len(es) - 1, Len(Rows(es)[h]) % 2 = 0
    PROVE  /\ RootsFrom(es)[h] = RootsFrom(es)[h + 1]
           /\ Len(Rows(es)[h]) # 0 => Len(Rows(es)[h + 1]) # 0
<1>1. Len(es) \in Nat /\ h \in 0 .. Len(es)
  OBVIOUS
<1>2. RootsFrom(es)[h] = OverRow(Rows(es)[h], RootsFrom(es)[h + 1])
  BY <1>1, RootsFromStep
<1>3. PICK c : c = Len(Rows(es)[h])
  OBVIOUS
<1>4. c \in Nat
  BY <1>1, <1>3, RowShape
<1>5. c # 1 /\ (c = 0 <=> c \div 2 = 0)
  BY <1>3, <1>4, HalfOfEven
<1>6. Len(Rows(es)[h + 1]) = c \div 2
  BY <1>3, RowNext
<1> QED
  BY <1>2, <1>3, <1>5, <1>6 DEF OverRow

(* and if it is odd, but not one.                                          *)
LEMMA OverOdd ==
    ASSUME NEW es \in Seq(Entries), NEW h \in 0 .. Len(es) - 1,
           Len(Rows(es)[h]) % 2 # 0, Len(Rows(es)[h]) # 1
    PROVE  /\ RootsFrom(es)[h] = hash_node(Rows(es)[h][Len(Rows(es)[h])], RootsFrom(es)[h + 1])
           /\ IsNode(Rows(es)[h][Len(Rows(es)[h])], h)
           /\ Len(Rows(es)[h + 1]) # 0
<1>1. Len(es) \in Nat /\ h \in 0 .. Len(es)
  OBVIOUS
<1>2. RootsFrom(es)[h] = OverRow(Rows(es)[h], RootsFrom(es)[h + 1])
  BY <1>1, RootsFromStep
<1>3. PICK row : row = Rows(es)[h]
  OBVIOUS
<1>4. Len(row) \in Nat
  BY <1>1, <1>3, RowShape
<1>5. Len(row) # 0 /\ Len(row) \div 2 # 0
  BY <1>3, <1>4, HalfOfOdd
<1>6. Len(row) \in 1 .. Len(row)
  BY <1>4, <1>5
<1>7. IsNode(row[Len(row)], h)
  BY <1>1, <1>3, <1>6 DEF IsNode
<1>8. Len(Rows(es)[h + 1]) = Len(row) \div 2
  BY <1>3, RowNext
<1>9. OverRow(row, RootsFrom(es)[h + 1]) = hash_node(row[Len(row)], RootsFrom(es)[h + 1])
  BY <1>3 DEF OverRow
<1> QED
  BY <1>2, <1>3, <1>5, <1>7, <1>8, <1>9

(* The root of a row that is not empty is not the root of an empty log.    *)
LEMMA OverNotEmpty ==
    ASSUME NEW es \in Seq(Entries), NEW h \in 0 .. Len(es), Len(Rows(es)[h]) # 0
    PROVE  RootsFrom(es)[h] # EmptyRoot
<1>1. PICK n \in Nat : n = Len(es)
  OBVIOUS
<1> DEFINE S == {k \in 0 .. n : Len(Rows(es)[k]) # 0 => RootsFrom(es)[k] # EmptyRoot}
<1>2. n \in S
  BY <1>1, TopEmpty
<1>3. ASSUME NEW k \in 0 .. n - 1, k + 1 \in S PROVE k \in S
  <2>1. SUFFICES ASSUME Len(Rows(es)[k]) # 0 PROVE RootsFrom(es)[k] # EmptyRoot
    OBVIOUS
  <2>2. Len(Rows(es)[k + 1]) # 0 => RootsFrom(es)[k + 1] # EmptyRoot
    BY <1>3
  <2>3. k \in 0 .. Len(es) - 1 /\ k \in Nat
    BY <1>1
  <2> HIDE DEF S
  <2>4. PICK row : row = Rows(es)[k]
    OBVIOUS
  <2>5. CASE Len(row) = 1
    <3>1. PICK x : x = RootsFrom(es)[k] /\ IsNode(x, k)
      BY <2>3, <2>4, <2>5, OverOne
    <3>2. CASE k = 0
      <4>1. PICK c : x = [leaf |-> c]
        BY <3>1, <3>2, NodeShape
      <4> QED
        BY <3>1, <4>1, NotEmptyRoot
    <3>3. CASE k # 0
      <4>1. PICK l, r : x = hash_node(l, r)
        BY <2>3, <3>1, <3>3, NodeShape
      <4> QED
        BY <3>1, <4>1, NotEmptyRoot
    <3> QED
      BY <3>2, <3>3
  <2>6. CASE Len(row) # 1 /\ Len(row) % 2 = 0
    <3>1. RootsFrom(es)[k] = RootsFrom(es)[k + 1] /\ Len(Rows(es)[k + 1]) # 0
      BY <2>1, <2>3, <2>4, <2>6, OverEven
    <3> QED
      BY <2>2, <3>1
  <2>7. CASE Len(row) # 1 /\ Len(row) % 2 # 0
    <3>1. RootsFrom(es)[k] = hash_node(row[Len(row)], RootsFrom(es)[k + 1])
      BY <2>3, <2>4, <2>7, OverOdd
    <3> QED
      BY <3>1, NotEmptyRoot
  <2> QED
    BY <2>5, <2>6, <2>7
<1>4. 0 .. n \subseteq S
  <2> HIDE DEF S
  <2> QED
    BY <1>2, <1>3, Downward
<1> QED
  BY <1>1, <1>4

(* The root of the rows from h up is no node of a row below, and one of    *)
(* height h only if it is the only one of its row.                         *)
LEMMA OverIsHigh ==
    ASSUME NEW es \in Seq(Entries), NEW h \in 0 .. Len(es), Len(Rows(es)[h]) # 0,
           NEW j \in 0 .. h, IsNode(RootsFrom(es)[h], j)
    PROVE  j = h /\ Len(Rows(es)[h]) = 1
<1>1. PICK n \in Nat : n = Len(es)
  OBVIOUS
<1> DEFINE High(k) == \A i \in 0 .. k :
                         Len(Rows(es)[k]) # 0 /\ IsNode(RootsFrom(es)[k], i)
                            => i = k /\ Len(Rows(es)[k]) = 1
           S == {k \in 0 .. n : High(k)}
<1>2. n \in S
  BY <1>1, TopEmpty
<1>3. ASSUME NEW k \in 0 .. n - 1, k + 1 \in S PROVE k \in S
  <2>1. SUFFICES ASSUME NEW i \in 0 .. k, Len(Rows(es)[k]) # 0, IsNode(RootsFrom(es)[k], i)
                 PROVE  i = k /\ Len(Rows(es)[k]) = 1
    OBVIOUS
  <2>2. High(k + 1)
    BY <1>3
  <2>3. k \in 0 .. Len(es) - 1 /\ k \in Nat /\ i \in Nat /\ i <= k /\ i \in 0 .. k + 1
    BY <1>1
  <2> HIDE DEF S
  <2>4. PICK row : row = Rows(es)[k]
    OBVIOUS
  <2>5. CASE Len(row) = 1
    <3>1. IsNode(RootsFrom(es)[k], k)
      BY <2>3, <2>4, <2>5, OverOne
    <3>2. i = k
      BY <2>1, <2>3, <3>1, OneHeight
    <3> QED
      BY <2>4, <2>5, <3>2
  <2>6. CASE Len(row) # 1 /\ Len(row) % 2 = 0
    <3>1. RootsFrom(es)[k] = RootsFrom(es)[k + 1] /\ Len(Rows(es)[k + 1]) # 0
      BY <2>1, <2>3, <2>4, <2>6, OverEven
    <3>3. i = k + 1
      BY <2>1, <2>2, <2>3, <3>1
    <3> QED
      BY <2>3, <3>3
  <2>7. CASE Len(row) # 1 /\ Len(row) % 2 # 0
    <3>1. PICK x, y : RootsFrom(es)[k] = hash_node(x, y) /\ IsNode(x, k)
      <4>1. /\ RootsFrom(es)[k] = hash_node(row[Len(row)], RootsFrom(es)[k + 1])
            /\ IsNode(row[Len(row)], k)
        BY <2>3, <2>4, <2>7, OverOdd
      <4> QED
        BY <4>1
    <3>2. i # 0
      <4>1. SUFFICES ASSUME i = 0 PROVE FALSE
        OBVIOUS
      <4>2. PICK c : RootsFrom(es)[k] = [leaf |-> c]
        BY <2>1, <2>3, <4>1, NodeShape
      <4> QED
        BY <3>1, <4>2, NodeNotLeaf
    <3>3. PICK l, r : RootsFrom(es)[k] = hash_node(l, r) /\ IsNode(l, i - 1)
      BY <2>1, <2>3, <3>2, NodeShape
    <3>4. x = l
      BY <3>1, <3>3, SameNode
    <3>5. i - 1 \in Nat /\ i - 1 # k
      BY <2>3, <3>2
    <3>6. i - 1 = k
      BY <2>3, <3>1, <3>3, <3>4, <3>5, OneHeight
    <3> QED
      BY <3>5, <3>6
  <2> QED
    BY <2>5, <2>6, <2>7
<1>4. 0 .. n \subseteq S
  <2> HIDE DEF S
  <2> QED
    BY <1>2, <1>3, Downward
<1>5. h \in S
  BY <1>1, <1>4
<1>6. High(h)
  BY <1>5
<1> QED
  BY <1>6

(* If its left child is a node below h, so is the right one.               *)
LEMMA OverBelow ==
    ASSUME NEW es \in Seq(Entries), NEW h \in 0 .. Len(es), Len(Rows(es)[h]) # 0,
           NEW x, NEW y, NEW j \in 0 .. h - 1,
           RootsFrom(es)[h] = hash_node(x, y), IsNode(x, j)
    PROVE  IsNode(y, j)
<1>1. PICK n \in Nat : n = Len(es)
  OBVIOUS
<1>2. j \in Nat
  BY <1>1
<1> DEFINE Below(k) == j < k /\ Len(Rows(es)[k]) # 0 /\ RootsFrom(es)[k] = hash_node(x, y)
                          => IsNode(y, j)
           S == {k \in 0 .. n : Below(k)}
<1>3. n \in S
  BY <1>1, TopEmpty
<1>4. ASSUME NEW k \in 0 .. n - 1, k + 1 \in S PROVE k \in S
  <2>1. SUFFICES ASSUME j < k, Len(Rows(es)[k]) # 0, RootsFrom(es)[k] = hash_node(x, y)
                 PROVE  IsNode(y, j)
    OBVIOUS
  <2>2. Below(k + 1)
    BY <1>4
  <2>3. k \in 0 .. Len(es) - 1 /\ k \in Nat /\ k # 0 /\ k - 1 \in Nat /\ j # k /\ j < k + 1
    BY <1>1, <1>2, <2>1
  <2> HIDE DEF S
  <2>4. PICK row : row = Rows(es)[k]
    OBVIOUS
  <2>5. CASE Len(row) = 1
    <3>1. IsNode(hash_node(x, y), k)
      BY <2>1, <2>3, <2>4, <2>5, OverOne
    <3>2. PICK l, r : hash_node(x, y) = hash_node(l, r) /\ IsNode(l, k - 1) /\ IsNode(r, k - 1)
      BY <2>3, <3>1, NodeShape
    <3>3. x = l /\ y = r
      BY <3>2, SameNode
    <3>4. j = k - 1
      BY <1>2, <2>3, <3>2, <3>3, OneHeight
    <3> QED
      BY <3>2, <3>3, <3>4
  <2>6. CASE Len(row) # 1 /\ Len(row) % 2 = 0
    <3>1. RootsFrom(es)[k] = RootsFrom(es)[k + 1] /\ Len(Rows(es)[k + 1]) # 0
      BY <2>1, <2>3, <2>4, <2>6, OverEven
    <3> QED
      BY <2>1, <2>2, <2>3, <3>1
  <2>7. CASE Len(row) # 1 /\ Len(row) % 2 # 0
    <3>1. PICK l, r : RootsFrom(es)[k] = hash_node(l, r) /\ IsNode(l, k)
      <4>1. /\ RootsFrom(es)[k] = hash_node(row[Len(row)], RootsFrom(es)[k + 1])
            /\ IsNode(row[Len(row)], k)
        BY <2>3, <2>4, <2>7, OverOdd
      <4> QED
        BY <4>1
    <3>2. x = l
      BY <2>1, <3>1, SameNode
    <3>3. j = k
      BY <1>2, <2>3, <3>1, <3>2, OneHeight
    <3> QED
      BY <2>3, <3>3
  <2> QED
    BY <2>5, <2>6, <2>7
<1>5. 0 .. n \subseteq S
  <2> HIDE DEF S
  <2> QED
    BY <1>3, <1>4, Downward
<1>6. h \in S /\ j < h
  BY <1>1, <1>2, <1>5
<1> QED
  BY <1>6

(* Equal roots come from rows that are both empty, both single, both even  *)
(* or both odd: the ways in which a row can differ from another.           *)
LEMMA NotConfused ==
    ASSUME NEW es \in Seq(Entries), NEW fs \in Seq(Entries),
           NEW h \in (0 .. Len(es) - 1) \cap (0 .. Len(fs) - 1),
           RootsFrom(es)[h] = RootsFrom(fs)[h], Len(Rows(fs)[h]) # 0
    PROVE  /\ Len(Rows(es)[h]) # 0
           /\ Len(Rows(es)[h]) = 1 => Len(Rows(fs)[h]) = 1
           /\ Len(Rows(es)[h]) % 2 = 0 => Len(Rows(fs)[h]) = 1 \/ Len(Rows(fs)[h]) % 2 = 0
<1>1. /\ Len(es) \in Nat /\ Len(fs) \in Nat /\ h \in Nat
      /\ h \in 0 .. Len(es) /\ h \in 0 .. Len(fs) /\ h \in 0 .. h
      /\ h + 1 \in 0 .. Len(es) /\ h + 1 \in 0 .. Len(fs)
      /\ h \in 0 .. (h + 1) - 1 /\ h \in 0 .. h + 1 /\ h # h + 1
  OBVIOUS
<1>2. Len(Rows(es)[h]) # 0
  <2>1. RootsFrom(fs)[h] # EmptyRoot
    BY <1>1, OverNotEmpty
  <2> QED
    BY <1>1, <2>1, EmptyAbove
<1>3. ASSUME Len(Rows(es)[h]) = 1 PROVE Len(Rows(fs)[h]) = 1
  <2>1. IsNode(RootsFrom(fs)[h], h)
    BY <1>3, OverOne
  <2> QED
    BY <1>1, <2>1, OverIsHigh
<1>4. ASSUME Len(Rows(es)[h]) % 2 = 0, Len(Rows(fs)[h]) # 1, Len(Rows(fs)[h]) % 2 # 0 PROVE FALSE
  <2>1. RootsFrom(es)[h] = RootsFrom(es)[h + 1] /\ Len(Rows(es)[h + 1]) # 0
    BY <1>2, <1>4, OverEven
  <2>2. PICK x, y : /\ x = Rows(fs)[h][Len(Rows(fs)[h])] /\ y = RootsFrom(fs)[h + 1]
    OBVIOUS
  <2>3. RootsFrom(fs)[h] = hash_node(x, y) /\ IsNode(x, h) /\ Len(Rows(fs)[h + 1]) # 0
    BY <1>4, <2>2, OverOdd
  <2>4. IsNode(y, h)
    BY <1>1, <2>1, <2>3, OverBelow
  <2>5. h = h + 1
    BY <1>1, <2>2, <2>3, <2>4, OverIsHigh
  <2> QED
    BY <1>1, <2>5
<1> QED
  BY <1>2, <1>3, <1>4

(* An odd place that is not the last one is the first of a pair.           *)
LEMMA OddPlace ==
    ASSUME NEW c \in Nat, NEW i \in 1 .. c, i % 2 # 0, i # c
    PROVE  \E k \in 1 .. c \div 2 : i = 2 * k - 1
<1>1. PICK d \in Nat : d = i \div 2
  OBVIOUS
<1>2. i = 2 * d + 1
  BY <1>1
<1>3. 2 * (d + 1) <= c
  BY <1>2
<1>4. d + 1 <= c \div 2
  BY <1>3
<1>5. d + 1 \in 1 .. c \div 2 /\ i = 2 * (d + 1) - 1
  BY <1>2, <1>4
<1> QED
  BY <1>5

(* Sequences over the same places are of the same length.                  *)
LEMMA SameLength ==
    ASSUME NEW c \in Nat, NEW d \in Nat, 1 .. c = 1 .. d
    PROVE  c = d
<1>1. ASSUME c # 0 PROVE c <= d
  <2>1. c \in 1 .. c
    BY <1>1
  <2>2. c \in 1 .. d
    BY <2>1
  <2> QED
    BY <2>2
<1>2. ASSUME d # 0 PROVE d <= c
  <2>1. d \in 1 .. d
    BY <1>2
  <2>2. d \in 1 .. c
    BY <2>1
  <2> QED
    BY <2>2
<1> QED
  BY <1>1, <1>2

(* Two rows are equal if the rows above them are, and their last nodes if  *)
(* these have no partner.                                                  *)
LEMMA SamePairs ==
    ASSUME NEW row, NEW sow, Len(row) \in Nat, Len(sow) \in Nat,
           row = [i \in 1 .. Len(row) |-> row[i]], sow = [i \in 1 .. Len(sow) |-> sow[i]],
           Paired(row) = Paired(sow), Len(row) % 2 = Len(sow) % 2,
           Len(row) % 2 # 0 => row[Len(row)] = sow[Len(sow)]
    PROVE  row = sow
<1>1. PICK c \in Nat, d \in Nat : c = Len(row) /\ d = Len(sow)
  OBVIOUS
<1>2. c \div 2 = d \div 2
  BY <1>1, PairedShape
<1>3. c = d
  <2>1. c = 2 * (c \div 2) + (c % 2) /\ d = 2 * (d \div 2) + (d % 2)
    OBVIOUS
  <2> QED
    BY <1>1, <1>2, <2>1
<1>4. ASSUME NEW k \in 1 .. c \div 2 PROVE row[2 * k - 1] = sow[2 * k - 1] /\ row[2 * k] = sow[2 * k]
  <2>1. Paired(row)[k] = hash_node(row[2 * k - 1], row[2 * k])
    BY <1>1, PairedShape
  <2>2. Paired(sow)[k] = hash_node(sow[2 * k - 1], sow[2 * k])
    BY <1>1, <1>2, PairedShape
  <2> QED
    BY <2>1, <2>2, SameNode
<1>5. ASSUME NEW i \in 1 .. c PROVE row[i] = sow[i]
  <2>1. CASE i % 2 = 0
    <3>1. PICK k \in 1 .. c \div 2 : i = 2 * k
      <4>1. i \div 2 \in 1 .. c \div 2 /\ i = 2 * (i \div 2)
        BY <2>1
      <4> QED
        BY <4>1
    <3> QED
      BY <1>4, <3>1
  <2>2. CASE i % 2 # 0 /\ i # c
    <3>1. PICK k \in 1 .. c \div 2 : i = 2 * k - 1
      BY <2>2, OddPlace
    <3> QED
      BY <1>4, <3>1
  <2>3. CASE i % 2 # 0 /\ i = c
    BY <1>1, <1>3, <2>3
  <2> QED
    BY <2>1, <2>2, <2>3
<1> QED
  BY <1>1, <1>3, <1>5

(* Equal roots come from equal rows.                                       *)
LEMMA SameRows ==
    ASSUME NEW es \in Seq(Entries), NEW fs \in Seq(Entries), Len(es) <= Len(fs),
           RootsFrom(es)[0] = RootsFrom(fs)[0]
    PROVE  Rows(es)[0] = Rows(fs)[0]
<1>1. PICK n \in Nat : n = Len(es) /\ n <= Len(fs) /\ Len(fs) \in Nat
  OBVIOUS
<1> DEFINE Alike(k) == RootsFrom(es)[k] = RootsFrom(fs)[k] => Rows(es)[k] = Rows(fs)[k]
           S == {k \in 0 .. n : Alike(k)}
<1>2. ASSUME NEW k \in 0 .. n
      PROVE  /\ k \in 0 .. Len(es) /\ k \in 0 .. Len(fs)
             /\ Len(Rows(es)[k]) \in Nat /\ Rows(es)[k] = [i \in 1 .. Len(Rows(es)[k]) |-> Rows(es)[k][i]]
             /\ Len(Rows(fs)[k]) \in Nat /\ Rows(fs)[k] = [i \in 1 .. Len(Rows(fs)[k]) |-> Rows(fs)[k][i]]
  <2>1. k \in 0 .. Len(es) /\ k \in 0 .. Len(fs)
    BY <1>1
  <2>2. Len(Rows(es)[k]) \in 0 .. Len(es) - k /\ Len(Rows(fs)[k]) \in 0 .. Len(fs) - k
    BY <2>1, RowShape
  <2>3. Len(Rows(es)[k]) \in Nat /\ Len(Rows(fs)[k]) \in Nat
    BY <1>1, <2>2
  <2>4. Rows(es)[k] = [i \in 1 .. Len(Rows(es)[k]) |-> Rows(es)[k][i]]
    BY <2>1, RowShape
  <2>5. Rows(fs)[k] = [i \in 1 .. Len(Rows(fs)[k]) |-> Rows(fs)[k][i]]
    BY <2>1, RowShape
  <2> QED
    BY <2>1, <2>3, <2>4, <2>5
<1>3. ASSUME NEW k \in 0 .. n, Len(Rows(es)[k]) = 0, Len(Rows(fs)[k]) = 0
      PROVE  Rows(es)[k] = Rows(fs)[k]
  <2>1. PICK row, sow : row = Rows(es)[k] /\ sow = Rows(fs)[k]
    OBVIOUS
  <2>2. row = [i \in 1 .. 0 |-> row[i]] /\ sow = [i \in 1 .. 0 |-> sow[i]]
    BY <1>2, <1>3, <2>1
  <2>3. \A i \in 1 .. 0 : row[i] = sow[i]
    OBVIOUS
  <2>4. row = sow
    BY <2>2, <2>3
  <2> QED
    BY <2>1, <2>4
<1>4. n \in S
  <2>1. Len(Rows(es)[n]) = 0 /\ n \in 0 .. n
    BY <1>1, TopEmpty
  <2>2. SUFFICES ASSUME RootsFrom(es)[n] = RootsFrom(fs)[n] PROVE Rows(es)[n] = Rows(fs)[n]
    BY <2>1
  <2>3. RootsFrom(es)[n] = EmptyRoot
    BY <1>1, RootsFromStep
  <2>4. Len(Rows(fs)[n]) = 0
    BY <1>2, <2>1, <2>2, <2>3, OverNotEmpty
  <2> QED
    BY <1>3, <2>1, <2>4
<1>5. ASSUME NEW k \in 0 .. n - 1, k + 1 \in S PROVE k \in S
  <2>1. k \in 0 .. n
    BY <1>1
  <2>2. Alike(k + 1)
    BY <1>5
  <2>3. SUFFICES ASSUME RootsFrom(es)[k] = RootsFrom(fs)[k] PROVE Rows(es)[k] = Rows(fs)[k]
    BY <2>1
  <2> HIDE DEF S
  <2>4. k \in (0 .. Len(es) - 1) \cap (0 .. Len(fs) - 1) /\ k \in (0 .. Len(fs) - 1) \cap (0 .. Len(es) - 1)
    BY <1>1
  <2>5. PICK row, sow : row = Rows(es)[k] /\ sow = Rows(fs)[k]
    OBVIOUS
  <2>6. Len(row) # 0 =>
           /\ Len(sow) # 0 /\ (Len(sow) = 1 => Len(row) = 1)
           /\ Len(sow) % 2 = 0 => Len(row) = 1 \/ Len(row) % 2 = 0
    BY <2>3, <2>4, <2>5, NotConfused
  <2>7. Len(sow) # 0 =>
           /\ Len(row) # 0 /\ (Len(row) = 1 => Len(sow) = 1)
           /\ Len(row) % 2 = 0 => Len(sow) = 1 \/ Len(sow) % 2 = 0
    BY <2>3, <2>4, <2>5, NotConfused
  <2>8. /\ Len(row) \in Nat /\ row = [i \in 1 .. Len(row) |-> row[i]]
        /\ Len(sow) \in Nat /\ sow = [i \in 1 .. Len(sow) |-> sow[i]]
    BY <1>2, <2>1, <2>5
  <2>9. CASE Len(row) = 0
    <3>1. Len(sow) = 0
      BY <2>7, <2>9
    <3> QED
      BY <1>3, <2>1, <2>5, <2>9, <3>1
  <2>10. CASE Len(row) = 1
    <3>1. Len(sow) = 1
      BY <2>6, <2>7, <2>10
    <3>2. RootsFrom(es)[k] = row[1] /\ RootsFrom(fs)[k] = sow[1]
      BY <2>4, <2>5, <2>10, <3>1, OverOne
    <3>3. \A i \in 1 .. 1 : row[i] = sow[i]
      <4>1. row[1] = sow[1]
        BY <2>3, <3>2
      <4>2. \A i \in 1 .. 1 : i = 1
        OBVIOUS
      <4> QED
        BY <4>1, <4>2
    <3>4. row = sow
      BY <2>8, <2>10, <3>1, <3>3
    <3> QED
      BY <2>5, <3>4
  <2>11. ASSUME Len(row) % 2 = Len(sow) % 2, RootsFrom(es)[k + 1] = RootsFrom(fs)[k + 1],
                Len(row) % 2 # 0 => row[Len(row)] = sow[Len(sow)]
         PROVE  Rows(es)[k] = Rows(fs)[k]
    <3>1. Paired(row) = Paired(sow)
      BY <2>2, <2>4, <2>5, <2>11, RowNext
    <3>2. row = sow
      BY <2>8, <2>11, <3>1, SamePairs
    <3> QED
      BY <2>5, <3>2
  <2>12. CASE Len(row) # 0 /\ Len(row) % 2 = 0
    <3>1. Len(row) # 1
      BY <2>8, <2>12, HalfOfEven
    <3>2. Len(sow) % 2 = 0
      BY <2>6, <2>7, <2>12, <3>1
    <3>3. RootsFrom(es)[k + 1] = RootsFrom(fs)[k + 1]
      BY <2>3, <2>4, <2>5, <2>12, <3>2, OverEven
    <3> QED
      BY <2>11, <2>12, <3>2, <3>3
  <2>13. CASE Len(row) # 1 /\ Len(row) % 2 # 0
    <3>1. Len(row) # 0
      BY <2>8, <2>13, HalfOfOdd
    <3>2. Len(sow) # 1 /\ Len(sow) % 2 # 0
      BY <2>6, <2>13, <3>1
    <3>3. hash_node(row[Len(row)], RootsFrom(es)[k + 1]) = hash_node(sow[Len(sow)], RootsFrom(fs)[k + 1])
      <4>1. RootsFrom(es)[k] = hash_node(row[Len(row)], RootsFrom(es)[k + 1])
        BY <2>4, <2>5, <2>13, OverOdd
      <4>2. RootsFrom(fs)[k] = hash_node(sow[Len(sow)], RootsFrom(fs)[k + 1])
        BY <2>4, <2>5, <3>2, OverOdd
      <4> QED
        BY <2>3, <4>1, <4>2
    <3>4. row[Len(row)] = sow[Len(sow)] /\ RootsFrom(es)[k + 1] = RootsFrom(fs)[k + 1]
      BY <3>3, SameNode
    <3>5. Len(row) % 2 = 1 /\ Len(sow) % 2 = 1
      BY <2>8, <2>13, <3>2
    <3> QED
      BY <2>11, <3>4, <3>5
  <2> QED
    BY <2>9, <2>10, <2>12, <2>13
<1>6. 0 .. n \subseteq S
  <2> HIDE DEF S
  <2> QED
    BY <1>4, <1>5, Downward
<1>7. 0 \in S
  BY <1>6
<1> QED
  BY <1>7

(* A canonical root is that of one log only.                               *)
LEMMA RootCommits ==
    ASSUME EncodingInjective, NEW es \in Seq(Entries), NEW fs \in Seq(Entries),
           CanonicalRoot(es) = CanonicalRoot(fs)
    PROVE  es = fs
<1>1. Len(es) \in Nat /\ Len(fs) \in Nat /\ DOMAIN es = 1 .. Len(es) /\ DOMAIN fs = 1 .. Len(fs)
  OBVIOUS
<1>2. RootsFrom(es)[0] = RootsFrom(fs)[0]
  BY DEF CanonicalRoot
<1>3. Rows(es)[0] = Rows(fs)[0]
  <2>1. CASE Len(es) <= Len(fs)
    BY <1>2, <2>1, SameRows
  <2>2. CASE Len(fs) <= Len(es)
    BY <1>2, <2>2, SameRows
  <2> QED
    BY <1>1, <2>1, <2>2
<1>4. Leaves(es) = Leaves(fs)
  BY <1>1, <1>3, RowStep
<1>5. DOMAIN Leaves(es) = DOMAIN es /\ DOMAIN Leaves(fs) = DOMAIN fs
  BY DEF Leaves
<1>6. Len(es) = Len(fs)
  <2>1. 1 .. Len(es) = 1 .. Len(fs)
    BY <1>1, <1>4, <1>5
  <2> QED
    BY <1>1, <2>1, SameLength
<1>7. ASSUME NEW i \in 1 .. Len(es) PROVE es[i] = fs[i]
  <2>1. leaf_hash(es[i]) = leaf_hash(fs[i])
    BY <1>1, <1>4, <1>6 DEF Leaves
  <2>2. leaf_hash(es[i]).leaf = Encoding[es[i]] /\ leaf_hash(fs[i]).leaf = Encoding[fs[i]]
    BY DEF leaf_hash
  <2>3. Encoding[es[i]] = Encoding[fs[i]]
    BY <2>1, <2>2
  <2>4. es[i] \in Entries /\ fs[i] \in Entries
    BY <1>6
  <2> QED
    BY <2>3, <2>4 DEF EncodingInjective
<1> QED
  BY <1>1, <1>6, <1>7

(* What the verdicts of compare_with say of the entries of two logs, and   *)
(* what the other side says.                                               *)
LEMMA Verdicts ==
    ASSUME NEW k, NEW l, k.entries \in Seq(Entries), l.entries \in Seq(Entries)
    PROVE  /\ compare_with(k, l) = "Identical" <=> k.entries = l.entries
           /\ compare_with(k, l) = "LocalBehind" <=> ProperPrefix(k.entries, l.entries)
           /\ compare_with(l, k) = Mirror[compare_with(k, l)]
<1>1. PICK es \in Seq(Entries), fs \in Seq(Entries) : es = k.entries /\ fs = l.entries
  OBVIOUS
<1>2. Len(es) \in Nat /\ Len(fs) \in Nat /\ DOMAIN es = 1 .. Len(es) /\ DOMAIN fs = 1 .. Len(fs)
  OBVIOUS
<1> DEFINE P == is_prefix_of(k, l)
           Q == is_prefix_of(l, k)
<1>3. P <=> Len(es) <= Len(fs) /\ \A i \in 1 .. Len(es) : es[i] = fs[i]
  BY <1>1, <1>2 DEF is_prefix_of
<1>4. Q <=> Len(fs) <= Len(es) /\ \A i \in 1 .. Len(fs) : fs[i] = es[i]
  BY <1>1, <1>2 DEF is_prefix_of
<1>5. es = fs => P /\ Q
  BY <1>2, <1>3, <1>4
<1>6. P /\ Q => es = fs
  <2>1. SUFFICES ASSUME P, Q PROVE es = fs
    OBVIOUS
  <2>2. Len(es) <= Len(fs) /\ \A i \in 1 .. Len(es) : es[i] = fs[i]
    BY <1>3, <2>1
  <2>3. Len(fs) <= Len(es)
    BY <1>4, <2>1
  <2>4. Len(es) = Len(fs)
    <3>1. PICK c \in Nat, d \in Nat : c = Len(es) /\ d = Len(fs)
      BY <1>2
    <3>2. c <= d /\ d <= c
      BY <2>2, <2>3, <3>1
    <3>3. c = d
      BY <3>2
    <3> QED
      BY <3>1, <3>3
  <2> QED
    BY <1>2, <2>2, <2>4
<1>7. ProperPrefix(es, fs) <=> P /\ es # fs
  <2>1. ASSUME Len(es) <= Len(fs)
        PROVE  es = SubSeq(fs, 1, Len(es)) <=> \A i \in 1 .. Len(es) : es[i] = fs[i]
    <3>1. SubSeq(fs, 1, Len(es)) = [i \in 1 .. Len(es) |-> fs[i]]
      BY <1>2, <2>1
    <3> QED
      BY <1>2, <3>1
  <2>2. ASSUME P, Len(es) = Len(fs) PROVE es = fs
    BY <1>2, <1>3, <2>2
  <2>3. PICK c \in Nat, d \in Nat : c = Len(es) /\ d = Len(fs)
    BY <1>2
  <2>4. c < d <=> c <= d /\ c # d
    OBVIOUS
  <2> QED
    BY <1>3, <2>1, <2>2, <2>3, <2>4 DEF ProperPrefix
<1> HIDE DEF P, Q
<1>8. /\ es = fs => compare_with(k, l) = "Identical" /\ compare_with(l, k) = "Identical"
      /\ es # fs /\ P => compare_with(k, l) = "LocalBehind" /\ compare_with(l, k) = "LocalAhead"
      /\ es # fs /\ Q => compare_with(k, l) = "LocalAhead" /\ compare_with(l, k) = "LocalBehind"
      /\ ~P /\ ~Q => compare_with(k, l) = "Diverged" /\ compare_with(l, k) = "Diverged"
  <2>1. CASE es = fs
    BY <1>1, <1>5, <2>1 DEF compare_with, P, Q
  <2>2. CASE es # fs /\ P
    BY <1>1, <1>6, <2>2 DEF compare_with, P, Q
  <2>3. CASE es # fs /\ Q
    BY <1>1, <1>6, <2>3 DEF compare_with, P, Q
  <2>4. CASE ~P /\ ~Q
    BY <1>1, <1>5, <2>4 DEF compare_with, P, Q
  <2> QED
    BY <1>5, <1>6, <2>1, <2>2, <2>3, <2>4
<1>9. /\ Mirror["Identical"] = "Identical" /\ Mirror["LocalBehind"] = "LocalAhead"
      /\ Mirror["LocalAhead"] = "LocalBehind" /\ Mirror["Diverged"] = "Diverged"
  BY DEF Mirror
<1> QED
  BY <1>1, <1>5, <1>6, <1>7, <1>8, <1>9

(* If encodings tell entries apart, equal roots mean identical logs, so    *)
(* that both ways of comparing agree, and so do both sides.                *)
THEOREM VerdictTheorem == ASSUME EncodingInjective PROVE LogSpec => []VerdictsAgree
<1>1. ASSUME LogInv, NEW s \in Holders, NEW t \in Holders
      PROVE  LET verdict == compare_with(logs[s], logs[t])
             IN  /\ verdict = "Identical" <=> MerkleRoot(logs[s]) = MerkleRoot(logs[t])
                 /\ verdict = "LocalBehind" <=> ProperPrefix(logs[s].entries, logs[t].entries)
                 /\ compare_with(logs[t], logs[s]) = Mirror[verdict]
  <2>1. PICK k, l : k = logs[s] /\ l = logs[t]
    OBVIOUS
  <2>2. Sound(k) /\ Sound(l)
    BY <1>1, <2>1 DEF LogInv
  <2>3. k.entries \in Seq(Entries) /\ l.entries \in Seq(Entries)
    BY <2>2 DEF Sound
  <2>4. MerkleRoot(k) = CanonicalRoot(k.entries) /\ MerkleRoot(l) = CanonicalRoot(l.entries)
    BY <2>2, RootOfLog
  <2>5. MerkleRoot(k) = MerkleRoot(l) <=> k.entries = l.entries
    BY <2>3, <2>4, RootCommits
  <2> QED
    BY <2>1, <2>3, <2>5, Verdicts
<1>2. LogInv => VerdictsAgree
  BY <1>1 DEF VerdictsAgree
<1> QED
  BY <1>2, LogInvariant, PTL

=============================================================================
