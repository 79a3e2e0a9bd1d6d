-------------------------- MODULE TransportProofs ---------------------------
(* Proofs about InboxScan and ChunkTransport, the two ways a payload       *)
(* reaches its recipient, for pages, payloads, lifetimes and bounds of any *)
(* size and any number of items and inboxes.                               *)
EXTENDS InboxScan, ChunkTransport, FiniteSetTheorems, TLAPS

-----------------------------------------------------------------------------
(* InboxScan: paging loses and repeats nothing.                            *)

(* A set of naturals has a smallest element.                               *)
LEMMA SmallestExists ==
    ASSUME NEW S \in SUBSET Nat, S # {}
    PROVE  \E n \in S : \A m \in S : n <= m
<1> DEFINE R == OpToRel(<, Nat)
<1>1. PICK n \in S : \A m \in S : ~(<<m, n>> \in R)
  <2>1. IsWellFoundedOn(R, Nat)
    BY NatLessThanWellFounded
  <2> HIDE DEF R
  <2> QED
    BY <2>1, WFMin
<1>2. R = {p \in Nat \X Nat : p[1] < p[2]}
  BY DEF OpToRel
<1>3. ASSUME NEW m \in S PROVE n <= m
  <2> HIDE DEF R
  <2>1. m \in Nat /\ n \in Nat /\ <<m, n>> \in Nat \X Nat
    OBVIOUS
  <2>2. ~(m < n)
    BY <1>1, <1>2, <2>1
  <2> QED
    BY <2>1, <2>2
<1> QED
  BY <1>3

(* A bounded one has a largest, counting down from the bound.              *)
LEMMA LargestExists ==
    ASSUME NEW k \in Nat, NEW S \in SUBSET (0 .. k), S # {}
    PROVE  \E n \in S : \A m \in S : m <= n
<1> DEFINE T == {k - m : m \in S}
<1>1. T \in SUBSET Nat /\ T # {}
  <2>1. \A m \in S : k - m \in Nat
    OBVIOUS
  <2> QED
    BY <2>1
<1>2. PICK d \in T : \A e \in T : d <= e
  BY <1>1, SmallestExists
<1>3. PICK n \in S : d = k - n
  BY <1>2
<1>4. ASSUME NEW m \in S PROVE m <= n
  <2>1. k - m \in T
    OBVIOUS
  <2> QED
    BY <1>2, <1>3, <2>1
<1> QED
  BY <1>4

(* The rows of a page and their bytes are finite sets.                     *)
LEMMA RowsFinite ==
    ASSUME ScanTypeOK, NEW S \in SUBSET Rows
    PROVE  /\ IsFiniteSet(S) /\ Cardinality(S) \in Nat
           /\ IsFiniteSet(S \X (1 .. MaxItemBytes))
<1>1. IsFiniteSet(1 .. Len(items)) /\ DOMAIN items = 1 .. Len(items)
  <2>1. Len(items) \in Nat /\ DOMAIN items = 1 .. Len(items)
    BY DEF ScanTypeOK
  <2> QED
    BY <2>1, FS_Interval
<1>2. IsFiniteSet(S)
  BY <1>1, FS_Subset DEF Rows
<1>3. IsFiniteSet(1 .. MaxItemBytes)
  BY ScanAssumption, FS_Interval
<1> QED
  BY <1>2, <1>3, FS_Product, FS_CardinalityType

(* A page is a prefix of the rows: the loop stops at the first one too     *)
(* many.                                                                   *)
LEMMA PagePrefix ==
    ASSUME ScanTypeOK, NEW n \in Page, NEW m \in Rows, m <= n
    PROVE  m \in Page
<1> DEFINE Bytes(k) == {p \in UpTo(k) \X (1 .. MaxItemBytes) : p[2] <= items[p[1]].bytes}
<1>1. UpTo(m) \subseteq UpTo(n) /\ UpTo(n) \subseteq Rows
  BY DEF UpTo, Page, Rows, ScanTypeOK
<1>2. IsFiniteSet(UpTo(n)) /\ IsFiniteSet(UpTo(n) \X (1 .. MaxItemBytes))
  BY <1>1, RowsFinite
<1>3. IsFiniteSet(Bytes(n)) /\ Bytes(m) \subseteq Bytes(n)
  BY <1>1, <1>2, FS_Subset
<1>4. /\ Cardinality(UpTo(m)) <= Cardinality(UpTo(n))
      /\ Cardinality(UpTo(m)) \in Nat /\ Cardinality(UpTo(n)) \in Nat
  BY <1>1, <1>2, FS_Subset, FS_CardinalityType
<1>5. /\ Cardinality(Bytes(m)) <= Cardinality(Bytes(n))
      /\ Cardinality(Bytes(m)) \in Nat /\ Cardinality(Bytes(n)) \in Nat
  BY <1>3, FS_Subset, FS_CardinalityType
<1>6. Cardinality(UpTo(n)) <= Limit /\ BytesUpTo(n) <= PageBytes
  BY DEF Page
<1>7. BytesUpTo(n) = Cardinality(Bytes(n)) /\ BytesUpTo(m) = Cardinality(Bytes(m))
  BY DEF BytesUpTo
<1> QED
  BY <1>4, <1>5, <1>6, <1>7, ScanAssumption DEF Page

(* The first row always fits, since no item exceeds the page: a page is    *)
(* empty only if nothing is left.                                          *)
LEMMA PageNonEmpty ==
    ASSUME ScanTypeOK, Rows # {}
    PROVE  Page # {}
<1>1. Rows \in SUBSET Nat
  BY DEF Rows, ScanTypeOK
<1>2. PICK n \in Rows : \A m \in Rows : n <= m
  BY <1>1, SmallestExists
<1>3. UpTo(n) = {n}
  <2>1. \A m \in Rows : m <= n <=> m = n
    BY <1>1, <1>2
  <2> QED
    BY <1>2, <2>1 DEF UpTo
<1>4. Cardinality(UpTo(n)) <= Limit
  BY <1>3, FS_Singleton, ScanAssumption
<1>5. BytesUpTo(n) <= PageBytes
  <2> DEFINE Square == {n} \X (1 .. MaxItemBytes)
             Bytes == {p \in Square : p[2] <= items[p[1]].bytes}
  <2>1. IsFiniteSet({n}) /\ Cardinality({n}) = 1
    BY FS_Singleton
  <2>2. IsFiniteSet(1 .. MaxItemBytes) /\ Cardinality(1 .. MaxItemBytes) = MaxItemBytes
    BY FS_Interval, ScanAssumption
  <2>3. IsFiniteSet(Square) /\ Cardinality(Square) = MaxItemBytes
    <3>1. /\ IsFiniteSet(Square)
          /\ Cardinality(Square) = Cardinality({n}) * Cardinality(1 .. MaxItemBytes)
      BY <2>1, <2>2, FS_Product
    <3> QED
      BY <2>1, <2>2, <3>1, ScanAssumption
  <2>4. Cardinality(Bytes) <= Cardinality(Square) /\ Cardinality(Bytes) \in Nat
    BY <2>3, FS_Subset, FS_CardinalityType
  <2>5. BytesUpTo(n) = Cardinality(Bytes)
    BY <1>3 DEF BytesUpTo
  <2> QED
    BY <2>3, <2>4, <2>5, ScanAssumption
<1> QED
  BY <1>2, <1>4, <1>5 DEF Page

-----------------------------------------------------------------------------
(* The inductive invariant.                                                *)

Pos == IF cursor = NoCursor THEN 0 ELSE cursor

(* A running scan has exactly collected what lies behind its cursor, as    *)
(* far as it had not expired when the handler last read the clock; the     *)
(* handlers' clock only moves on.                                          *)
ScanInvariant ==
    /\ ScanTypeOK
    /\ now <= clock /\ began <= clock
    /\ pc \in {"exists", "select"} => began <= now
    /\ stored <= Len(items)
    /\ Collected \subseteq DOMAIN items
    /\ \A n \in Collected : items[n].expires_at > began
    /\ pc \notin Resting =>
          /\ Pos <= Len(items)
          /\ \A n \in Collected : n <= Pos
          /\ \A n \in DOMAIN items :
                n <= Pos /\ items[n].expires_at > now => n \in Collected
    /\ ScanComplete

(* One more page.                                                          *)
LEMMA OneMorePage ==
    ASSUME NEW s \in Seq(SUBSET Nat), NEW page, NEW t, t = Append(s, page)
    PROVE  UNION {t[k] : k \in DOMAIN t} = (UNION {s[k] : k \in DOMAIN s}) \cup page
<1>1. /\ Len(s) \in Nat /\ DOMAIN s = 1 .. Len(s) /\ DOMAIN t = 1 .. (Len(s) + 1)
      /\ t[Len(s) + 1] = page /\ \A k \in 1 .. Len(s) : t[k] = s[k]
  OBVIOUS
<1>2. 1 .. (Len(s) + 1) = (1 .. Len(s)) \cup {Len(s) + 1}
  BY <1>1
<1>3. {t[k] : k \in DOMAIN t} = {s[k] : k \in DOMAIN s} \cup {page}
  BY <1>1, <1>2
<1>4. \A A : UNION (A \cup {page}) = (UNION A) \cup page
  BY Zenon
<1> QED
  BY <1>3, <1>4

(* SelectPage adds the page to what is collected.                          *)
LEMMA PageCollected ==
    ASSUME ScanTypeOK, SelectPage
    PROVE  got' \in Seq(SUBSET Nat) /\ Collected' = Collected \cup Page
<1>1. PICK s \in Seq(SUBSET Nat), page \in SUBSET Nat, t \in Seq(SUBSET Nat) :
         s = got /\ page = Page /\ t = Append(s, page)
  <2>1. got \in Seq(SUBSET Nat) /\ Page \in SUBSET Nat
    BY DEF Page, Rows, ScanTypeOK
  <2>2. Append(got, Page) \in Seq(SUBSET Nat)
    BY <2>1
  <2> QED
    BY <2>1, <2>2
<1>2. got' = t
  BY <1>1 DEF SelectPage
<1>3. UNION {t[k] : k \in DOMAIN t} = (UNION {s[k] : k \in DOMAIN s}) \cup page
  BY <1>1, OneMorePage
<1>4. Collected' = UNION {t[k] : k \in DOMAIN t}
  BY <1>2, Zenon DEF Collected
<1>5. Collected = UNION {s[k] : k \in DOMAIN s}
  BY <1>1, Zenon DEF Collected
<1> QED
  BY <1>1, <1>2, <1>3, <1>4, <1>5

(* Reading a page: every row up to the new cursor is collected, and if     *)
(* there is no new cursor, every row.                                      *)
LEMMA SelectPageInvariant == ScanInvariant /\ SelectPage => ScanInvariant'
<1> SUFFICES ASSUME ScanInvariant, SelectPage PROVE ScanInvariant'
  OBVIOUS
<1> USE DEF Resting
<1>1. /\ ScanTypeOK /\ pc = "select" /\ NoCursor \notin Nat
      /\ DOMAIN items = 1 .. Len(items) /\ Len(items) \in Nat /\ Pos \in Nat
      /\ \A n \in DOMAIN items : items[n].expires_at \in Nat
      /\ now \in Nat /\ began \in Nat /\ clock \in Nat
      /\ got' = Append(got, Page) /\ cursor' = NextCursor
      /\ pc' = IF NextCursor = NoCursor THEN "done" ELSE "request"
      /\ UNCHANGED <<clock, known, items, now, stored, began>>
  <2>1. \A n \in DOMAIN items : items[n] \in ItemSet
    BY DEF ScanInvariant, ScanTypeOK
  <2> QED
    BY <2>1, ScanAssumption DEF ScanInvariant, SelectPage, ScanTypeOK, Pos, server, ItemSet
<1>2. /\ Page \subseteq Rows
      /\ Rows = {n \in DOMAIN items : items[n].expires_at > now /\ n > Pos}
  BY DEF Page, Rows, Pos
<1>3. ASSUME Page # {}, Page # Rows
      PROVE  NextCursor \in Page /\ \A n \in Page : n <= NextCursor
  <2>1. Page \in SUBSET (0 .. Len(items))
    BY <1>1, <1>2
  <2>2. \E n \in Page : \A m \in Page : m <= n
    BY <1>1, <1>3, <2>1, LargestExists
  <2> QED
    BY <1>3, <2>2 DEF NextCursor
<1>4. IF NextCursor = NoCursor THEN Page = Rows ELSE Page # {} /\ Page # Rows
  <2>1. CASE Page = Rows \/ Page = {}
    BY <1>1, <2>1, PageNonEmpty DEF NextCursor
  <2>2. CASE Page # Rows /\ Page # {}
    BY <1>1, <1>2, <1>3, <2>2
  <2> QED
    BY <2>1, <2>2
<1>5. got' \in Seq(SUBSET Nat) /\ Collected' = Collected \cup Page
  BY PageCollected DEF ScanInvariant
<1>6. Collected' \subseteq DOMAIN items /\ \A n \in Collected' : items[n].expires_at > began
  BY <1>1, <1>2, <1>5 DEF ScanInvariant
<1>7. /\ \A n \in Collected : n <= Pos /\ n \in Nat
      /\ \A n \in DOMAIN items : n <= Pos /\ items[n].expires_at > now => n \in Collected
  BY <1>1 DEF ScanInvariant, ScanTypeOK
<1>8. CASE NextCursor = NoCursor
  <2>1. \A n \in DOMAIN items : items[n].expires_at > now => n \in Collected'
    BY <1>1, <1>2, <1>4, <1>5, <1>7, <1>8
  <2>2. ScanComplete'
    BY <1>1, <2>1 DEF ScanComplete, ScanInvariant, ScanTypeOK
  <2> QED
    BY <1>1, <1>5, <1>6, <1>8, <2>2 DEF ScanInvariant, ScanTypeOK
<1>9. CASE NextCursor # NoCursor
  <2>1. Pos' = NextCursor /\ NextCursor \in Nat /\ NextCursor <= Len(items) /\ Pos < NextCursor
    BY <1>1, <1>2, <1>3, <1>4, <1>9 DEF Pos
  <2>2. \A n \in Collected' : n <= NextCursor
    BY <1>1, <1>2, <1>3, <1>4, <1>5, <1>7, <1>9, <2>1
  <2>3. ASSUME NEW n \in DOMAIN items, n <= NextCursor, items[n].expires_at > now
        PROVE  n \in Collected'
    <3>1. CASE n <= Pos
      BY <1>1, <1>5, <1>7, <2>3, <3>1
    <3>2. CASE ~(n <= Pos)
      <4>1. n \in Rows
        BY <1>1, <1>2, <2>3, <3>2
      <4> QED
        BY <1>1, <1>3, <1>4, <1>5, <1>9, <2>3, <4>1, PagePrefix
    <3> QED
      BY <3>1, <3>2
  <2> QED
    BY <1>1, <1>5, <1>6, <1>9, <2>1, <2>2, <2>3 DEF ScanInvariant, ScanTypeOK, ScanComplete
<1> QED
  BY <1>8, <1>9

(* Nothing is collected before the first scan.                             *)
LEMMA InvariantInit == ScanInit => ScanInvariant
<1> SUFFICES ASSUME ScanInit PROVE ScanInvariant
  OBVIOUS
<1>1. ScanTypeOK /\ Collected = {}
  <2>1. items \in Seq(ItemSet) /\ got \in Seq(SUBSET Nat) /\ DOMAIN got = {}
    BY DEF ScanInit
  <2> QED
    BY <2>1 DEF ScanInit, ScanTypeOK, Resting, Collected
<1>2. ScanComplete /\ Len(items) = 0
  BY DEF ScanInit, ScanComplete
<1> QED
  BY <1>1, <1>2 DEF ScanInit, ScanInvariant, Resting

(* Every action of the bridge and of the client preserves the invariant.   *)
LEMMA InvariantNext == ScanInvariant /\ [ScanNext]_scanVars => ScanInvariant'
<1> SUFFICES ASSUME ScanInvariant, [ScanNext]_scanVars PROVE ScanInvariant'
  OBVIOUS
<1> USE DEF Resting
<1>0. /\ ScanTypeOK /\ DOMAIN items = 1 .. Len(items) /\ Len(items) \in Nat
      /\ \A n \in DOMAIN items : items[n] \in ItemSet
  BY DEF ScanInvariant, ScanTypeOK
<1>1. /\ got' = got => Collected' = Collected
      /\ got' = <<>> => got' \in Seq(SUBSET Nat) /\ Collected' = {}
  <2>1. DOMAIN <<>> = {} /\ <<>> \in Seq(SUBSET Nat)
    OBVIOUS
  <2> QED
    BY <2>1, Zenon DEF Collected
<1>2. CASE StoreKey
  BY <1>1, <1>2 DEF StoreKey, ScanInvariant, ScanTypeOK, ScanComplete, Pos
<1>3. CASE StoreItem
  <2>1. PICK ttl \in Ttls, bytes \in Sizes :
          items' = Append(items, [expires_at |-> clock + ttl, bytes |-> bytes])
    BY <1>3 DEF StoreItem
  <2>2. [expires_at |-> clock + ttl, bytes |-> bytes] \in ItemSet
    BY <1>0, ScanAssumption DEF ScanTypeOK, ItemSet
  <2>3. /\ items' \in Seq(ItemSet) /\ Len(items') = Len(items) + 1
        /\ DOMAIN items' = 1 .. Len(items) + 1
        /\ \A n \in DOMAIN items : items'[n] = items[n]
    BY <1>0, <2>1, <2>2 DEF ScanTypeOK
  <2>4. UNCHANGED <<clock, known, pc, cursor, now, got, stored, began>>
    BY <1>3 DEF StoreItem
  <2>5. ScanComplete'
    BY <1>0, <1>1, <2>3, <2>4 DEF ScanInvariant, ScanComplete, ScanTypeOK
  <2>6. Pos' = Pos /\ Pos \in Nat
    BY <1>0, <2>4 DEF Pos, ScanTypeOK
  <2>7. ScanTypeOK'
    BY <1>0, <2>3, <2>4 DEF ScanTypeOK
  <2> QED
    BY <1>0, <1>1, <2>3, <2>4, <2>5, <2>6, <2>7 DEF ScanInvariant, ScanTypeOK
<1>4. CASE Tick
  BY <1>1, <1>4 DEF Tick, ScanInvariant, ScanTypeOK, ScanComplete, Pos
<1>5. CASE StartScan
  BY <1>1, <1>0, <1>5 DEF StartScan, ScanInvariant, ScanTypeOK, ScanComplete, Pos
<1>6. CASE GetInbox
  <2>1. \A n \in DOMAIN items : items[n].expires_at \in Nat
    BY <1>0 DEF ItemSet
  <2> QED
    BY <1>0, <1>1, <1>6, <2>1 DEF GetInbox, server, ScanInvariant, ScanTypeOK, ScanComplete, Pos
<1>7. CASE CheckKey
  BY <1>1, <1>0, <1>7 DEF CheckKey, Abandon, server, ScanInvariant, ScanTypeOK, ScanComplete, Pos
<1>8. CASE SelectPage
  BY <1>8, SelectPageInvariant
<1>9. CASE Fail
  BY <1>1, <1>0, <1>9 DEF Fail, Abandon, server, ScanInvariant, ScanTypeOK, ScanComplete, Pos
<1>10. CASE UNCHANGED scanVars
  BY <1>1, <1>10 DEF scanVars, ScanInvariant, ScanTypeOK, ScanComplete, Pos
<1> QED
  BY <1>2, <1>3, <1>4, <1>5, <1>6, <1>7, <1>8, <1>9, <1>10 DEF ScanNext, ScanStep

(* For pages of any size, a finished scan of scan_inbox holds every item   *)
(* that was stored when it started and had not expired when its last page  *)
(* was read, however many are added and expire meanwhile.                  *)
THEOREM ScanCompleteTheorem == ScanSpec => []ScanComplete
<1>1. ScanInvariant => ScanComplete
  BY DEF ScanInvariant
<1> QED
  BY <1>1, InvariantInit, InvariantNext, PTL DEF ScanSpec

-----------------------------------------------------------------------------
(* The refinement.                                                         *)

(* The deposits of the mailbox are as many as the rows.                    *)
LEMMA Deposits ==
    ASSUME ScanTypeOK
    PROVE  Len([n \in DOMAIN items |-> items[n].expires_at]) = Len(items)
<1>1. DOMAIN items = 1 .. Len(items) /\ Len(items) \in Nat
  BY DEF ScanTypeOK
<1> QED
  BY <1>1

(* Each step of bridge and client is a step of the mailbox or invisible.   *)
LEMMA StepRefines == ScanInvariant /\ ScanInvariant' /\ [ScanNext]_scanVars => [M!Next]_(M!vars)
<1> SUFFICES ASSUME ScanInvariant, ScanInvariant', [ScanNext]_scanVars PROVE [M!Next]_(M!vars)
  OBVIOUS
<1> USE DEF Resting
<1> DEFINE exp == [n \in DOMAIN items |-> items[n].expires_at]
<1>0. /\ ScanTypeOK /\ DOMAIN items = 1 .. Len(items) /\ Len(items) \in Nat
      /\ Len(exp) = Len(items)
  BY Deposits DEF ScanInvariant, ScanTypeOK
<1>1. CASE StoreKey
  BY <1>1 DEF StoreKey, M!vars
<1>2. CASE StoreItem
  <2>1. PICK ttl \in Ttls, bytes \in Sizes :
          items' = Append(items, [expires_at |-> clock + ttl, bytes |-> bytes])
    BY <1>2 DEF StoreItem
  <2>2. /\ DOMAIN items' = 1 .. Len(items) + 1
        /\ \A n \in DOMAIN items : items'[n] = items[n]
        /\ items'[Len(items) + 1].expires_at > clock
    BY <1>0, <2>1, ScanAssumption DEF ScanTypeOK
  <2>3. M!Deposit
    BY <1>0, <1>2, <2>2 DEF StoreItem, M!Deposit
  <2> QED
    BY <2>3 DEF M!Next
<1>3. CASE Tick
  BY <1>3 DEF Tick, ScanTypeOK, ScanInvariant, M!Next, M!Age
<1>4. CASE StartScan
  BY <1>0, <1>4 DEF StartScan, M!Next, M!Open
<1>5. CASE GetInbox
  BY <1>5 DEF GetInbox, server, M!vars
<1>6. CASE CheckKey
  BY <1>6 DEF CheckKey, Abandon, server, M!vars, M!Next, M!GiveUp
<1>7. CASE SelectPage
  <2>0. Collected' = Collected \cup Page
    BY <1>0, <1>7, PageCollected
  <2>1. Page \subseteq DOMAIN items /\ \A n \in Page : items[n].expires_at > began
    BY <1>7, <2>0 DEF SelectPage, ScanInvariant, server
  <2>2. \A n \in Page : \A m \in Collected : m < n
    BY <1>7 DEF SelectPage, Page, Rows, ScanInvariant, Pos, ScanTypeOK
  <2>3. ASSUME pc' = "done", NEW n \in 1 .. stored, items[n].expires_at > clock
        PROVE  n \in Collected'
    <3>1. items' = items /\ now' = now /\ stored' = stored
      BY <1>7 DEF SelectPage, server
    <3>2. items[n] \in ItemSet /\ now <= clock /\ now \in Nat /\ clock \in Nat
      BY <1>0 DEF ScanInvariant, ScanTypeOK
    <3>3. items[n].expires_at > now
      BY <2>3, <3>2 DEF ItemSet
    <3> QED
      BY <2>3, <3>1, <3>3 DEF ScanInvariant, ScanComplete
  <2>4. M!HandOver
    <3>1. /\ pc = "select" /\ got' = Append(got, Page) /\ (pc' = "done" \/ pc' = "request")
          /\ UNCHANGED <<clock, items, stored, began>>
      BY <1>7 DEF SelectPage, server
    <3>2. \E more \in SUBSET DOMAIN exp :
            /\ \A n \in more : exp[n] > began /\ \A m \in Collected : m < n
            /\ got' = Append(got, more)
      <4>1. Page \in SUBSET DOMAIN exp
        BY <2>1
      <4> WITNESS Page \in SUBSET DOMAIN exp
      <4> QED
        BY <2>1, <2>2, <3>1
    <3>3. \A n \in 1 .. stored : exp[n] = items[n].expires_at
      BY <1>0 DEF ScanInvariant, ScanTypeOK
    <3>4. pc' = "done" => \A n \in 1 .. stored : exp[n] > clock => n \in Collected'
      BY <2>3, <3>3
    <3> QED
      BY <3>1, <3>2, <3>4 DEF M!HandOver, M!Handed, Collected
  <2> QED
    BY <2>4 DEF M!Next
<1>8. CASE Fail
  BY <1>8 DEF Fail, Abandon, server, M!Next, M!GiveUp
<1>9. CASE UNCHANGED scanVars
  BY <1>9 DEF scanVars, M!vars
<1> QED
  BY <1>1, <1>2, <1>3, <1>4, <1>5, <1>6, <1>7, <1>8, <1>9 DEF ScanNext, ScanStep

(* The bridge's paged inbox and scan_inbox implement a mailbox: each item  *)
(* handed over once, in order, alive when the scan started, and none left  *)
(* out by a scan that ends well.                                           *)
THEOREM MailboxTheorem == ScanSpec => RefinesMailbox
<1>1. ScanInit => M!Init
  BY DEF ScanInit, M!Init, Resting
<1> QED
  BY <1>1, InvariantInit, InvariantNext, StepRefines, PTL DEF ScanSpec, RefinesMailbox, M!Spec

-----------------------------------------------------------------------------
(* ChunkTransport: what is announced, fetched and put together.            *)

(* The list publish_to_inboxes works through leaves no inbox out.          *)
LEMMA AllListed == InboxList \in Seq(Inboxes) /\ Range(InboxList) = Inboxes
<1>1. PICK n \in Nat : n = Cardinality(Inboxes) /\ ExistsBijection(1 .. n, Inboxes)
  BY TransportAssumption, FS_CardinalityType
<1>2. InboxList \in Bijection(1 .. n, Inboxes)
  BY <1>1 DEF InboxList, ExistsBijection
<1>3. /\ InboxList \in [1 .. n -> Inboxes]
      /\ \A i \in Inboxes : \E k \in 1 .. n : InboxList[k] = i
  BY <1>2 DEF Bijection, Injection, Surjection
<1>4. InboxList \in Seq(Inboxes)
  BY <1>3
<1> QED
  BY <1>3, <1>4 DEF Range

(* What is left of a sequence after its head.                              *)
LEMMA HeadOrTail ==
    ASSUME NEW S, NEW s \in Seq(S), s # <<>>
    PROVE  /\ Head(s) \in Range(s) /\ Tail(s) \in Seq(S)
           /\ Range(s) = {Head(s)} \cup Range(Tail(s))
<1>1. /\ Len(s) \in Nat \ {0} /\ DOMAIN s = 1 .. Len(s) /\ Head(s) = s[1]
      /\ Tail(s) \in Seq(S) /\ DOMAIN Tail(s) = 1 .. (Len(s) - 1)
      /\ \A k \in 1 .. (Len(s) - 1) : Tail(s)[k] = s[k + 1]
  OBVIOUS
<1>2. ASSUME NEW k \in DOMAIN s PROVE s[k] \in {Head(s)} \cup Range(Tail(s))
  <2>1. CASE k = 1
    BY <1>1, <2>1
  <2>2. CASE k # 1
    <3>1. k - 1 \in 1 .. (Len(s) - 1) /\ Tail(s)[k - 1] = s[k]
      BY <1>1, <2>2
    <3> QED
      BY <1>1, <3>1 DEF Range
  <2> QED
    BY <2>1, <2>2
<1>3. ASSUME NEW k \in DOMAIN Tail(s) PROVE Tail(s)[k] \in Range(s)
  <2>1. k + 1 \in DOMAIN s /\ Tail(s)[k] = s[k + 1]
    BY <1>1
  <2> QED
    BY <2>1 DEF Range
<1>4. Head(s) \in Range(s)
  BY <1>1 DEF Range
<1>5. Range(s) \subseteq {Head(s)} \cup Range(Tail(s))
  BY <1>2 DEF Range
<1>6. Range(Tail(s)) \subseteq Range(s)
  BY <1>3 DEF Range
<1> QED
  BY <1>1, <1>4, <1>5, <1>6

(* The elements of a longer sequence.                                      *)
LEMMA Appended ==
    ASSUME NEW S, NEW s \in Seq(S), NEW e
    PROVE  Range(Append(s, e)) = Range(s) \cup {e}
<1>1. /\ Len(s) \in Nat /\ DOMAIN s = 1 .. Len(s)
      /\ DOMAIN Append(s, e) = 1 .. (Len(s) + 1)
      /\ Append(s, e)[Len(s) + 1] = e
      /\ \A k \in 1 .. Len(s) : Append(s, e)[k] = s[k]
  OBVIOUS
<1>2. 1 .. (Len(s) + 1) = (1 .. Len(s)) \cup {Len(s) + 1}
  BY <1>1
<1> QED
  BY <1>1, <1>2 DEF Range

-----------------------------------------------------------------------------
(* Reassembly.                                                             *)

(* The manifest of a payload lists its chunks in order.                    *)
LEMMA ManifestListsChunks ==
    ASSUME NEW p \in Payloads
    PROVE  \E c :
             /\ ManifestOf(p) = [chunks |-> c, total_len |-> Len(p)]
             /\ DOMAIN c = DOMAIN p /\ Len(c) = Len(p)
             /\ \A n \in DOMAIN p : c[n].index = n /\ c[n].hash = p[n]
<1>1. Len(p) \in Nat /\ DOMAIN p = 1 .. Len(p)
  BY TransportAssumption
<1> DEFINE c == [n \in DOMAIN p |-> [index |-> n, hash |-> chunk_data(p)[n].hash]]
<1>2. \A n \in DOMAIN p : c[n].index = n /\ c[n].hash = p[n]
  BY DEF chunk_data, Hash
<1>3. DOMAIN c = DOMAIN p
  OBVIOUS
<1>4. ManifestOf(p) = [chunks |-> c, total_len |-> Len(p)]
  BY DEF ManifestOf
<1> HIDE DEF c
<1>5. Len(c) = Len(p)
  BY <1>1, <1>3
<1> QED
  BY <1>2, <1>3, <1>4, <1>5

(* validate_manifest refuses exactly the payloads with two equal chunks.   *)
LEMMA ValidIsInjective ==
    ASSUME NEW p \in Payloads
    PROVE  validate_manifest(ManifestOf(p)) <=> IsInjective(p)
<1>1. PICK c : /\ ManifestOf(p) = [chunks |-> c, total_len |-> Len(p)]
               /\ DOMAIN c = DOMAIN p /\ Len(c) = Len(p)
               /\ \A n \in DOMAIN p : c[n].index = n /\ c[n].hash = p[n]
  BY ManifestListsChunks
<1>2. c = <<>> => Len(p) = 0
  BY <1>1
<1>3. validate_manifest(ManifestOf(p)) <=>
          \A i, j \in DOMAIN c : i # j => c[i].index # c[j].index /\ c[i].hash # c[j].hash
  BY <1>1, <1>2 DEF validate_manifest
<1> QED
  BY <1>1, <1>3 DEF IsInjective

(* Whatever the store holds, what is put together is the payload.          *)
LEMMA WholeOrNothing ==
    ASSUME NEW p \in Payloads, NEW s
    PROVE  /\ Reassembled(ManifestOf(p), s) \in {p, None}
           /\ ChunkRecords(ManifestOf(p)) \subseteq s
                => Reassembled(ManifestOf(p), s) = IF IsInjective(p) THEN p ELSE None
<1>1. PICK c : /\ ManifestOf(p) = [chunks |-> c, total_len |-> Len(p)]
               /\ DOMAIN c = DOMAIN p /\ Len(c) = Len(p)
               /\ \A n \in DOMAIN p : c[n].index = n /\ c[n].hash = p[n]
  BY ManifestListsChunks
<1> DEFINE Whole == IsInjective(p) /\ \A n \in DOMAIN c : Found(s, c[n]) # {}
           Chunk(n) == CHOOSE d \in Range(c) : d.index = n
           joined == [n \in DOMAIN c |-> (CHOOSE r \in Found(s, Chunk(n)) : TRUE).value]
<1>2. Reassembled(ManifestOf(p), s) = IF Whole THEN joined ELSE None
  BY <1>1, ValidIsInjective DEF Reassembled
<1>3. p = [n \in DOMAIN p |-> p[n]]
  BY TransportAssumption
<1>4. ASSUME NEW n \in DOMAIN p PROVE Chunk(n) = c[n]
  <2>1. c[n] \in Range(c) /\ c[n].index = n
    BY <1>1 DEF Range
  <2>2. \A d \in Range(c) : d.index = n => d = c[n]
    BY <1>1 DEF Range
  <2> QED
    BY <2>1, <2>2
<1> HIDE DEF Chunk
<1>5. ASSUME Whole PROVE joined = p
  <2>1. ASSUME NEW n \in DOMAIN p PROVE joined[n] = p[n]
    <3>1. Found(s, Chunk(n)) # {}
      BY <1>1, <1>4, <1>5
    <3>2. \A r \in Found(s, Chunk(n)) : r.value = p[n]
      BY <1>1, <1>4 DEF Found, Hash
    <3> QED
      BY <1>1, <3>1, <3>2
  <2>2. joined = [n \in DOMAIN p |-> joined[n]]
    BY <1>1
  <2> HIDE DEF joined
  <2> QED
    BY <1>3, <2>1, <2>2
<1>6. ASSUME ChunkRecords(ManifestOf(p)) \subseteq s PROVE Whole <=> IsInjective(p)
  <2>1. ASSUME NEW n \in DOMAIN c PROVE Found(s, c[n]) # {}
    <3>1. Hashes(ManifestOf(p)) = {c[k].hash : k \in DOMAIN c}
      BY <1>1 DEF Hashes
    <3>2. c[n].hash = p[n] /\ [key |-> p[n], value |-> p[n]] \in s
      BY <1>1, <1>6, <3>1 DEF ChunkRecords
    <3> QED
      BY <3>2 DEF Found, Hash
  <2> QED
    BY <2>1
<1> HIDE DEF Whole, joined
<1> QED
  BY <1>2, <1>5, <1>6

-----------------------------------------------------------------------------
(* The inductive invariant.  What waits to be fetched was announced on a   *)
(* topic that is subscribed, and a fetch has such a message at hand.  Of   *)
(* the inboxes of a publication those no longer waiting have their         *)
(* announcement.                                                           *)
Wanted == {g \in gossip : g.inbox \in subscribed}

ReceiveInv ==
    /\ gossip \subseteq [inbox: Inboxes, payload: Payloads]
    /\ heard \in Seq(Wanted \cup {None})
    /\ recovered \in Seq(Wanted)
    /\ phase = "fetching" => heard # <<>> /\ Head(heard) # None

SendInv ==
    /\ sending # None =>
          /\ sending \in [payload: Payloads, left: Seq(Inboxes), attempts: Nat]
          /\ \A i \in Inboxes \ Range(sending.left) :
                [inbox |-> i, payload |-> sending.payload] \in gossip
    /\ AckedIsAnnounced

(* A fetch is for a payload that was published.                            *)
LEMMA AtHand ==
    ASSUME ReceiveInv, heard # <<>>, Head(heard) # None
    PROVE  Head(heard) \in Wanted /\ Head(heard).payload \in Payloads
<1>1. Head(heard) \in Wanted \cup {None}
  BY DEF ReceiveInv
<1> QED
  BY <1>1 DEF ReceiveInv, Wanted

(* Before anything is sent the invariant holds.                            *)
LEMMA TransportInit == Init => ReceiveInv /\ SendInv
BY DEF Init, ReceiveInv, SendInv, AckedIsAnnounced, Wanted

(* What the sender does keeps the receiver's part: gossip only grows.      *)
LEMMA GossipGrows ==
    ASSUME ReceiveInv, gossip' \in SUBSET [inbox: Inboxes, payload: Payloads],
           gossip \subseteq gossip', UNCHANGED receiver
    PROVE  ReceiveInv'
<1>1. Wanted \subseteq Wanted'
  BY DEF Wanted, receiver, session
<1>2. /\ heard' = heard /\ recovered' = recovered /\ phase' = phase
  BY DEF receiver
<1>3. heard \in Seq(Wanted' \cup {None}) /\ recovered \in Seq(Wanted')
  BY <1>1 DEF ReceiveInv
<1> QED
  BY <1>2, <1>3 DEF ReceiveInv

(* Each step of the sender keeps its part.                                 *)
LEMMA SenderNext ==
    ASSUME SendInv, ReceiveInv, Next, ~ UNCHANGED sender
    PROVE  SendInv' /\ ReceiveInv'
<1>1. ASSUME NEW p \in Payloads, StartPublish(p, InboxList) PROVE SendInv' /\ ReceiveInv'
  <2>1. InboxList \in Seq(Inboxes) /\ Range(InboxList) = Inboxes
    BY AllListed
  <2>2. SendInv'
    BY <1>1, <2>1 DEF StartPublish, SendInv, AckedIsAnnounced
  <2>3. ReceiveInv'
    BY <1>1, GossipGrows DEF StartPublish, ReceiveInv
  <2> QED
    BY <2>2, <2>3
<1>2. CASE PublishManifest
  <2>1. PICK s : s = sending
    OBVIOUS
  <2>2. /\ s \in [payload: Payloads, left: Seq(Inboxes), attempts: Nat] /\ s.left # <<>>
        /\ \A i \in Inboxes \ Range(s.left) : [inbox |-> i, payload |-> s.payload] \in gossip
    BY <1>2, <2>1 DEF PublishManifest, SendInv
  <2>3. /\ Head(s.left) \in Inboxes /\ Tail(s.left) \in Seq(Inboxes)
        /\ Range(s.left) = {Head(s.left)} \cup Range(Tail(s.left))
    BY <2>2, HeadOrTail
  <2>4. sending' = [payload |-> s.payload, left |-> Tail(s.left), attempts |-> 0]
    BY <1>2, <2>1, <2>2 DEF PublishManifest, NextInbox
  <2>5. gossip' = gossip \cup {[inbox |-> Head(s.left), payload |-> s.payload]} /\ acked' = acked
    BY <1>2, <2>1 DEF PublishManifest
  <2>6. SendInv'
    BY <2>2, <2>3, <2>4, <2>5 DEF SendInv, AckedIsAnnounced
  <2>7. ReceiveInv'
    <3>1. gossip' \in SUBSET [inbox: Inboxes, payload: Payloads] /\ gossip \subseteq gossip'
      BY <2>2, <2>3, <2>5 DEF ReceiveInv
    <3> QED
      BY <1>2, <3>1, GossipGrows DEF PublishManifest
  <2> QED
    BY <2>6, <2>7
<1>3. CASE NoSubscribers
  <2>1. PICK s : s = sending
    OBVIOUS
  <2>2. /\ s \in [payload: Payloads, left: Seq(Inboxes), attempts: Nat] /\ s.left # <<>>
        /\ \A i \in Inboxes \ Range(s.left) : [inbox |-> i, payload |-> s.payload] \in gossip
    BY <1>3, <2>1 DEF NoSubscribers, SendInv
  <2>3. sending' \in {[payload |-> s.payload, left |-> s.left, attempts |-> s.attempts + 1], None}
    BY <1>3, <2>1, <2>2 DEF NoSubscribers
  <2>4. SendInv'
    BY <1>3, <2>2, <2>3 DEF NoSubscribers, SendInv, AckedIsAnnounced, network
  <2>5. ReceiveInv'
    BY <1>3, GossipGrows DEF NoSubscribers, ReceiveInv, network
  <2> QED
    BY <2>4, <2>5
<1>4. CASE PublishFails
  <2>1. SendInv'
    BY <1>4 DEF PublishFails, SendInv, AckedIsAnnounced, network
  <2>2. ReceiveInv'
    BY <1>4, GossipGrows DEF PublishFails, ReceiveInv, network
  <2> QED
    BY <2>1, <2>2
<1>5. CASE PublishDone
  <2>1. Range(<<>>) = {}
    BY DEF Range
  <2>2. SendInv'
    BY <1>5, <2>1 DEF PublishDone, SendInv, AckedIsAnnounced, network
  <2>3. ReceiveInv'
    BY <1>5, GossipGrows DEF PublishDone, ReceiveInv, network
  <2> QED
    BY <2>2, <2>3
<1> QED
  BY <1>1, <1>2, <1>3, <1>4, <1>5
     DEF Next, Sender, Announced, Receiver, Answered, Replicate, Expire, Listen, HearMessage,
         StopListening, SkipMessage, StartFetch, FoundRecord, FinishedWithNoRecord, QueryFailed,
         FetchTimesOut, Reassemble, Return

(* The sender's part speaks of nothing the others change.                  *)
LEMMA SenderIdle ==
    ASSUME SendInv, UNCHANGED <<sender, gossip>>
    PROVE  SendInv'
BY DEF SendInv, AckedIsAnnounced, sender

(* Nothing but the sender's steps changes what was announced.              *)
LEMMA OthersQuiet ==
    ASSUME Next, UNCHANGED sender, ReceiveInv, SendInv
    PROVE  gossip' = gossip
<1>1. ASSUME PublishManifest PROVE FALSE
  <2>1. PICK s : s = sending
    OBVIOUS
  <2>2. /\ s.left \in Seq(Inboxes) /\ s.left # <<>>
        /\ s \in [payload: Payloads, left: Seq(Inboxes), attempts: Nat]
    BY <1>1, <2>1 DEF PublishManifest, SendInv
  <2>3. Tail(s.left) = s.left
    BY <1>1, <2>1, <2>2 DEF PublishManifest, NextInbox, sender
  <2> QED
    BY <2>2, <2>3
<1> QED
  BY <1>1
     DEF Next, Sender, Announced, Receiver, Answered, Replicate, Expire, Listen, HearMessage,
         StopListening, SkipMessage, StartFetch, FoundRecord, FinishedWithNoRecord, QueryFailed,
         FetchTimesOut, Reassemble, Return, StartPublish, NoSubscribers, PublishFails, PublishDone,
         network

(* Each step of the receiver keeps its part.                               *)
LEMMA ReceiverNext ==
    ASSUME ReceiveInv, Next, gossip' = gossip
    PROVE  ReceiveInv'
<1>1. ASSUME NEW i \in Inboxes, Listen(i) PROVE ReceiveInv'
  <2>1. Wanted \subseteq Wanted'
    BY <1>1 DEF Listen, Wanted, network
  <2>2. heard \in Seq(Wanted' \cup {None}) /\ recovered \in Seq(Wanted')
    BY <2>1 DEF ReceiveInv
  <2> QED
    BY <1>1, <2>2 DEF Listen, ReceiveInv, network
<1>2. ASSUME UNCHANGED <<subscribed, recovered>>,
             heard' = heard \/ (heard # <<>> /\ heard' = Tail(heard)), phase' # "fetching"
      PROVE  ReceiveInv'
  <2>1. Wanted' = Wanted
    BY <1>2 DEF Wanted
  <2>2. heard' \in Seq(Wanted \cup {None})
    BY <1>2, HeadOrTail DEF ReceiveInv
  <2> QED
    BY <1>2, <2>1, <2>2 DEF ReceiveInv
<1>3. CASE HearMessage
  <2>1. Wanted' = Wanted
    BY <1>3 DEF HearMessage, Wanted, session
  <2>2. heard' \in Seq(Wanted \cup {None})
    BY <1>3 DEF HearMessage, Wanted, ReceiveInv
  <2> QED
    BY <1>3, <2>1, <2>2 DEF HearMessage, ReceiveInv
<1>4. CASE StartFetch
  <2>1. Wanted' = Wanted
    BY <1>4 DEF StartFetch, Wanted, session
  <2> QED
    BY <1>4, <2>1 DEF StartFetch, ReceiveInv
<1>5. ASSUME UNCHANGED <<subscribed, heard, phase, recovered>>
      PROVE  ReceiveInv'
  <2>1. Wanted' = Wanted
    BY <1>5 DEF Wanted
  <2> QED
    BY <1>5, <2>1 DEF ReceiveInv
<1>6. CASE Reassemble
  <2>1. PICK g, p : g = Head(heard) /\ p = Reassembled(manifest, store)
    OBVIOUS
  <2>2. heard # <<>> /\ g \in Wanted /\ g.payload \in Payloads
    BY <1>6, <2>1, AtHand DEF Reassemble, ReceiveInv
  <2>3. p \in {g.payload, None}
    BY <2>1, <2>2, WholeOrNothing DEF manifest
  <2>4. g \in [inbox: Inboxes, payload: Payloads]
    BY <2>2 DEF Wanted, ReceiveInv
  <2>5. recovered' \in {recovered, Append(recovered, g)}
    <3>1. CASE p = None
      BY <1>6, <2>1, <3>1 DEF Reassemble
    <3>2. CASE p # None
      <4>1. [g EXCEPT !.payload = p] = g
        BY <2>3, <2>4, <3>2
      <4> QED
        BY <1>6, <2>1, <3>2, <4>1 DEF Reassemble
    <3> QED
      BY <3>1, <3>2
  <2>6. Wanted' = Wanted
    BY <1>6 DEF Reassemble, Wanted, session
  <2>7. recovered' \in Seq(Wanted)
    BY <2>2, <2>5 DEF ReceiveInv
  <2>8. heard' \in Seq(Wanted \cup {None}) /\ phase' = "choosing"
    BY <1>6, <2>2, HeadOrTail DEF Reassemble, NextManifest, ReceiveInv
  <2> QED
    BY <2>6, <2>7, <2>8 DEF ReceiveInv
<1>7. CASE Return
  <2>1. Wanted' = Wanted
    BY <1>7 DEF Return, Wanted
  <2> QED
    BY <1>7, <2>1 DEF Return, ReceiveInv
<1>8. CASE StopListening
  BY <1>2, <1>8 DEF StopListening, session
<1>9. CASE SkipMessage
  BY <1>2, <1>9 DEF SkipMessage, session
<1>10. CASE FetchTimesOut
  <2>1. heard # <<>>
    BY <1>10 DEF FetchTimesOut, ReceiveInv
  <2> QED
    BY <1>2, <1>10, <2>1 DEF FetchTimesOut, NextManifest, session
<1>11. CASE Answered
  BY <1>5, <1>11 DEF Answered, FoundRecord, FinishedWithNoRecord, QueryFailed, session
<1>12. CASE UNCHANGED receiver
  BY <1>5, <1>12 DEF receiver, session
<1>13. CASE Sender \/ PublishFails \/ Expire
  BY <1>12, <1>13 DEF Sender, Announced, PublishManifest, NoSubscribers, PublishDone, PublishFails,
                      Expire
<1>14. CASE \E p \in Payloads : StartPublish(p, InboxList)
  BY <1>12, <1>14 DEF StartPublish
<1>15. CASE \E p \in Known : Replicate(ManifestOf(p))
  BY <1>12, <1>15 DEF Replicate
<1> QED
  BY <1>1, <1>3, <1>4, <1>6, <1>7, <1>8, <1>9, <1>10, <1>11, <1>13, <1>14, <1>15
     DEF Next, Receiver

(* The invariant holds at all times.                                       *)
LEMMA TransportInv == Spec => [](ReceiveInv /\ SendInv)
<1>1. ReceiveInv /\ SendInv /\ Next => (ReceiveInv /\ SendInv)'
  <2>1. SUFFICES ASSUME ReceiveInv, SendInv, Next PROVE (ReceiveInv /\ SendInv)'
    OBVIOUS
  <2>2. CASE UNCHANGED sender
    BY <2>1, <2>2, OthersQuiet, SenderIdle, ReceiverNext
  <2> QED
    BY <2>1, <2>2, SenderNext
<1>2. ReceiveInv /\ SendInv /\ UNCHANGED vars => (ReceiveInv /\ SendInv)'
  <2>1. SUFFICES ASSUME ReceiveInv, SendInv, UNCHANGED vars PROVE (ReceiveInv /\ SendInv)'
    OBVIOUS
  <2>2. SendInv'
    BY <2>1, SenderIdle DEF vars, network
  <2>3. ReceiveInv'
    BY <2>1, GossipGrows DEF vars, network, ReceiveInv
  <2> QED
    BY <2>2, <2>3
<1> QED
  BY <1>1, <1>2, TransportInit, PTL DEF Spec

-----------------------------------------------------------------------------
(* recover_payloads_for_inbox returns only announced payloads, whole and   *)
(* in order, whatever the DHT and gossip lose, repeat or reorder.          *)
THEOREM RecoveredTheorem == Spec => []RecoveredWasPublished
<1>1. ReceiveInv => RecoveredWasPublished
  <2>1. SUFFICES ASSUME ReceiveInv, NEW r \in Range(recovered)
                 PROVE  r \in gossip /\ r.inbox \in subscribed
    BY DEF RecoveredWasPublished
  <2>2. PICK i \in DOMAIN recovered : r = recovered[i]
    BY DEF Range
  <2>3. recovered \in Seq(Wanted)
    BY <2>1 DEF ReceiveInv
  <2>4. r \in Wanted
    BY <2>2, <2>3
  <2> QED
    BY <2>4 DEF Wanted
<1> QED
  BY <1>1, TransportInv, PTL

(* publish_to_inboxes answers Ok only when every inbox has its manifest.   *)
THEOREM AckedTheorem == Spec => []AckedIsAnnounced
<1>1. SendInv => AckedIsAnnounced
  BY DEF SendInv
<1> QED
  BY <1>1, TransportInv, PTL

(* Once its chunks are fetched, a payload is put together, unless two of   *)
(* its chunks are equal.                                                   *)
THEOREM ReassembledTheorem == Spec => []FetchedIsReassembled
<1>1. ReceiveInv => FetchedIsReassembled
  <2>1. SUFFICES ASSUME ReceiveInv, phase = "fetching", ChunkRecords(manifest) \subseteq store
                 PROVE  Reassembled(manifest, store) = IF IsInjective(Head(heard).payload)
                                                       THEN Head(heard).payload ELSE None
    BY DEF FetchedIsReassembled
  <2>2. PICK p \in Payloads : p = Head(heard).payload
    BY <2>1, AtHand DEF ReceiveInv
  <2>3. PICK s : s = store
    OBVIOUS
  <2> QED
    BY <2>1, <2>2, <2>3, WholeOrNothing DEF manifest
<1> QED
  BY <1>1, TransportInv, PTL

-----------------------------------------------------------------------------
(* Types.                                                                  *)
SendTypes ==
    /\ sending # None => sending.attempts \in 0 .. max_retries
    /\ acked \subseteq Payloads
    /\ records \subseteq [key: Contents, value: Contents \cup {Blank}]

FetchTypes ==
    /\ inbox \in subscribed \cup {None} /\ subscribed \subseteq Inboxes
    /\ phase \in {"listening", "choosing", "fetching"}
    /\ IF phase = "fetching"
       THEN /\ pending \subseteq DOMAIN manifest.chunks
            /\ DOMAIN retries = Hashes(manifest)
            /\ store \subseteq [key: DOMAIN retries, value: Contents]
       ELSE pending = {} /\ retries = <<>> /\ store = {}
    /\ \A h \in DOMAIN retries : retries[h] \in 0 .. max_retries

(* A manifest names contents only.                                         *)
LEMMA HashesAreContents ==
    ASSUME NEW p \in Payloads
    PROVE  Hashes(ManifestOf(p)) \subseteq Contents
<1>1. PICK c : /\ ManifestOf(p) = [chunks |-> c, total_len |-> Len(p)]
               /\ DOMAIN c = DOMAIN p /\ Len(c) = Len(p)
               /\ \A n \in DOMAIN p : c[n].index = n /\ c[n].hash = p[n]
  BY ManifestListsChunks, Zenon
<1>2. Hashes(ManifestOf(p)) = {c[n].hash : n \in DOMAIN c}
  BY <1>1 DEF Hashes
<1>3. Range(p) \subseteq Contents
  BY DEF Contents
<1> QED
  BY <1>1, <1>2, <1>3 DEF Range

(* The records of a payload's chunks, stored or announced as empty.        *)
LEMMA RecordTypes ==
    ASSUME NEW p \in Payloads
    PROVE  /\ ChunkRecords(ManifestOf(p)) \subseteq [key: Contents, value: Contents \cup {Blank}]
           /\ {[key |-> h, value |-> Blank] : h \in Hashes(ManifestOf(p))}
                 \subseteq [key: Contents, value: Contents \cup {Blank}]
BY HashesAreContents DEF ChunkRecords

(* Before anything is sent.                                                *)
LEMMA TypesInit == Init => SendTypes /\ FetchTypes
<1> SUFFICES ASSUME Init PROVE SendTypes /\ FetchTypes
  OBVIOUS
<1>1. SendTypes
  BY DEF Init, SendTypes
<1>2. DOMAIN <<>> = {}
  OBVIOUS
<1> QED
  BY <1>1, <1>2 DEF Init, FetchTypes

(* Each step keeps the types of what is sent and stored: publish_to_inboxes *)
(* counts its attempts up to max_retries.                                  *)
LEMMA SendTypesNext ==
    ASSUME SendTypes, SendInv, ReceiveInv, Next
    PROVE  SendTypes'
<1>1. ASSUME NEW p \in Payloads, StartPublish(p, InboxList) PROVE SendTypes'
  <2>1. sending'.attempts = 0 /\ acked' = acked /\ max_retries \in Nat
    BY <1>1, TransportAssumption DEF StartPublish
  <2>2. records' \subseteq [key: Contents, value: Contents \cup {Blank}]
    BY <1>1, RecordTypes DEF StartPublish, SendTypes
  <2> QED
    BY <2>1, <2>2 DEF SendTypes
<1>2. CASE PublishManifest
  <2>1. sending \in [payload: Payloads, left: Seq(Inboxes), attempts: Nat]
    BY <1>2 DEF PublishManifest, SendInv
  <2>2. sending'.attempts = 0 /\ acked' = acked /\ records' = records /\ max_retries \in Nat
    BY <1>2, <2>1, TransportAssumption DEF PublishManifest, NextInbox
  <2> QED
    BY <2>2 DEF SendTypes
<1>3. CASE NoSubscribers
  <2>1. PICK a : a = sending.attempts /\ a \in 0 .. max_retries
    BY <1>3 DEF NoSubscribers, SendTypes
  <2>2. sending \in [payload: Payloads, left: Seq(Inboxes), attempts: Nat]
    BY <1>3 DEF NoSubscribers, SendInv
  <2>3. sending' = None \/ (a < max_retries /\ sending'.attempts = a + 1)
    BY <1>3, <2>1, <2>2 DEF NoSubscribers
  <2>4. a < max_retries => a + 1 \in 0 .. max_retries
    BY <2>1, TransportAssumption
  <2>5. acked' = acked /\ records' = records
    BY <1>3 DEF NoSubscribers, network
  <2> QED
    BY <2>3, <2>4, <2>5 DEF SendTypes
<1>4. CASE PublishFails
  BY <1>4 DEF PublishFails, SendTypes, network
<1>5. CASE PublishDone
  <2>1. sending.payload \in Payloads
    BY <1>5 DEF PublishDone, SendInv
  <2> QED
    BY <1>5, <2>1 DEF PublishDone, SendTypes, network
<1>6. ASSUME NEW p \in Known, Replicate(ManifestOf(p)) PROVE SendTypes'
  <2>1. p \in Payloads
    BY DEF Known, ReceiveInv
  <2>2. records' \subseteq [key: Contents, value: Contents \cup {Blank}]
    BY <1>6, <2>1, RecordTypes DEF Replicate, SendTypes
  <2> QED
    BY <1>6, <2>2 DEF Replicate, sender, SendTypes
<1>7. CASE Expire
  BY <1>7 DEF Expire, sender, SendTypes
<1>8. CASE UNCHANGED <<sender, network>>
  BY <1>8 DEF sender, network, SendTypes
<1>9. CASE Receiver \/ HearMessage \/ FetchTimesOut \/ \E i \in Inboxes : Listen(i)
  BY <1>8, <1>9 DEF Receiver, StopListening, SkipMessage, StartFetch, Answered, FoundRecord,
                    FinishedWithNoRecord, QueryFailed, Reassemble, Return, HearMessage,
                    FetchTimesOut, Listen
<1> QED
  BY <1>1, <1>2, <1>3, <1>4, <1>5, <1>6, <1>7, <1>9 DEF Next, Sender, Announced

(* Each step keeps the types of a recovery: its queries are for chunks of  *)
(* the manifest at hand, and so is what it has fetched.                    *)
LEMMA FetchTypesNext ==
    ASSUME FetchTypes, SendTypes, ReceiveInv, Next
    PROVE  FetchTypes'
<1>1. max_retries \in Nat /\ DOMAIN <<>> = {}
  BY TransportAssumption
<1>2. ASSUME UNCHANGED session, phase' \in {"listening", "choosing"},
             pending' = {} /\ retries' = <<>> /\ store' = {}
      PROVE  FetchTypes'
  BY <1>1, <1>2 DEF FetchTypes, session
<1>3. CASE UNCHANGED receiver
  BY <1>3 DEF receiver, session, query, FetchTypes, manifest
<1>4. ASSUME NEW i \in Inboxes, Listen(i) PROVE FetchTypes'
  <2>1. phase = "listening" /\ phase' = phase /\ UNCHANGED query
    BY <1>4 DEF Listen
  <2> QED
    BY <1>4, <2>1 DEF Listen, FetchTypes, query
<1>5. CASE HearMessage
  <2>1. phase = "listening" /\ phase' = phase /\ UNCHANGED <<session, query>>
    BY <1>5 DEF HearMessage
  <2> QED
    BY <1>2, <2>1 DEF FetchTypes, query
<1>6. CASE StopListening
  <2>1. phase = "listening" /\ phase' = "choosing" /\ UNCHANGED <<session, query>>
    BY <1>6 DEF StopListening
  <2> QED
    BY <1>2, <2>1 DEF FetchTypes, query
<1>7. CASE SkipMessage
  <2>1. phase = "choosing" /\ phase' = phase /\ UNCHANGED <<session, query>>
    BY <1>7 DEF SkipMessage
  <2> QED
    BY <1>2, <2>1 DEF FetchTypes, query
<1>8. CASE StartFetch
  <2>1. UNCHANGED session /\ heard' = heard /\ phase' = "fetching" /\ store' = {}
    BY <1>8 DEF StartFetch
  <2>2. manifest' = manifest
    BY <2>1 DEF manifest
  <2>3. pending' = DOMAIN manifest.chunks /\ retries' = [h \in Hashes(manifest) |-> 0]
    BY <1>8 DEF StartFetch
  <2> HIDE DEF manifest
  <2> QED
    BY <1>1, <2>1, <2>2, <2>3 DEF FetchTypes, session
<1>9. ASSUME phase = "fetching", phase' = phase, heard' = heard, UNCHANGED session,
             pending' \subseteq pending, DOMAIN retries' = DOMAIN retries,
             \A h \in DOMAIN retries : retries'[h] \in 0 .. max_retries,
             store' \subseteq [key: DOMAIN retries, value: Contents]
      PROVE  FetchTypes'
  <2>1. manifest' = manifest
    BY <1>9 DEF manifest
  <2> QED
    BY <1>9, <2>1 DEF FetchTypes, session
<1>10. CASE FoundRecord
  <2>1. PICK r \in records, n \in DOMAIN manifest.chunks :
              /\ r.key = manifest.chunks[n].hash /\ store' = store \cup Verified(r)
              /\ pending' = pending \ {n}
    BY <1>10 DEF FoundRecord
  <2>2. r.key \in DOMAIN retries
    BY <1>10, <2>1 DEF FoundRecord, FetchTypes, Hashes
  <2>3. r \in [key: Contents, value: Contents \cup {Blank}]
    BY DEF SendTypes
  <2>4. Verified(r) \subseteq [key: DOMAIN retries, value: Contents]
    BY <2>2, <2>3 DEF Verified, Hash
  <2>5. store' \subseteq [key: DOMAIN retries, value: Contents]
    BY <1>10, <2>1, <2>4 DEF FoundRecord, FetchTypes
  <2> QED
    BY <1>9, <1>10, <2>1, <2>5 DEF FoundRecord, FetchTypes
<1>11. CASE FinishedWithNoRecord
  <2>1. /\ phase = "fetching" /\ phase' = phase /\ heard' = heard /\ UNCHANGED session
        /\ store' \subseteq [key: DOMAIN retries, value: Contents]
    BY <1>11 DEF FinishedWithNoRecord, FetchTypes
  <2>2. /\ pending' \subseteq pending /\ DOMAIN retries' = DOMAIN retries
        /\ \A h \in DOMAIN retries : retries'[h] \in 0 .. max_retries
    <3>1. PICK h : \/ /\ retries[h] < max_retries /\ pending' = pending
                      /\ retries' = [retries EXCEPT ![h] = retries[h] + 1]
                   \/ pending' \subseteq pending /\ retries' = retries
      BY <1>11 DEF FinishedWithNoRecord
    <3>2. \A k \in DOMAIN retries : retries[k] \in 0 .. max_retries
      BY DEF FetchTypes
    <3> QED
      BY <1>1, <3>1, <3>2
  <2> QED
    BY <1>9, <2>1, <2>2
<1>12. CASE QueryFailed
  <2>1. /\ phase = "fetching" /\ phase' = phase /\ heard' = heard /\ UNCHANGED session
        /\ pending' \subseteq pending /\ retries' = retries /\ store' = store
    BY <1>12 DEF QueryFailed
  <2> QED
    BY <1>9, <2>1 DEF FetchTypes
<1>13. CASE FetchTimesOut
  BY <1>2, <1>13 DEF FetchTimesOut, NextManifest
<1>14. CASE Reassemble
  BY <1>2, <1>14 DEF Reassemble, NextManifest
<1>15. CASE Return
  <2>1. phase = "choosing" /\ phase' = "listening" /\ inbox' = None /\ UNCHANGED <<subscribed, query>>
    BY <1>15 DEF Return
  <2> QED
    BY <1>1, <2>1 DEF FetchTypes, query
<1>16. CASE Sender \/ PublishFails \/ Expire
  BY <1>3, <1>16 DEF Sender, Announced, PublishManifest, NoSubscribers, PublishDone, PublishFails,
                     Expire
<1>17. CASE \E p \in Payloads : StartPublish(p, InboxList)
  BY <1>3, <1>17 DEF StartPublish
<1>18. CASE \E p \in Known : Replicate(ManifestOf(p))
  BY <1>3, <1>18 DEF Replicate
<1> QED
  BY <1>4, <1>5, <1>6, <1>7, <1>8, <1>10, <1>11, <1>12, <1>13, <1>14, <1>15, <1>16, <1>17, <1>18
     DEF Next, Receiver, Answered

(* Types of ChunkTransport: the queries of fetch_manifest_chunks are for   *)
(* chunks of the manifest at hand and are tried again at most max_retries  *)
(* times each, and what was fetched is a content of it (TypeOK).           *)
THEOREM TransportTypes == Spec => []TypeOK
<1>1. ReceiveInv /\ SendInv /\ SendTypes /\ FetchTypes => TypeOK
  <2> SUFFICES ASSUME ReceiveInv, SendInv, SendTypes, FetchTypes PROVE TypeOK
    OBVIOUS
  <2>1. sending = None \/ /\ sending.payload \in Payloads
                          /\ Range(sending.left) \subseteq Inboxes
                          /\ sending.attempts \in 0 .. max_retries
    <3>1. CASE sending # None
      <4>1. sending.payload \in Payloads /\ sending.left \in Seq(Inboxes)
        BY <3>1 DEF SendInv
      <4> QED
        BY <3>1, <4>1 DEF SendTypes, Range
    <3> QED
      BY <3>1
  <2>2. Range(heard) \subseteq gossip \cup {None}
    <3>1. heard \in Seq(Wanted \cup {None})
      BY DEF ReceiveInv
    <3> QED
      BY <3>1 DEF Range, Wanted
  <2>3. /\ pending # {} => pending \subseteq DOMAIN manifest.chunks
        /\ store \subseteq records \cup [key: DOMAIN retries, value: Contents]
    BY DEF FetchTypes
  <2> QED
    BY <2>1, <2>2, <2>3 DEF TypeOK, ReceiveInv, SendTypes, FetchTypes
<1>2. SendTypes /\ FetchTypes /\ UNCHANGED vars => (SendTypes /\ FetchTypes)'
  BY DEF vars, sender, network, receiver, session, query, SendTypes, FetchTypes, manifest
<1> QED
  BY <1>1, <1>2, TransportInv, TypesInit, SendTypesNext, FetchTypesNext, PTL DEF Spec

=============================================================================
