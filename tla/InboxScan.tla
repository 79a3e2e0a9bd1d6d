----------------------------- MODULE InboxScan ------------------------------
(***************************************************************************)
(* Reading an inbox page by page.  BridgeClient::scan_inbox (spex-transport *)
(* inbox.rs) asks the bridge for pages until one carries no next_cursor;   *)
(* get_inbox (spex-bridge lib.rs) answers each from the inbox tables, to   *)
(* which PUT handlers append and from which time removes expired items.    *)
(*                                                                         *)
(* The module follows one inbox key and one client.  An item's id is its   *)
(* position: the AUTOINCREMENT ids of inbox_items grow in commit order and *)
(* rows are never deleted.                                                 *)
(***************************************************************************)
EXTENDS Integers, FiniteSets, Sequences

CONSTANTS
    Limit,          \* normalize_inbox_limit(query.limit)
    PageBytes,      \* normalize_inbox_max_bytes(query.max_bytes, ...)
    MaxItemBytes,   \* MAX_INBOX_ITEM_BYTES
    Sizes,          \* sizes of items
    Ttls,           \* lifetimes items are stored with
    NoCursor        \* an absent cursor

CONSTANTS MaxTime, MaxItems     \* bounds of the model

(* scan_inbox sends no max_bytes, so a page takes RateLimitConfig's        *)
(* max_bytes, which is four times the largest item.                        *)
ASSUME ScanAssumption ==
    /\ Limit \in Nat \ {0}
    /\ MaxItemBytes \in Nat /\ PageBytes \in Nat /\ MaxItemBytes <= PageBytes
    /\ Sizes \subseteq 0 .. MaxItemBytes /\ Ttls \subseteq Nat \ {0}
    /\ NoCursor \notin Nat
    /\ MaxTime \in Nat /\ MaxItems \in Nat

VARIABLES
    clock,      \* the bridge's clock
    known,      \* the inbox has its row in inbox_keys
    items,      \* its rows in inbox_items
    pc,         \* what the client, or the handler it waits for, does next
    cursor,     \* the cursor of the request
    now,        \* the handler's now
    got,        \* the pages collected so far, each the set of its ids
    stored,     \* how many items were stored when the scan started
    began       \* when it started

scanVars == <<clock, known, items, pc, cursor, now, got, stored, began>>

server == <<clock, known, items>>

ItemSet == [expires_at: Nat, bytes: Sizes]

ScanInit ==
    /\ clock = 0 /\ known = FALSE /\ items = <<>>
    /\ pc = "idle" /\ cursor = NoCursor /\ now = 0 /\ got = <<>>
    /\ stored = 0 /\ began = 0

-----------------------------------------------------------------------------
(* The rest of the bridge: store_inbox_item in two statements, and time.   *)

StoreKey ==
    /\ known' = TRUE
    /\ UNCHANGED <<clock, items, pc, cursor, now, got, stored, began>>

StoreItem ==
    /\ known /\ Len(items) < MaxItems
    /\ \E ttl \in Ttls : \E bytes \in Sizes :
          items' = Append(items, [expires_at |-> clock + ttl, bytes |-> bytes])
    /\ UNCHANGED <<clock, known, pc, cursor, now, got, stored, began>>

Tick ==
    /\ clock < MaxTime
    /\ clock' = clock + 1
    /\ UNCHANGED <<known, items, pc, cursor, now, got, stored, began>>

-----------------------------------------------------------------------------
(* One page: load_inbox_items.                                             *)

(* Variants of a name each hold one mistake the properties must detect.    *)
Rows_CursorIncluded ==
    {n \in DOMAIN items :
        /\ items[n].expires_at > now
        /\ n >= (IF cursor = NoCursor THEN 0 ELSE cursor)}

(* The rows of the SELECT: not expired and after the cursor.               *)
Rows ==
    {n \in DOMAIN items :
        /\ items[n].expires_at > now
        /\ n > (IF cursor = NoCursor THEN 0 ELSE cursor)}

UpTo(n) == {m \in Rows : m <= n}

(* total_bytes once row n is added to the page.                            *)
BytesUpTo(n) ==
    Cardinality({p \in UpTo(n) \X (1 .. MaxItemBytes) : p[2] <= items[p[1]].bytes})

(* The loop takes rows in order of id and stops at the first one that      *)
(* exceeds the page size or the byte limit.                                *)
Page == {n \in Rows : Cardinality(UpTo(n)) <= Limit /\ BytesUpTo(n) <= PageBytes}

NextCursor_FirstLeftOver ==
    IF Page = Rows \/ Page = {} THEN NoCursor
    ELSE CHOOSE n \in Rows \ Page : \A m \in Rows \ Page : n <= m

(* next_cursor: the last id of the page when a row is left over.           *)
NextCursor ==
    IF Page = Rows \/ Page = {} THEN NoCursor
    ELSE CHOOSE n \in Page : \A m \in Page : m <= n

-----------------------------------------------------------------------------
(* The client and its requests.                                            *)

Resting == {"idle", "done", "failed"}

StartScan ==
    /\ pc \in Resting
    /\ pc' = "request" /\ cursor' = NoCursor /\ got' = <<>>
    /\ stored' = Len(items) /\ began' = clock
    /\ UNCHANGED <<clock, known, items, now>>

(* get_inbox reads the clock before it queries.                            *)
GetInbox ==
    /\ pc = "request"
    /\ now' = clock
    /\ pc' = "exists"
    /\ UNCHANGED <<server, cursor, got, stored, began>>

(* An error ends the scan; what was collected is dropped.                  *)
Abandon == pc' = "failed" /\ cursor' = NoCursor /\ got' = <<>>

CheckKey_AsksAgain ==
    /\ pc = "exists"
    /\ pc' = IF known THEN "select" ELSE "request"
    /\ UNCHANGED <<server, cursor, now, got, stored, began>>

(* Without a row in inbox_keys the answer is 404, an error for the client. *)
CheckKey ==
    /\ pc = "exists"
    /\ \/ known /\ pc' = "select" /\ UNCHANGED <<cursor, got>>
       \/ ~known /\ Abandon
    /\ UNCHANGED <<server, now, stored, began>>

(* The page is read in one statement and collected by the client.          *)
SelectPage ==
    /\ pc = "select"
    /\ got' = Append(got, Page)
    /\ cursor' = NextCursor
    /\ pc' = IF NextCursor = NoCursor THEN "done" ELSE "request"
    /\ UNCHANGED <<server, now, stored, began>>

(* A request fails on the way.                                             *)
Fail ==
    /\ pc \notin Resting
    /\ Abandon
    /\ UNCHANGED <<server, now, stored, began>>

ScanStep == GetInbox \/ CheckKey \/ SelectPage

ScanNext == StoreKey \/ StoreItem \/ Tick \/ StartScan \/ ScanStep \/ Fail

ScanSpec == ScanInit /\ [][ScanNext]_scanVars

(* A request that was sent is answered: the HTTP client and the handler    *)
(* wait for nothing but each other and the database.                       *)
FairScanSpec == ScanSpec /\ WF_scanVars(ScanStep)

-----------------------------------------------------------------------------
(* What a scan guarantees.                                                 *)

ScanTypeOK ==
    /\ clock \in Nat /\ known \in BOOLEAN /\ items \in Seq(ItemSet)
    /\ pc \in Resting \cup {"request", "exists", "select"}
    /\ cursor \in Nat \cup {NoCursor}
    /\ now \in Nat /\ got \in Seq(SUBSET Nat)
    /\ stored \in Nat /\ began \in Nat

Collected == UNION {got[k] : k \in DOMAIN got}

(* Paging by cursor loses nothing although items are added and expire      *)
(* between two pages: a finished scan has every item that was stored when  *)
(* it started and had not expired when its last page was read.             *)
ScanComplete ==
    pc = "done" =>
        \A n \in 1 .. stored : items[n].expires_at > now => n \in Collected

(* The mailbox a recipient sees: the page loop is one reading.             *)
M == INSTANCE Mailbox WITH
        deposits <- [n \in DOMAIN items |-> items[n].expires_at],
        reading <- IF pc \notin Resting THEN "open"
                   ELSE IF pc = "done" THEN "ended" ELSE "no",
        handed <- got,
        due <- stored

(* The pages, the cursor and the handler's clock are invisible to the      *)
(* recipient: the bridge and its client keep the promise of a mailbox.  In *)
(* particular scan_inbox returns each item once, in the order it was       *)
(* stored, and none that had expired before the scan started.              *)
RefinesMailbox == M!Spec

(* Every scan comes to an end.                                             *)
ScanEnds == (pc = "request") ~> (pc \in Resting)
=============================================================================
