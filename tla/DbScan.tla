------------------------------- MODULE DbScan -------------------------------
(***************************************************************************)
(* The table scan of the synchronous handle: db_get_next_row_sync of       *)
(* src/src/db_api_sync.c returns one row key for each call.  It asks the   *)
(* server for a page of keys with SSCAN, returns the first and keeps the   *)
(* others in a ring of DB_SYNC_MAX_SCAN_COUNT entries for the next calls.  *)
(* Between two calls the rows of the table come and go.                    *)
(*                                                                         *)
(* A call is one step: while it waits for SSCAN, a read that exec_sync_cmd *)
(* may send twice, nothing but the last answer counts.                     *)
(***************************************************************************)
EXTENDS Integers, Sequences, FiniteSets, SequencesExt

CONSTANTS
  Keys,         (* row keys                                                *)
  NoKey,        (* an entry of the ring that holds no key                  *)
  Buckets,      (* server: number of buckets of the set's hash table       *)
  BucketOf,     (* server: the bucket of each key                          *)
  Probe,        (* server: buckets that one SSCAN visits without finding a *)
                (* key before it answers with an empty page                *)
  RingSize,     (* DB_SYNC_MAX_SCAN_COUNT                                  *)
  MaxFailures   (* bound: SSCANs that fail or are refused                  *)

ASSUME KeysAssumption == IsFiniteSet(Keys) /\ NoKey \notin Keys
ASSUME SizesAssumption ==
  /\ Buckets \in Nat \ {0} /\ Probe \in Nat \ {0} /\ RingSize \in Nat \ {0}
  /\ MaxFailures \in Nat
ASSUME BucketsAssumption == BucketOf \in [Keys -> 0..(Buckets - 1)]

(* No page has more than RingSize keys.  One with RingSize + 1 would pass  *)
(* the assertions of the code, fill the ring, and be taken for empty; the  *)
(* server packs at most 512 keys in one bucket of a small set, and the     *)
(* ring has 1024 entries.                                                  *)
ASSUME PagesFit ==
  \A b \in 0..(Buckets - 1) : Cardinality({k \in Keys : BucketOf[k] = b}) <= RingSize

VARIABLES
  status,     (* "open", or "aborted" by a failed VNF_ASSERT               *)
  scanning,   (* scan_in_progress                                          *)
  cursor,     (* scan_cursor                                               *)
  pi, ci,     (* scan_replies_pi, scan_replies_ci                          *)
  ring,       (* scan_reply_keys                                           *)
  index,      (* server: the keys of the table                             *)
  failures,   (* number of failed SSCANs                                   *)
  result,     (* history: what the last call returned                      *)
  delivered,  (* history: the keys returned by this scan                   *)
  stable,     (* history: the keys that were there all through this scan   *)
  owed,       (* history: the keys of the last page not yet returned       *)
  spoilt      (* history: the first SSCAN of this scan failed              *)

handleVars == <<status, scanning, cursor, pi, ci, ring>>
vars == <<handleVars, index, failures, result, delivered, stable, owed, spoilt>>

Slots == 0..(RingSize - 1)
EmptyRing == [i \in 0..RingSize |-> NoKey]

(* The variables keep their types: the indices stay inside the ring.       *)
TypeOK ==
  /\ status \in {"open", "aborted"} /\ scanning \in BOOLEAN
  /\ cursor \in 0..(Buckets - 1)
  /\ pi \in Slots /\ ci \in Slots /\ ring \in [0..RingSize -> Keys \cup {NoKey}]
  /\ index \subseteq Keys /\ failures \in 0..MaxFailures
  /\ result \in {"none", "row", "end", "error"}
  /\ delivered \subseteq Keys /\ stable \subseteq Keys /\ owed \in Seq(Keys)
  /\ spoilt \in BOOLEAN

(* A handle fresh from db_open_sync, on a table in any state.              *)
Init ==
  /\ status = "open" /\ scanning = FALSE /\ cursor = 0
  /\ pi = 0 /\ ci = 0 /\ ring = EmptyRing
  /\ index \in SUBSET Keys /\ failures = 0 /\ result = "none"
  /\ delivered = {} /\ stable = {} /\ owed = << >> /\ spoilt = FALSE

-----------------------------------------------------------------------------
(* SSCAN cursor COUNT 1, on a set that Redis keeps in a hash table (it     *)
(* does so for ever once the set has been large).  A set that has become   *)
(* empty is no key any more and is answered with cursor 0.                 *)

(* The server walks from bucket from to bucket b and ends there: b is the *)
(* first one with a key, or the last one that it is willing to look at.    *)
Visits(from, b) ==
  /\ b \in from..(Buckets - 1) /\ b < from + Probe
  /\ \A k \in index : BucketOf[k] \notin from..(b - 1)
  /\ b \in {from + Probe - 1, Buckets - 1} \/ \E k \in index : BucketOf[k] = b

PageAt(b) == {k \in index : BucketOf[k] = b}

CursorAfter(b) == IF index = {} \/ b = Buckets - 1 THEN 0 ELSE b + 1

-----------------------------------------------------------------------------
(* The ring of keys.                                                       *)

(* Mutant: the index wraps one entry late.                                 *)
Slot_Late(i, n) == IF i + n > RingSize THEN i + n - RingSize ELSE i + n

(* The slot n entries behind slot i.                                       *)
Slot(i, n) == IF i + n >= RingSize THEN i + n - RingSize ELSE i + n

Advance(i) == Slot(i, 1)

(* How many entries slot j is behind slot i.                               *)
Distance(i, j) == IF j >= i THEN j - i ELSE j - i + RingSize

(* The ring r after the keys q have been stored from slot i on.            *)
Filled(r, i, q) ==
  [j \in DOMAIN r |-> IF j \in Slots /\ Distance(i, j) < Len(q)
                       THEN q[Distance(i, j) + 1] ELSE r[j]]

(* Mutant: the loop starts with the key that is returned at once.          *)
Queued_All(page) == page

(* The keys of a page that wait in the ring.                               *)
Queued(page) == Tail(page)

(* The ring and its index when SSCAN is sent: free_scan_replies empties    *)
(* the ring at the start of a scan.                                        *)
RingKept == IF scanning THEN ring ELSE EmptyRing
PiKept == IF scanning THEN pi ELSE 0

(* Mutant: the end is looked for before the ring is drained.               *)
AtEnd_RingForgotten == scanning /\ cursor = 0

AtEnd == scanning /\ pi = ci /\ cursor = 0

-----------------------------------------------------------------------------
(* db_get_next_row_sync.                                                   *)

(* There is an entry from the previous SSCAN: it is asserted to be a key.  *)
NextFromRing ==
  /\ status = "open" /\ scanning /\ pi # ci
  /\ IF ring[ci] = NoKey
       THEN status' = "aborted" /\ result' = "none" /\ UNCHANGED <<ci, ring, delivered, owed>>
       ELSE /\ ring' = [ring EXCEPT ![ci] = NoKey]
            /\ ci' = Advance(ci)
            /\ result' = "row" /\ delivered' = delivered \cup {ring[ci]}
            /\ owed' = Tail(owed) /\ UNCHANGED status
  /\ UNCHANGED <<scanning, cursor, pi, index, failures, stable, spoilt>>

(* Mutant: scan_in_progress stays up.                                      *)
EndOfScan_KeepsFlag ==
  /\ status = "open" /\ AtEnd
  /\ result' = "end"
  /\ UNCHANGED <<handleVars, index, failures, delivered, stable, owed, spoilt>>

(* The ring is empty and the last page was the last one: the call returns  *)
(* no key, and the next one starts a new scan.                             *)
EndOfScan ==
  /\ status = "open" /\ AtEnd
  /\ scanning' = FALSE /\ result' = "end"
  /\ UNCHANGED <<status, cursor, pi, ci, ring, index, failures, delivered,
                 stable, owed, spoilt>>

(* What an SSCAN finds when it is sent: the scan in progress, or a new one *)
(* with an empty ring and cursor 0.                                        *)
MustAsk == status = "open" /\ (scanning => pi = ci /\ cursor # 0)

Started ==
  /\ stable' = IF scanning THEN stable ELSE index
  /\ IF scanning THEN UNCHANGED ci ELSE ci' = 0

Page(order) ==
  /\ ring' = Filled(RingKept, PiKept, Queued(order))
  /\ pi' = Slot(PiKept, Len(Queued(order)))
  /\ result' = "row" /\ owed' = Tail(order)
  /\ delivered' = (IF scanning THEN delivered ELSE {}) \cup {Head(order)}

NoPage ==
  /\ ring' = RingKept /\ pi' = PiKept
  /\ owed' = << >> /\ delivered' = (IF scanning THEN delivered ELSE {})

(* The server answers SSCAN with the keys of bucket b.  An empty page with *)
(* cursor 0 is the end; the code asserts that any other page has a key.    *)
Answered(b) ==
  /\ cursor' = CursorAfter(b)
  /\ spoilt' = (scanning /\ spoilt)
  /\ \/ /\ PageAt(b) # {} /\ scanning' = TRUE
        /\ \E order \in SetToSeqs(PageAt(b)) : Page(order)
        /\ UNCHANGED status
     \/ /\ PageAt(b) = {} /\ cursor' = 0
        /\ scanning' = FALSE /\ result' = "end" /\ NoPage
        /\ UNCHANGED status
     \/ /\ PageAt(b) = {} /\ cursor' # 0
        /\ status' = "aborted" /\ NoPage
        /\ scanning' = TRUE /\ result' = "none"

ScanAnswered ==
  /\ MustAsk /\ Started
  /\ \E b \in 0..(Buckets - 1) :
       Visits(IF scanning THEN cursor ELSE 0, b) /\ Answered(b)
  /\ UNCHANGED <<index, failures>>

(* Both attempts at the SSCAN are lost, or no connection can be made: the  *)
(* call returns DB_ERROR with scan_in_progress raised, also when the scan  *)
(* has not got its first page; scan_cursor is then still 0.                *)
ScanFails ==
  /\ MustAsk /\ Started
  /\ failures < MaxFailures /\ failures' = failures + 1
  /\ scanning' = TRUE /\ result' = "error"
  /\ spoilt' = (~scanning \/ spoilt)
  /\ NoPage
  /\ UNCHANGED <<status, cursor, index>>

(* The server refuses the SSCAN: the code asserts that a failed command    *)
(* has no reply, but exec_sync_cmd has stored the error reply.  The same   *)
(* becomes of one that is answered +QUEUED because a write of the handle   *)
(* left its MULTI open: it asserts that the reply has elements.            *)
ScanRefused ==
  /\ MustAsk /\ Started
  /\ failures < MaxFailures /\ failures' = failures + 1
  /\ status' = "aborted" /\ scanning' = TRUE /\ result' = "none"
  /\ NoPage
  /\ UNCHANGED <<cursor, index, spoilt>>

(* Rows come and go; the handle may also write and delete rows itself in   *)
(* the middle of its scan.                                                 *)
RowAdded ==
  /\ \E k \in Keys \ index : index' = index \cup {k}
  /\ UNCHANGED <<handleVars, failures, result, delivered, stable, owed, spoilt>>

RowRemoved ==
  /\ \E k \in index : index' = index \ {k} /\ stable' = stable \ {k}
  /\ UNCHANGED <<handleVars, failures, result, delivered, owed, spoilt>>

(* db_close_sync and db_open_sync: only this ends a scan early.            *)
Reopened ==
  /\ status = "open" /\ scanning
  /\ scanning' = FALSE /\ cursor' = 0 /\ pi' = 0 /\ ci' = 0 /\ ring' = EmptyRing
  /\ result' = "none" /\ delivered' = {} /\ stable' = {} /\ owed' = << >> /\ spoilt' = FALSE
  /\ UNCHANGED <<status, index, failures>>

NextRow == NextFromRing \/ EndOfScan \/ ScanAnswered \/ ScanFails \/ ScanRefused

Next == NextRow \/ RowAdded \/ RowRemoved \/ Reopened

Spec == Init /\ [][Next]_vars

(* The application goes on calling until it is told that there are no more *)
(* rows, as testsync.c does.                                               *)
FairSpec == Spec /\ WF_vars(NextRow)

-----------------------------------------------------------------------------
(* What should hold.                                                       *)

(* When the end of the table is reported, every row that was there during  *)
(* the whole scan has been returned, whatever was added and removed, and   *)
(* whichever later SSCANs failed and were repeated by the next call.  Only *)
(* a scan whose very first SSCAN failed reports the end at once.           *)
ScanComplete == result = "end" /\ ~spoilt => stable \subseteq delivered

(* The ring holds exactly the keys of the last page that have not been     *)
(* returned, in their order: a page that fills the ring would make it look *)
(* empty, and what is in front of the index pi would never be read.        *)
RingMatchesOwed ==
  status = "open" =>
    /\ Len(owed) = Distance(ci, pi)
    /\ \A n \in DOMAIN owed : ring[Slot(ci, n - 1)] = owed[n]

(* Every scan comes to its end, although rows are added and removed all    *)
(* the time.                                                               *)
ScanEnds == scanning ~> ~scanning \/ status = "aborted"

=============================================================================
