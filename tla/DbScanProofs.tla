---------------------------- MODULE DbScanProofs ----------------------------
(***************************************************************************)
(* What TLAPS proves of DbScan, for every set of keys, every distribution  *)
(* over the buckets of the server, and every size of the ring that its     *)
(* pages fit in.                                                           *)
(*                                                                         *)
(* ScanComplete speaks of scans that have ended.  ScanInv follows the scan *)
(* in progress: a row that was there from the start has been returned, or  *)
(* waits in the ring, or lies in a bucket that the cursor has not passed.  *)
(***************************************************************************)
EXTENDS DbScan, SequenceTheorems, FiniteSetTheorems, TLAPS

(* The sequence q has the key k.                                           *)
Lists(q, k) == \E n \in 1..Len(q) : q[n] = k

(* The cursor has not passed the bucket of k.                              *)
Ahead(k) == cursor # 0 /\ BucketOf[k] >= cursor

(* The scan in progress has not lost a row.                                *)
NoneLost ==
  status = "open" /\ scanning /\ ~spoilt =>
    \A k \in stable : k \in delivered \/ Lists(owed, k) \/ Ahead(k)

ScanInv == stable \subseteq index /\ NoneLost /\ ScanComplete

IInv == TypeOK /\ RingMatchesOwed /\ ScanInv

-----------------------------------------------------------------------------
(* The ring.                                                               *)

(* Slots and distances are inverse to each other.                          *)
LEMMA SlotAt ==
  ASSUME NEW i \in Slots, NEW n \in 0..(RingSize - 1)
  PROVE  Slot(i, n) \in Slots /\ Distance(i, Slot(i, n)) = n
BY SizesAssumption, SMTT(30) DEF Slots, Slot, Distance

(* A slot is found at its distance, which is less than the ring's size.    *)
LEMMA DistanceTo ==
  ASSUME NEW i \in Slots, NEW j \in Slots
  PROVE  /\ Distance(i, j) \in 0..(RingSize - 1) /\ Slot(i, Distance(i, j)) = j
         /\ Distance(i, j) = 0 <=> i = j
BY SizesAssumption, SMTT(30) DEF Slots, Slot, Distance

(* From the next slot, every other slot is one entry nearer.               *)
LEMMA NextSlot ==
  ASSUME NEW i \in Slots, NEW j \in Slots, i # j
  PROVE  /\ Advance(i) \in Slots
         /\ Distance(Advance(i), j) = Distance(i, j) - 1
         /\ \A n \in 1..(RingSize - 1) :
              Slot(Advance(i), n - 1) = Slot(i, n) /\ Slot(i, n) # i
BY SizesAssumption, SMTT(30) DEF Slots, Slot, Distance, Advance

(* What a page that fits leaves in the ring, and where.                    *)
LEMMA FilledRing ==
  ASSUME NEW r \in [0..RingSize -> Keys \cup {NoKey}], NEW i \in Slots,
         NEW q \in Seq(Keys), Len(q) < RingSize
  PROVE  /\ Filled(r, i, q) \in [0..RingSize -> Keys \cup {NoKey}]
         /\ Slot(i, Len(q)) \in Slots /\ Distance(i, Slot(i, Len(q))) = Len(q)
         /\ \A n \in 1..Len(q) : Filled(r, i, q)[Slot(i, n - 1)] = q[n]
<1>1. Len(q) \in 0..(RingSize - 1)
  BY SizesAssumption
<1>2. \A j \in Slots : Distance(i, j) < Len(q) => q[Distance(i, j) + 1] \in Keys
  <2> TAKE j \in Slots
  <2> HAVE Distance(i, j) < Len(q)
  <2>1. Distance(i, j) + 1 \in 1..Len(q)
    BY DistanceTo, <1>1, SizesAssumption
  <2> QED BY <2>1
<1>3. Filled(r, i, q) \in [0..RingSize -> Keys \cup {NoKey}]
  BY <1>2 DEF Filled
<1>4. ASSUME NEW n \in 1..Len(q)
      PROVE  Filled(r, i, q)[Slot(i, n - 1)] = q[n]
  <2>1. n - 1 \in 0..(RingSize - 1) /\ n - 1 < Len(q) /\ (n - 1) + 1 = n
    BY <1>1, <1>4, SizesAssumption
  <2>2. Slot(i, n - 1) \in Slots /\ Distance(i, Slot(i, n - 1)) = n - 1
    BY <2>1, SlotAt
  <2>3. Slot(i, n - 1) \in DOMAIN r
    BY <2>2, SizesAssumption DEF Slots
  <2> QED
    BY <2>1, <2>2, <2>3 DEF Filled
<1> QED
  BY <1>1, <1>3, <1>4, SlotAt

(* A page lists each key of its bucket, and its tail fits into the ring.   *)
LEMMA PageListed ==
  ASSUME TypeOK, NEW b \in 0..(Buckets - 1), PageAt(b) # {},
         NEW order \in SetToSeqs(PageAt(b))
  PROVE  /\ order \in Seq(Keys) /\ order # << >> /\ Len(Tail(order)) < RingSize
         /\ Head(order) \in Keys /\ Tail(order) \in Seq(Keys)
         /\ \A k \in PageAt(b) : k = Head(order) \/ Lists(Tail(order), k)
<1> DEFINE S == PageAt(b)
           n == Cardinality(S)
           B == {k \in Keys : BucketOf[k] = b}
<1>1. S \subseteq B /\ B \subseteq Keys
  BY DEF PageAt, TypeOK
<1>2. IsFiniteSet(B) /\ IsFiniteSet(S)
  BY <1>1, KeysAssumption, FS_Subset
<1>3. Cardinality(S) <= Cardinality(B) /\ Cardinality(B) <= RingSize
  BY <1>1, <1>2, FS_Subset, PagesFit
<1>4. n \in Nat /\ Cardinality(B) \in Nat
  BY <1>2, FS_CardinalityType
<1>5. n <= RingSize
  BY <1>3, <1>4, SizesAssumption
<1>6. n # 0
  BY <1>2, FS_EmptySet
<1>7. order \in [1..n -> S] /\ \A i, j \in 1..n : i # j => order[i] # order[j]
  BY DEF SetToSeqs
<1>8. order \in Seq(Keys) /\ Len(order) = n
  BY <1>1, <1>4, <1>7
<1>9. order \in Injection(1..n, S)
  BY <1>7 DEF Injection, IsInjective
<1>10. Cardinality(1..n) = n /\ IsFiniteSet(1..n)
  BY <1>4, FS_Interval
<1>11. order \in Surjection(1..n, S)
  BY <1>2, <1>9, <1>10, FS_Injection
<1> HIDE DEF n, S
<1>12. order # << >> /\ Head(order) = order[1] /\ Head(order) \in Keys
  BY <1>4, <1>6, <1>8
<1>13. Tail(order) \in Seq(Keys) /\ Len(Tail(order)) = n - 1
  BY <1>4, <1>6, <1>8, <1>12
<1>14. ASSUME NEW k \in S, k # Head(order)
       PROVE  Lists(Tail(order), k)
  <2>1. PICK i \in 1..n : order[i] = k
    BY <1>11 DEF Surjection
  <2>2. i - 1 \in 1..Len(Tail(order)) /\ i # 1
    BY <1>12, <1>13, <1>14, <2>1, <1>4
  <2>3. Tail(order)[i - 1] = k
    BY <1>8, <1>12, <1>4, <2>1, <2>2
  <2> QED
    BY <2>2, <2>3, <1>13 DEF Lists
<1> QED
  BY <1>4, <1>5, <1>6, <1>8, <1>12, <1>13, <1>14, SizesAssumption DEF S

-----------------------------------------------------------------------------
(* What an SSCAN finds, and what it leaves.                                *)

(* The bucket that an SSCAN starts from.                                   *)
From == IF scanning THEN cursor ELSE 0

(* The keys that the scan in progress has returned.                        *)
Returned == IF scanning THEN delivered ELSE {}

(* An SSCAN is sent with an empty ring.                                    *)
LEMMA RingEmptyWhenAsked ==
  ASSUME IInv, MustAsk, Started
  PROVE  /\ RingKept \in [0..RingSize -> Keys \cup {NoKey}]
         /\ PiKept \in Slots /\ ci' = PiKept
         /\ stable' \subseteq index /\ Returned \subseteq Keys
         /\ scanning => owed = << >>
         /\ From \in 0..(Buckets - 1)
<1>1. EmptyRing \in [0..RingSize -> Keys \cup {NoKey}] /\ 0 \in Slots
  BY SizesAssumption DEF EmptyRing, Slots
<1>2. 0 \in 0..(Buckets - 1)
  BY SizesAssumption
<1>3. scanning => owed = << >>
  <2> HAVE scanning
  <2>1. ci \in Slots /\ pi = ci /\ owed \in Seq(Keys)
    BY DEF IInv, TypeOK, MustAsk
  <2>2. Distance(ci, pi) = 0
    BY <2>1, DistanceTo
  <2>3. Len(owed) = 0
    BY <2>2 DEF IInv, RingMatchesOwed, MustAsk
  <2> QED
    BY <2>1, <2>3
<1>4. stable' \subseteq index
  BY DEF Started, IInv, ScanInv
<1>5. Returned \subseteq Keys
  BY DEF Returned, IInv, TypeOK
<1>6. ci' = PiKept
  BY DEF Started, MustAsk, PiKept
<1> QED
  BY <1>1, <1>2, <1>3, <1>4, <1>5, <1>6 DEF RingKept, PiKept, From, IInv, TypeOK

(* An SSCAN without a page leaves the ring as it is, or as it is at the    *)
(* start of a scan.                                                        *)
LEMMA NothingStored ==
  ASSUME IInv, MustAsk, Started, NoPage
  PROVE  /\ pi' \in Slots /\ ci' \in Slots /\ ring' \in [0..RingSize -> Keys \cup {NoKey}]
         /\ owed' = << >> /\ owed' \in Seq(Keys)
         /\ delivered' = Returned /\ delivered' \subseteq Keys
         /\ RingMatchesOwed'
<1>1. pi' \in Slots /\ ci' = pi' /\ ring' \in [0..RingSize -> Keys \cup {NoKey}]
  BY RingEmptyWhenAsked DEF NoPage
<1>2. owed' = << >> /\ delivered' = Returned
  BY DEF NoPage, Returned
<1>3. Len(owed') = Distance(ci', pi')
  BY <1>1, <1>2, DistanceTo
<1>4. \A n \in DOMAIN owed' : ring'[Slot(ci', n - 1)] = owed'[n]
  BY <1>2
<1> QED
  BY <1>1, <1>2, <1>3, <1>4, RingEmptyWhenAsked DEF RingMatchesOwed

(* A page that is not empty: its first key is returned, the others fill    *)
(* the ring.                                                               *)
LEMMA PageStored ==
  ASSUME IInv, MustAsk, Started, NEW b \in 0..(Buckets - 1), PageAt(b) # {},
         NEW order \in SetToSeqs(PageAt(b)), Page(order)
  PROVE  /\ pi' \in Slots /\ ci' \in Slots /\ ring' \in [0..RingSize -> Keys \cup {NoKey}]
         /\ owed' \in Seq(Keys) /\ delivered' \subseteq Keys
         /\ \A k \in PageAt(b) : k \in delivered' \/ Lists(owed', k)
         /\ Returned \subseteq delivered'
         /\ RingMatchesOwed'
<1> DEFINE q == Tail(order)
<1>1. TypeOK
  BY DEF IInv
<1>2. /\ order \in Seq(Keys) /\ Len(q) < RingSize
      /\ Head(order) \in Keys /\ q \in Seq(Keys)
      /\ \A k \in PageAt(b) : k = Head(order) \/ Lists(q, k)
  BY <1>1, PageListed
<1>3. /\ ring' = Filled(RingKept, PiKept, q) /\ pi' = Slot(PiKept, Len(q))
      /\ owed' = q /\ delivered' = Returned \cup {Head(order)}
  BY DEF Page, Queued, Returned
<1>4. /\ RingKept \in [0..RingSize -> Keys \cup {NoKey}]
      /\ PiKept \in Slots /\ ci' = PiKept /\ Returned \subseteq Keys
  BY RingEmptyWhenAsked
<1> HIDE DEF q
<1>5. /\ ring' \in [0..RingSize -> Keys \cup {NoKey}]
      /\ pi' \in Slots /\ Distance(ci', pi') = Len(q)
      /\ \A n \in 1..Len(q) : ring'[Slot(ci', n - 1)] = q[n]
  BY <1>2, <1>3, <1>4, FilledRing
<1>6. DOMAIN owed' = 1..Len(q)
  BY <1>2, <1>3
<1>7. RingMatchesOwed'
  BY <1>3, <1>5, <1>6 DEF RingMatchesOwed
<1> QED
  BY <1>2, <1>3, <1>4, <1>5, <1>7

(* A row that has been there all the time has been returned, or is on the  *)
(* page that the server answers, or behind the cursor that it answers.     *)
LEMMA PageOrAhead ==
  ASSUME IInv, MustAsk, Started, ~(scanning /\ spoilt),
         NEW b \in 0..(Buckets - 1), Visits(From, b), NEW k \in stable'
  PROVE  \/ k \in Returned \/ k \in PageAt(b)
         \/ CursorAfter(b) # 0 /\ BucketOf[k] >= CursorAfter(b)
<1>1. k \in index /\ k \in Keys /\ BucketOf[k] \in 0..(Buckets - 1)
  BY RingEmptyWhenAsked, BucketsAssumption DEF IInv, TypeOK
<1>2. From \in 0..(Buckets - 1) /\ (scanning => owed = << >>)
  BY RingEmptyWhenAsked
<1>3. k \in Returned \/ BucketOf[k] >= From
  <2>1. CASE scanning
    <3>1. k \in stable /\ status = "open" /\ ~spoilt
      BY <2>1 DEF Started, MustAsk
    <3>2. k \in delivered \/ Lists(owed, k) \/ Ahead(k)
      BY <2>1, <3>1 DEF IInv, ScanInv, NoneLost
    <3>3. ~Lists(owed, k)
      BY <2>1, <1>2 DEF Lists
    <3> QED
      BY <2>1, <3>2, <3>3 DEF Ahead, From, Returned
  <2>2. CASE ~scanning
    BY <2>2, <1>1 DEF From
  <2> QED
    BY <2>1, <2>2
<1>4. BucketOf[k] \notin From..(b - 1)
  BY <1>1 DEF Visits
<1>5. BucketOf[k] >= From => BucketOf[k] >= b
  BY <1>1, <1>2, <1>4, SizesAssumption
<1>6. BucketOf[k] = b => k \in PageAt(b)
  BY <1>1 DEF PageAt
<1>7. BucketOf[k] > b => CursorAfter(b) = b + 1 /\ BucketOf[k] >= b + 1 /\ b + 1 # 0
  BY <1>1, SizesAssumption DEF CursorAfter
<1> QED
  BY <1>1, <1>3, <1>5, <1>6, <1>7, SizesAssumption

-----------------------------------------------------------------------------
(* Each step keeps IInv.                                                   *)

(* It holds of a fresh handle.                                             *)
LEMMA InitKeeps == Init => IInv
<1> SUFFICES ASSUME Init PROVE IInv
  OBVIOUS
<1>1. /\ EmptyRing \in [0..RingSize -> Keys \cup {NoKey}] /\ 0 \in Slots
      /\ 0 \in 0..(Buckets - 1) /\ 0 \in 0..MaxFailures /\ << >> \in Seq(Keys)
  BY SizesAssumption DEF EmptyRing, Slots
<1>2. TypeOK
  BY <1>1, SizesAssumption DEF Init, TypeOK
<1>3. RingMatchesOwed
  BY <1>1, DistanceTo DEF Init, RingMatchesOwed
<1> QED
  BY <1>2, <1>3 DEF Init, IInv, ScanInv, NoneLost, ScanComplete

(* The entry that is read is the first key owed, so it is a key, and the   *)
(* ring owes the others.                                                   *)
LEMMA NextFromRingKeeps == IInv /\ NextFromRing => IInv'
<1> SUFFICES ASSUME IInv, NextFromRing PROVE IInv'
  OBVIOUS
<1>1. /\ status = "open" /\ scanning /\ pi # ci
      /\ pi \in Slots /\ ci \in Slots /\ owed \in Seq(Keys)
      /\ ring \in [0..RingSize -> Keys \cup {NoKey}] /\ delivered \subseteq Keys
      /\ Len(owed) = Distance(ci, pi)
      /\ \A n \in DOMAIN owed : ring[Slot(ci, n - 1)] = owed[n]
  BY DEF IInv, TypeOK, NextFromRing, RingMatchesOwed
<1>2. Len(owed) \in 1..(RingSize - 1) /\ owed # << >>
  BY <1>1, DistanceTo, SizesAssumption
<1>3. Slot(ci, 0) = ci
  BY <1>1, SizesAssumption DEF Slot, Slots
<1>4. ring[ci] = owed[1] /\ owed[1] \in Keys
  <2>1. 1 \in DOMAIN owed /\ 1 - 1 = 0
    BY <1>1, <1>2
  <2> QED
    BY <1>1, <1>3, <2>1
<1>5. ring[ci] # NoKey
  BY <1>4, KeysAssumption
<1>6. /\ ring' = [ring EXCEPT ![ci] = NoKey] /\ ci' = Advance(ci)
      /\ result' = "row" /\ delivered' = delivered \cup {owed[1]}
      /\ owed' = Tail(owed) /\ status' = status
      /\ UNCHANGED <<scanning, cursor, pi, index, failures, stable, spoilt>>
  BY <1>4, <1>5 DEF NextFromRing
<1>7. /\ owed' \in Seq(Keys) /\ Len(owed') = Len(owed) - 1
      /\ \A n \in 1..Len(owed') : owed'[n] = owed[n + 1]
  BY <1>1, <1>2, <1>6
<1>8. /\ ci' \in Slots /\ Distance(ci', pi') = Distance(ci, pi) - 1
      /\ \A n \in 1..(RingSize - 1) :
           Slot(ci', n - 1) = Slot(ci, n) /\ Slot(ci, n) # ci
  BY <1>1, <1>6, NextSlot
<1>9. ring' \in [0..RingSize -> Keys \cup {NoKey}]
  BY <1>1, <1>6
<1>10. TypeOK'
  BY <1>1, <1>4, <1>6, <1>7, <1>8, <1>9 DEF IInv, TypeOK
<1>11. RingMatchesOwed'
  <2>1. Len(owed') = Distance(ci', pi')
    BY <1>1, <1>7, <1>8
  <2>2. ASSUME NEW n \in DOMAIN owed'
        PROVE  ring'[Slot(ci', n - 1)] = owed'[n]
    <3>1. n \in 1..Len(owed') /\ n \in 1..(RingSize - 1)
      BY <1>2, <1>7, SizesAssumption
    <3>2. n + 1 \in DOMAIN owed /\ (n + 1) - 1 = n
      BY <1>1, <1>7, <3>1
    <3>3. ring[Slot(ci, n)] = owed[n + 1]
      BY <1>1, <3>2
    <3>4. Slot(ci, n) \in Slots /\ Slot(ci, n) # ci
      BY <1>1, <1>8, <3>1, SlotAt
    <3>5. Slot(ci, n) \in 0..RingSize
      BY <3>4, SizesAssumption DEF Slots
    <3>6. ring'[Slot(ci, n)] = ring[Slot(ci, n)]
      BY <1>1, <1>6, <3>4, <3>5
    <3> QED
      BY <1>7, <1>8, <3>1, <3>3, <3>6
  <2> QED
    BY <2>1, <2>2 DEF RingMatchesOwed
<1>12. NoneLost'
  <2>1. ASSUME NEW k, Lists(owed, k)
        PROVE  k \in delivered' \/ Lists(owed', k)
    <3>1. PICK n \in 1..Len(owed) : owed[n] = k
      BY <2>1 DEF Lists
    <3>2. CASE n = 1
      BY <3>1, <3>2, <1>6
    <3>3. CASE n # 1
      <4>1. n - 1 \in 1..Len(owed') /\ (n - 1) + 1 = n
        BY <1>2, <1>7, <3>1, <3>3
      <4> QED
        BY <4>1, <3>1, <1>7 DEF Lists
    <3> QED
      BY <3>2, <3>3
  <2> QED
    BY <2>1, <1>6 DEF IInv, ScanInv, NoneLost, Ahead
<1>13. (stable \subseteq index)' /\ ScanComplete'
  BY <1>1, <1>6 DEF IInv, ScanInv, ScanComplete
<1> QED
  BY <1>10, <1>11, <1>12, <1>13 DEF IInv, ScanInv

(* The scan ends with nothing owed and no bucket ahead.                    *)
LEMMA EndOfScanKeeps == IInv /\ EndOfScan => IInv'
<1> SUFFICES ASSUME IInv, EndOfScan PROVE IInv'
  OBVIOUS
<1>1. /\ status = "open" /\ scanning /\ pi = ci /\ cursor = 0
      /\ pi \in Slots /\ ci \in Slots /\ owed \in Seq(Keys)
  BY DEF IInv, TypeOK, EndOfScan, AtEnd
<1>2. Len(owed) = 0
  BY <1>1, DistanceTo DEF IInv, RingMatchesOwed
<1>3. \A k : ~Lists(owed, k) /\ ~Ahead(k)
  BY <1>1, <1>2 DEF Lists, Ahead
<1>4. ~spoilt => stable \subseteq delivered
  BY <1>1, <1>3 DEF IInv, ScanInv, NoneLost
<1>5. TypeOK'
  BY DEF IInv, TypeOK, EndOfScan
<1>6. RingMatchesOwed'
  BY DEF IInv, RingMatchesOwed, EndOfScan
<1>7. ScanInv'
  BY <1>4 DEF IInv, ScanInv, NoneLost, ScanComplete, EndOfScan
<1> QED
  BY <1>5, <1>6, <1>7 DEF IInv

(* The server's answer: a page, the end, or an empty page before the end.  *)
LEMMA ScanAnsweredKeeps == IInv /\ ScanAnswered => IInv'
<1> SUFFICES ASSUME IInv, ScanAnswered PROVE IInv'
  OBVIOUS
<1>1. MustAsk /\ Started /\ UNCHANGED <<index, failures>>
  BY DEF ScanAnswered
<1>2. PICK b \in 0..(Buckets - 1) : Visits(From, b) /\ Answered(b)
  BY DEF ScanAnswered, From
<1>3. /\ cursor' = CursorAfter(b) /\ spoilt' = (scanning /\ spoilt)
  BY <1>2 DEF Answered
<1>4. status = "open" /\ stable' \subseteq index'
  BY <1>1, RingEmptyWhenAsked DEF MustAsk
<1>5. cursor' \in 0..(Buckets - 1) /\ spoilt' \in BOOLEAN
  <2>1. cursor' \in 0..(Buckets - 1)
    BY <1>3, SizesAssumption DEF CursorAfter
  <2> QED
    BY <1>3, <2>1 DEF IInv, TypeOK
<1>6. index' \subseteq Keys /\ stable' \subseteq Keys /\ failures' \in 0..MaxFailures
  BY <1>1, <1>4 DEF IInv, TypeOK
<1>7. ASSUME ~spoilt', NEW k \in stable'
      PROVE  k \in Returned \/ k \in PageAt(b) \/ Ahead(k)'
  <2>1. ~(scanning /\ spoilt)
    BY <1>3, <1>7
  <2>2. \/ k \in Returned \/ k \in PageAt(b)
        \/ CursorAfter(b) # 0 /\ BucketOf[k] >= CursorAfter(b)
    BY <1>1, <1>2, <1>7, <2>1, PageOrAhead
  <2> QED
    BY <1>3, <2>2 DEF Ahead
<1>8. CASE PageAt(b) # {}
  <2>1. /\ scanning' = TRUE /\ status' = status
        /\ \E order \in SetToSeqs(PageAt(b)) : Page(order)
    BY <1>2, <1>8 DEF Answered
  <2>2. PICK order \in SetToSeqs(PageAt(b)) : Page(order)
    BY <2>1
  <2>3. /\ pi' \in Slots /\ ci' \in Slots /\ ring' \in [0..RingSize -> Keys \cup {NoKey}]
        /\ owed' \in Seq(Keys) /\ delivered' \subseteq Keys
        /\ \A k \in PageAt(b) : k \in delivered' \/ Lists(owed', k)
        /\ Returned \subseteq delivered'
        /\ RingMatchesOwed'
    BY <1>1, <1>8, <2>2, PageStored
  <2>4. result' = "row"
    BY <2>2 DEF Page
  <2>5. TypeOK'
    BY <1>4, <1>5, <1>6, <2>1, <2>3, <2>4 DEF TypeOK
  <2>6. NoneLost'
    BY <1>7, <2>3 DEF NoneLost
  <2>7. ScanComplete'
    BY <1>4, <2>1, <2>4 DEF ScanComplete
  <2> QED
    BY <1>4, <2>3, <2>5, <2>6, <2>7 DEF IInv, ScanInv
<1>9. CASE PageAt(b) = {} /\ cursor' = 0
  <2>1. scanning' = FALSE /\ result' = "end" /\ NoPage /\ status' = status
    BY <1>2, <1>9 DEF Answered
  <2>2. /\ pi' \in Slots /\ ci' \in Slots /\ ring' \in [0..RingSize -> Keys \cup {NoKey}]
        /\ owed' \in Seq(Keys) /\ delivered' = Returned /\ delivered' \subseteq Keys
        /\ RingMatchesOwed'
    BY <1>1, <2>1, NothingStored
  <2>3. TypeOK'
    BY <1>4, <1>5, <1>6, <2>1, <2>2 DEF TypeOK
  <2>4. ScanComplete'
    BY <1>7, <1>9, <2>2 DEF ScanComplete, Ahead
  <2>5. NoneLost'
    BY <1>4, <2>1 DEF NoneLost
  <2> QED
    BY <1>4, <2>2, <2>3, <2>4, <2>5 DEF IInv, ScanInv
<1>10. CASE PageAt(b) = {} /\ cursor' # 0
  <2>1. scanning' = TRUE /\ result' = "none" /\ NoPage /\ status' = "aborted"
    BY <1>2, <1>10 DEF Answered
  <2>2. /\ pi' \in Slots /\ ci' \in Slots /\ ring' \in [0..RingSize -> Keys \cup {NoKey}]
        /\ owed' \in Seq(Keys) /\ delivered' \subseteq Keys /\ RingMatchesOwed'
    BY <1>1, <2>1, NothingStored
  <2>3. TypeOK'
    BY <1>5, <1>6, <2>1, <2>2 DEF TypeOK
  <2>4. NoneLost' /\ ScanComplete'
    BY <2>1 DEF NoneLost, ScanComplete
  <2> QED
    BY <1>4, <2>2, <2>3, <2>4 DEF IInv, ScanInv
<1> QED
  BY <1>8, <1>9, <1>10

(* A failed SSCAN leaves the cursor, and spoils the scan only if it was    *)
(* its first one.                                                          *)
LEMMA ScanFailsKeeps == IInv /\ ScanFails => IInv'
<1> SUFFICES ASSUME IInv, ScanFails PROVE IInv'
  OBVIOUS
<1>1. /\ MustAsk /\ Started /\ NoPage /\ failures' = failures + 1 /\ failures < MaxFailures
      /\ scanning' = TRUE /\ result' = "error" /\ spoilt' = (~scanning \/ spoilt)
      /\ UNCHANGED <<status, cursor, index>>
  BY DEF ScanFails
<1>2. /\ pi' \in Slots /\ ci' \in Slots /\ ring' \in [0..RingSize -> Keys \cup {NoKey}]
      /\ owed' \in Seq(Keys) /\ delivered' = Returned /\ delivered' \subseteq Keys
      /\ RingMatchesOwed'
  BY <1>1, NothingStored
<1>3. stable' \subseteq index' /\ (scanning => owed = << >>)
  BY <1>1, RingEmptyWhenAsked
<1>4. failures' \in 0..MaxFailures
  BY <1>1, SizesAssumption DEF IInv, TypeOK
<1>5. TypeOK'
  BY <1>1, <1>2, <1>3, <1>4 DEF IInv, TypeOK
<1>6. NoneLost'
  <2> SUFFICES ASSUME status' = "open", ~spoilt', NEW k \in stable'
               PROVE  k \in delivered' \/ Ahead(k)'
    BY DEF NoneLost
  <2>1. scanning /\ ~spoilt /\ status = "open" /\ k \in stable
    BY <1>1 DEF Started
  <2>2. k \in delivered \/ Lists(owed, k) \/ Ahead(k)
    BY <2>1 DEF IInv, ScanInv, NoneLost
  <2>3. ~Lists(owed, k)
    BY <1>3, <2>1 DEF Lists
  <2> QED
    BY <1>1, <1>2, <2>1, <2>2, <2>3 DEF Ahead, Returned
<1>7. ScanComplete'
  BY <1>1 DEF IInv, ScanComplete, MustAsk
<1> QED
  BY <1>2, <1>3, <1>5, <1>6, <1>7 DEF IInv, ScanInv

(* A refused SSCAN stops the program.                                      *)
LEMMA ScanRefusedKeeps == IInv /\ ScanRefused => IInv'
<1> SUFFICES ASSUME IInv, ScanRefused PROVE IInv'
  OBVIOUS
<1>1. /\ MustAsk /\ Started /\ NoPage /\ failures' = failures + 1 /\ failures < MaxFailures
      /\ status' = "aborted" /\ scanning' = TRUE /\ result' = "none"
      /\ UNCHANGED <<cursor, index, spoilt>>
  BY DEF ScanRefused
<1>2. /\ pi' \in Slots /\ ci' \in Slots /\ ring' \in [0..RingSize -> Keys \cup {NoKey}]
      /\ owed' \in Seq(Keys) /\ delivered' \subseteq Keys /\ RingMatchesOwed'
  BY <1>1, NothingStored
<1>3. stable' \subseteq index'
  BY <1>1, RingEmptyWhenAsked
<1>4. failures' \in 0..MaxFailures
  BY <1>1, SizesAssumption DEF IInv, TypeOK
<1>5. TypeOK'
  BY <1>1, <1>2, <1>3, <1>4 DEF IInv, TypeOK
<1>6. NoneLost' /\ ScanComplete'
  BY <1>1, <1>4 DEF NoneLost, ScanComplete
<1> QED
  BY <1>2, <1>3, <1>5, <1>6 DEF IInv, ScanInv

(* Rows that come are not asked for; one that goes is not asked for any    *)
(* more.                                                                   *)
LEMMA RowsChangeKeeps == IInv /\ (RowAdded \/ RowRemoved) => IInv'
<1> SUFFICES ASSUME IInv, RowAdded \/ RowRemoved PROVE IInv'
  OBVIOUS
<1>1. /\ UNCHANGED <<handleVars, failures, result, delivered, owed, spoilt>>
      /\ index' \subseteq Keys /\ stable' \subseteq stable /\ stable' \subseteq index'
  BY DEF RowAdded, RowRemoved, IInv, ScanInv, TypeOK
<1>2. TypeOK'
  BY <1>1 DEF IInv, TypeOK, handleVars
<1>3. RingMatchesOwed'
  BY <1>1 DEF IInv, RingMatchesOwed, handleVars
<1>4. NoneLost' /\ ScanComplete'
  BY <1>1 DEF IInv, ScanInv, NoneLost, Ahead, ScanComplete, handleVars
<1> QED
  BY <1>1, <1>2, <1>3, <1>4 DEF IInv, ScanInv

(* A handle that is opened again has no scan.                              *)
LEMMA ReopenedKeeps == IInv /\ Reopened => IInv'
<1> SUFFICES ASSUME IInv, Reopened PROVE IInv'
  OBVIOUS
<1>1. /\ EmptyRing \in [0..RingSize -> Keys \cup {NoKey}] /\ 0 \in Slots
      /\ 0 \in 0..(Buckets - 1) /\ << >> \in Seq(Keys)
  BY SizesAssumption DEF EmptyRing, Slots
<1>2. TypeOK'
  BY <1>1 DEF IInv, TypeOK, Reopened
<1>3. RingMatchesOwed'
  BY <1>1, DistanceTo DEF Reopened, RingMatchesOwed
<1>4. ScanInv'
  BY DEF Reopened, IInv, ScanInv, NoneLost, ScanComplete
<1> QED
  BY <1>2, <1>3, <1>4 DEF IInv

-----------------------------------------------------------------------------
(* The theorems.                                                           *)

(* IInv is an invariant: it holds of a fresh handle and every step keeps   *)
(* it.                                                                     *)
LEMMA Invariance == Spec => []IInv
<1>1. Init => IInv
  BY InitKeeps
<1>2. IInv /\ [Next]_vars => IInv'
  <2> SUFFICES ASSUME IInv, [Next]_vars PROVE IInv'
    OBVIOUS
  <2>1. CASE NextRow
    BY <2>1, NextFromRingKeeps, EndOfScanKeeps, ScanAnsweredKeeps, ScanFailsKeeps,
       ScanRefusedKeeps DEF NextRow
  <2>2. CASE RowAdded \/ RowRemoved
    BY <2>2, RowsChangeKeeps
  <2>3. CASE Reopened
    BY <2>3, ReopenedKeeps
  <2>4. CASE UNCHANGED vars
    <3>1. TypeOK'
      BY <2>4 DEF IInv, TypeOK, vars, handleVars
    <3>2. RingMatchesOwed'
      BY <2>4 DEF IInv, RingMatchesOwed, vars, handleVars
    <3>3. ScanInv'
      BY <2>4 DEF IInv, ScanInv, NoneLost, Ahead, ScanComplete,
                  vars, handleVars
    <3> QED
      BY <3>1, <3>2, <3>3 DEF IInv
  <2> QED
    BY <2>1, <2>2, <2>3, <2>4 DEF Next
<1> QED
  BY <1>1, <1>2, PTL DEF Spec

(* The indices of db_get_next_row_sync stay inside the ring, and the       *)
(* cursor inside the table.                                                *)
THEOREM TypeCorrect == Spec => []TypeOK
<1>1. IInv => TypeOK
  BY DEF IInv
<1> QED
  BY <1>1, Invariance, PTL

(* The ring of db_get_next_row_sync holds the keys of the last page that   *)
(* have not been returned, in their order, for pages that fit.             *)
THEOREM RingHoldsTheRest == Spec => []RingMatchesOwed
<1>1. IInv => RingMatchesOwed
  BY DEF IInv
<1> QED
  BY <1>1, Invariance, PTL

(* A scan that db_get_next_row_sync reports as ended has returned every    *)
(* row that was there from its start, however rows came and went and       *)
(* whichever SSCANs after the first failed.                                *)
THEOREM NoRowMissed == Spec => []ScanComplete
<1>1. IInv => ScanComplete
  BY DEF IInv, ScanInv
<1> QED
  BY <1>1, Invariance, PTL

=============================================================================
