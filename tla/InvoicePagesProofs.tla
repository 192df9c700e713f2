-------------------------- MODULE InvoicePagesProofs --------------------------
(***************************************************************************)
(* Proofs about InvoicePages, for any number of invoices, length of a      *)
(* second, limits and changes of a status.                                 *)
(***************************************************************************)
EXTENDS InvoicePages, FiniteSetTheorems, WellFoundedInduction, TLAPS

-----------------------------------------------------------------------------
(***************************************************************************)
(* Numbers.                                                                *)
(***************************************************************************)
LEMMA LeastNatural ==
  ASSUME NEW T, T \subseteq Nat, T # {}
  PROVE  \E m \in T : \A n \in T : m <= n
<1> DEFINE R == OpToRel(<, Nat)
<1>1. IsWellFoundedOn(R, Nat)
  BY NatLessThanWellFounded
<1>2. \A m \in Nat, n \in Nat : <<n, m>> \in R <=> n < m
  BY DEF OpToRel
<1> HIDE DEF R
<1>3. PICK m \in T : \A n \in T : ~(<<n, m>> \in R)
  BY <1>1, WFMin
<1>4. ASSUME NEW n \in T PROVE m <= n
  <2>1. ~(n < m)
    BY <1>2, <1>3
  <2> QED
    BY <2>1
<1> QED
  BY <1>4

LEMMA GreatestNatural ==
  ASSUME NEW T, NEW bound \in Nat, T \subseteq 0..bound, T # {}
  PROVE  \E m \in T : \A n \in T : n <= m
<1> DEFINE D == {bound - n : n \in T}
<1>1. D \subseteq Nat /\ D # {}
  <2>1. PICK n \in T : TRUE
    OBVIOUS
  <2>2. bound - n \in D
    BY <2>1
  <2> QED
    BY <2>2
<1>2. PICK d \in D : \A e \in D : d <= e
  BY <1>1, LeastNatural
<1>3. PICK m \in T : d = bound - m
  BY <1>2
<1>4. ASSUME NEW n \in T PROVE n <= m
  <2>1. bound - m <= bound - n
    BY <1>2, <1>3
  <2> QED
    BY <2>1
<1> QED
  BY <1>4

\* A time between the beginning of a second and a time in it is of the same second.
LEMMA SameSecond ==
  ASSUME NEW a \in Nat, NEW b \in Nat, SecondOf(b) <= a, a <= b
  PROVE  SecondOf(a) = SecondOf(b)
<1> DEFINE P == PerSecond
<1>1. P \in Nat \ {0}
  BY PagesAssumption
<1> HIDE DEF P
<1>2. /\ a % P \in 0..P-1 /\ a = P * (a \div P) + (a % P) /\ a \div P \in Nat
      /\ b % P \in 0..P-1 /\ b = P * (b \div P) + (b % P) /\ b \div P \in Nat
  BY <1>1
<1>3. b - (b % P) <= a
  BY DEF SecondOf, P
<1>4. ASSUME NEW m \in Nat, NEW n \in Nat, m < n PROVE P * m + P <= P * n
  BY <1>1, <1>4
<1>5. CASE a \div P < b \div P
  <2>1. P * (a \div P) + P <= P * (b \div P)
    BY <1>2, <1>4, <1>5
  <2> QED
    BY <1>1, <1>2, <1>3, <2>1
<1>6. CASE b \div P < a \div P
  <2>1. P * (b \div P) + P <= P * (a \div P)
    BY <1>2, <1>4, <1>6
  <2> QED
    BY <1>1, <1>2, <2>1
<1>7. CASE a \div P = b \div P
  <2>1. a - (a % P) = b - (b % P)
    BY <1>1, <1>2, <1>7
  <2> QED
    BY <2>1 DEF SecondOf, P
<1> QED
  BY <1>2, <1>5, <1>6, <1>7

LEMMA SecondBegins ==
  ASSUME NEW a \in Nat
  PROVE  SecondOf(a) \in 0..a
  BY PagesAssumption DEF SecondOf

-----------------------------------------------------------------------------
(***************************************************************************)
(* The list and its pages.                                                 *)
(***************************************************************************)
Typed ==
    /\ now \in 1..MaxTime
    /\ created \in [Invoice -> 0..now]
    /\ status \in [Invoice -> Status]

LEMMA CreatedFacts ==
  ASSUME Typed
  PROVE  /\ Invoice \subseteq Nat /\ MaxTime \in Nat
         /\ \A i \in Invoice : i >= 1 /\ created[i] \in Nat /\ created[i] <= MaxTime
         /\ \A i \in Existing : i \in Invoice /\ created[i] >= 1
  BY PagesAssumption DEF Typed, Invoice, Existing

\* The list is ordered: of two invoices one comes before the other.
LEMMA Ordered ==
  ASSUME Typed, NEW i \in Invoice, NEW k \in Invoice
  PROVE  i = k \/ Before(created[i], i, created[k], k) \/ Before(created[k], k, created[i], i)
  BY CreatedFacts DEF Before

LEMMA LastFacts ==
  ASSUME Typed, NEW page, page \subseteq Existing, page # {}
  PROVE  /\ LastOf(page) \in page
         /\ \A k \in page \ {LastOf(page)} :
               Before(created[LastOf(page)], LastOf(page), created[k], k)
<1>1. \A i \in page : i \in Nat /\ created[i] \in Nat
  BY CreatedFacts
<1> DEFINE T == {created[i] : i \in page}
<1>2. PICK t \in T : \A u \in T : t <= u
  <2>1. T \subseteq Nat /\ T # {}
    BY <1>1
  <2> QED
    BY <2>1, LeastNatural
<1> DEFINE I == {i \in page : created[i] = t}
<1>3. PICK i \in I : \A k \in I : i <= k
  <2>1. I \subseteq Nat /\ I # {}
    BY <1>1, <1>2
  <2> HIDE DEF I
  <2> QED
    BY <2>1, LeastNatural
<1>4. ASSUME NEW k \in page \ {i} PROVE Before(created[i], i, created[k], k)
  <2>1. created[i] = t /\ created[k] >= t
    BY <1>2, <1>3
  <2>2. CASE created[k] = t
    <3>1. i <= k /\ i # k
      BY <1>3, <2>2
    <3> QED
      BY <1>1, <2>1, <2>2, <3>1 DEF Before
  <2>3. CASE created[k] # t
    BY <1>1, <2>1, <2>3 DEF Before
  <2> QED
    BY <2>2, <2>3
<1>5. \E k \in page : \A m \in page \ {k} : Before(created[k], k, created[m], m)
  BY <1>3, <1>4
<1> QED
  BY <1>5 DEF LastOf

LEMMA FirstExists ==
  ASSUME Typed, NEW rows, rows \subseteq Existing, rows # {}
  PROVE  \E i \in rows : \A k \in rows : ~Before(created[i], i, created[k], k)
<1>1. \A i \in rows : i \in 0..N /\ created[i] \in 0..MaxTime /\ N \in Nat /\ MaxTime \in Nat
  BY CreatedFacts, PagesAssumption DEF Invoice
<1> DEFINE T == {created[i] : i \in rows}
<1>2. PICK t \in T : \A u \in T : u <= t
  <2>1. T \subseteq 0..MaxTime /\ T # {}
    BY <1>1
  <2>2. MaxTime \in Nat
    BY PagesAssumption
  <2> HIDE DEF T
  <2> QED
    BY <2>1, <2>2, GreatestNatural
<1> DEFINE I == {i \in rows : created[i] = t}
<1>3. PICK i \in I : \A k \in I : k <= i
  <2>1. I \subseteq 0..N /\ I # {} /\ N \in Nat
    BY <1>1, <1>2
  <2> HIDE DEF I
  <2> QED
    BY <2>1, GreatestNatural
<1>4. ASSUME NEW k \in rows PROVE ~Before(created[i], i, created[k], k)
  <2>1. created[i] = t /\ created[k] <= t /\ i \in rows
    BY <1>2, <1>3
  <2>2. created[k] = t => k <= i
    BY <1>3
  <2> QED
    BY <1>1, <2>1, <2>2 DEF Before
<1> QED
  BY <1>3, <1>4

LEMMA ClampedLimitFacts ==
  ASSUME NEW limit \in Int
  PROVE  ClampedLimit(limit) \in 1..MaxLimit
  BY PagesAssumption DEF ClampedLimit

\* A page is a part of the list from its beginning, and empty only at the end of the list.
LEMMA PageFacts ==
  ASSUME Typed, NEW limit \in Int, NEW filter, NEW cursor
  PROVE  LET rows == Listed(filter, cursor)
             page == listInvoices(limit, filter, cursor)
         IN /\ page \subseteq rows /\ rows \subseteq Existing
            /\ page = {} => rows = {}
            /\ \A i \in rows \ page, k \in page : Before(created[i], i, created[k], k)
<1> DEFINE rows == Listed(filter, cursor)
           page == listInvoices(limit, filter, cursor)
           Ahead(i) == {k \in rows : Before(created[i], i, created[k], k)}
<1>1. rows \subseteq Existing /\ rows \subseteq Invoice
  BY DEF Listed, Existing
<1>2. page = {i \in rows : Cardinality(Ahead(i)) < ClampedLimit(limit)}
  BY DEF listInvoices
<1>3. ClampedLimit(limit) \in Nat /\ ClampedLimit(limit) >= 1
  BY ClampedLimitFacts
<1>4. ASSUME NEW S, S \subseteq Invoice PROVE IsFiniteSet(S) /\ Cardinality(S) \in Nat
  <2>1. IsFiniteSet(Invoice)
    BY FS_Interval, PagesAssumption DEF Invoice
  <2> QED
    BY <1>4, <2>1, FS_Subset, FS_CardinalityType
<1> HIDE DEF rows, page
<1>5. ASSUME rows # {} PROVE page # {}
  <2>1. PICK i \in rows : \A k \in rows : ~Before(created[i], i, created[k], k)
    BY <1>1, <1>5, FirstExists
  <2>2. Ahead(i) = {}
    BY <2>1
  <2>3. Cardinality(Ahead(i)) = 0
    BY <2>2, FS_EmptySet
  <2> QED
    BY <1>2, <1>3, <2>1, <2>3
<1>6. ASSUME NEW i \in rows \ page, NEW k \in page
      PROVE  Before(created[i], i, created[k], k)
  <2>1. i \in Invoice /\ k \in Invoice /\ i # k /\ k \in rows
    BY <1>1, <1>2, <1>6
  <2>2. CASE Before(created[k], k, created[i], i)
    <3>1. ASSUME NEW m \in Ahead(i) PROVE m \in Ahead(k)
      <4>1. m \in Invoice /\ m \in rows /\ Before(created[i], i, created[m], m)
        BY <1>1
      <4>2. /\ created[k] \in Nat /\ k \in Nat /\ created[i] \in Nat /\ i \in Nat
            /\ created[m] \in Nat /\ m \in Nat
        BY <2>1, <4>1, CreatedFacts
      <4>3. Before(created[k], k, created[m], m)
        BY <2>2, <4>1, <4>2 DEF Before
      <4> QED
        BY <4>1, <4>3
    <3>2. Ahead(i) \subseteq Ahead(k) /\ Ahead(k) \subseteq Invoice /\ Ahead(i) \subseteq Invoice
      BY <1>1, <3>1
    <3>3. /\ Cardinality(Ahead(i)) <= Cardinality(Ahead(k))
          /\ Cardinality(Ahead(i)) \in Nat /\ Cardinality(Ahead(k)) \in Nat
      BY <1>4, <3>2, FS_Subset
    <3>4. /\ Cardinality(Ahead(k)) < ClampedLimit(limit)
          /\ ~(Cardinality(Ahead(i)) < ClampedLimit(limit))
      BY <1>2, <1>6
    <3> QED
      BY <1>3, <3>3, <3>4
  <2> QED
    BY <2>1, <2>2, Ordered
<1>7. page \subseteq rows
  BY <1>2
<1> QED
  BY <1>1, <1>5, <1>6, <1>7 DEF rows, page

-----------------------------------------------------------------------------
(***************************************************************************)
(* The walk.                                                               *)
(***************************************************************************)
Walks == [state : {"rest", "open", "done", "error"}, limit : Limits \cup {1},
          filter : Status \cup {Any}, cursor : [time : 0..MaxTime, id : {0} \cup Invoice]]

LEMMA TypedFacts ==
  ASSUME TypeOK
  PROVE  /\ Typed /\ walk \in Walks /\ walk.limit \in Int
         /\ walk.cursor \in [time : 0..MaxTime, id : {0} \cup Invoice]
         /\ walk.cursor.time \in Nat /\ walk.cursor.id \in Nat
         /\ loaded \in [Invoice -> Status \cup {"none"}] /\ present \subseteq Existing
<1>1. walk \in Walks
  BY DEF TypeOK, Walks
<1>2. walk.limit \in Limits \cup {1} /\ walk.cursor \in [time : 0..MaxTime, id : {0} \cup Invoice]
  BY <1>1 DEF Walks
<1>3. walk.limit \in Int
  <2>1. Limits \cup {1} \subseteq Int
    BY PagesAssumption
  <2> QED
    BY <1>2, <2>1
<1>4. walk.cursor.time \in 0..MaxTime /\ walk.cursor.id \in {0} \cup Invoice
  BY <1>2
<1>5. walk.cursor.time \in Nat /\ walk.cursor.id \in Nat
  BY <1>4 DEF Invoice
<1> QED
  BY <1>1, <1>2, <1>3, <1>5 DEF TypeOK, Typed

\* The cursor that names the last row of a page.
LEMMA NextCursorFacts ==
  ASSUME Typed, NEW page, page \subseteq Existing, page # {}
  PROVE  LET next == nextCursor(page)
         IN /\ next \in [time : 0..MaxTime, id : {0} \cup Invoice] /\ next # NoCursor
            /\ next.time = SecondOf(created[LastOf(page)]) /\ next.id = LastOf(page)
            /\ LastOf(page) \in page /\ LastOf(page) \in Invoice
            /\ next.time \in Nat /\ next.time <= created[LastOf(page)]
<1> DEFINE last == LastOf(page)
           next == nextCursor(page)
<1>1. last \in page /\ last \in Invoice /\ created[last] \in Nat /\ created[last] <= MaxTime
      /\ last >= 1
  BY LastFacts, CreatedFacts
<1>2. SecondOf(created[last]) \in 0..created[last]
  BY <1>1, SecondBegins
<1> HIDE DEF last
<1>3. next = [time |-> SecondOf(created[last]), id |-> last]
  BY DEF nextCursor, last
<1>4. next \in [time : 0..MaxTime, id : {0} \cup Invoice]
  BY <1>1, <1>2, <1>3, CreatedFacts
<1>5. next.time = SecondOf(created[last]) /\ next.id = last /\ NoCursor.id = 0
  BY <1>3 DEF NoCursor
<1> QED
  BY <1>1, <1>2, <1>4, <1>5 DEF last

\* What a page holds has not been got before.
LEMMA PageIsNew ==
  ASSUME PagesInv, walk.state = "open", NEW i \in listInvoices(walk.limit, walk.filter, walk.cursor)
  PROVE  i \in Existing /\ i \notin Rows
<1>1. i \in Listed(walk.filter, walk.cursor) /\ i \in Existing
  BY TypedFacts, PageFacts DEF PagesInv
<1> QED
  BY <1>1 DEF PagesInv, WalkFits, Behind, Listed

\* Whatever a row is, if it is behind the cursor or ahead of it by its time and id.
LEMMA BehindNext ==
  ASSUME Typed, NEW page, page \subseteq Existing, page # {}, NEW i \in Invoice,
         ~Before(created[i], i, created[LastOf(page)], LastOf(page))
  PROVE  ~Before(created[i], i, nextCursor(page).time, nextCursor(page).id)
<1>1. created[i] \in Nat /\ created[LastOf(page)] \in Nat /\ i \in Nat /\ LastOf(page) \in Nat
  BY CreatedFacts, LastFacts
<1>2. /\ nextCursor(page).time \in Nat /\ nextCursor(page).time <= created[LastOf(page)]
      /\ nextCursor(page).id = LastOf(page)
  BY NextCursorFacts
<1> QED
  BY <1>1, <1>2 DEF Before

\* What a page adds to the walk.
LEMMA PageAdds ==
  ASSUME PagesInv, GetPage
  PROVE  LET page == listInvoices(walk.limit, walk.filter, walk.cursor)
         IN /\ Rows' = Rows \cup page
            /\ loaded' \in [Invoice -> Status \cup {"none"}]
            /\ ~repeated'
<1> DEFINE page == listInvoices(walk.limit, walk.filter, walk.cursor)
<1>1. /\ walk.state = "open"
      /\ loaded' = [i \in Invoice |-> IF i \in page THEN status[i] ELSE loaded[i]]
      /\ repeated' = (repeated \/ \E i \in page : loaded[i] # "none")
  BY DEF GetPage
<1>2. \A i \in page : i \in Invoice /\ i \notin Rows /\ loaded[i] = "none"
  BY <1>1, PageIsNew DEF Existing, Rows
<1> HIDE DEF page
<1>3. /\ \A i \in Invoice : status[i] \in Status /\ status[i] # "none"
      /\ loaded \in [Invoice -> Status \cup {"none"}]
  BY TypedFacts DEF PagesInv, Typed, Status
<1>4. Rows' = Rows \cup page
  BY <1>1, <1>2, <1>3 DEF Rows
<1>5. loaded' \in [Invoice -> Status \cup {"none"}]
  BY <1>1, <1>3
<1>6. ~repeated'
  BY <1>1, <1>2 DEF PagesInv, NothingIsRepeated
<1> QED
  BY <1>4, <1>5, <1>6 DEF page

LEMMA GetPageKeepsInv ==
  ASSUME PagesInv, GetPage
  PROVE  PagesInv'
<1> DEFINE page == listInvoices(walk.limit, walk.filter, walk.cursor)
           last == LastOf(page)
<1>1. /\ walk.state = "open"
      /\ walk' = IF page = {} THEN [walk EXCEPT !.state = "done"]
                              ELSE [walk EXCEPT !.cursor = nextCursor(page)]
      /\ UNCHANGED <<now, created, status, changes, present>>
  BY DEF GetPage, dbVars
<1>2. /\ Rows' = Rows \cup page /\ loaded' \in [Invoice -> Status \cup {"none"}]
      /\ ~repeated'
  BY PageAdds
<1>3. /\ page \subseteq Listed(walk.filter, walk.cursor) /\ page \subseteq Existing
      /\ page = {} => Listed(walk.filter, walk.cursor) = {}
      /\ \A i \in Listed(walk.filter, walk.cursor) \ page, k \in page :
            Before(created[i], i, created[k], k)
  BY TypedFacts, PageFacts DEF PagesInv
<1>4. /\ Typed /\ walk \in Walks /\ present \subseteq Existing
      /\ walk.cursor.time \in Nat /\ walk.cursor.id \in Nat
  BY TypedFacts DEF PagesInv
<1>5. /\ \A i \in Existing : i \in Invoice /\ i \in Nat /\ created[i] \in Nat
      /\ Existing' = Existing
  BY <1>1, <1>4, CreatedFacts DEF Existing
<1> HIDE DEF page, last
<1>6. WalkFits /\ Rows \subseteq Existing
  BY DEF PagesInv, WalkFits
<1>7. Rows' \subseteq Existing'
  BY <1>2, <1>3, <1>5, <1>6
<1>8. walk'.filter = walk.filter /\ walk'.state \in {"open", "done"} /\ walk' \in Walks
  <2>1. CASE page = {}
    BY <1>1, <1>4, <2>1 DEF Walks
  <2>2. CASE page # {}
    <3>1. nextCursor(page) \in [time : 0..MaxTime, id : {0} \cup Invoice]
      BY <1>3, <1>4, <2>2, NextCursorFacts
    <3> QED
      BY <1>1, <1>4, <2>2, <3>1 DEF Walks
  <2> QED
    BY <2>1, <2>2
<1>9. TypeOK'
  <2>1. repeated' \in BOOLEAN
    BY <1>2 DEF GetPage
  <2> QED
    BY <1>1, <1>2, <1>5, <1>8, <2>1 DEF PagesInv, TypeOK, Walks
<1>10. \A i \in present' : Matches(i, status'[i], walk'.filter)
  BY <1>1, <1>6, <1>8 DEF WalkFits, Matches
<1>11. NothingIsRepeated'
  BY <1>2 DEF NothingIsRepeated
<1>12. ASSUME NEW i \in present \ Rows PROVE Behind(i) \/ i \in Listed(walk.filter, walk.cursor)
  BY <1>4, <1>6 DEF WalkFits, Behind, Listed
<1>13. ASSUME NEW i \in present \ Rows, Behind(i) PROVE HasItsSecond(i)'
  <2>1. PICK k \in Rows : SecondOf(created[k]) = SecondOf(created[i])
    BY <1>1, <1>6, <1>13 DEF WalkFits, HasItsSecond
  <2> QED
    BY <1>1, <1>2, <2>1 DEF HasItsSecond, SecondOf
<1>14. CASE page = {}
  <2>1. walk'.state = "done"
    BY <1>1, <1>4, <1>14 DEF Walks
  <2>2. ASSUME NEW i \in present' \ Rows' PROVE HasItsSecond(i)'
    <3>1. i \in present \ Rows /\ Behind(i)
      BY <1>1, <1>2, <1>3, <1>12, <1>14, <2>2
    <3> QED
      BY <1>13, <3>1
  <2> QED
    BY <1>7, <1>9, <1>10, <1>11, <2>1, <2>2 DEF PagesInv, WalkFits, MissedOnlyWithinASecond
<1>15. CASE page # {}
  <2>1. /\ walk'.cursor = nextCursor(page) /\ walk'.state = "open"
        /\ walk'.cursor # NoCursor
        /\ walk'.cursor.time = SecondOf(created[last]) /\ walk'.cursor.id = last
        /\ last \in page /\ last \in Existing
    BY <1>1, <1>3, <1>4, <1>15, NextCursorFacts DEF Walks, last
  <2>2. ASSUME NEW i \in Invoice, ~Before(created[i], i, created[last], last)
        PROVE  Behind(i)'
    <3>1. ~Before(created[i], i, nextCursor(page).time, nextCursor(page).id)
      BY <1>3, <1>4, <1>15, <2>2, BehindNext DEF last
    <3> QED
      BY <1>1, <2>1, <3>1 DEF Behind, Before
  <2>3. ASSUME NEW i \in Rows' PROVE Behind(i)'
    <3>1. i \in Invoice /\ i \in Nat /\ created[i] \in Nat /\ last \in Nat /\ created[last] \in Nat
      BY <1>2, <1>3, <1>5, <1>6, <2>1, <2>3
    <3>2. CASE i \in page
      <4>1. i = last \/ Before(created[last], last, created[i], i)
        BY <1>3, <1>4, <3>2, LastFacts DEF last
      <4> QED
        BY <2>2, <3>1, <4>1 DEF Before
    <3>3. CASE i \in Rows
      <4>1. walk.cursor # NoCursor /\ ~Before(created[i], i, walk.cursor.time, walk.cursor.id)
        BY <1>1, <1>6, <3>3 DEF WalkFits, Behind
      <4>2. Before(created[last], last, walk.cursor.time, walk.cursor.id)
        BY <1>3, <2>1, <4>1 DEF Listed
      <4>3. ~Before(created[i], i, created[last], last)
        BY <1>4, <3>1, <4>1, <4>2 DEF Before
      <4> QED
        BY <2>2, <3>1, <4>3
    <3> QED
      BY <1>2, <2>3, <3>2, <3>3
  <2>4. ASSUME NEW i \in present' \ Rows', Behind(i)' PROVE HasItsSecond(i)'
    <3>1. i \in present \ Rows /\ i \notin page /\ i \in Existing
      BY <1>1, <1>2, <1>4, <2>4
    <3>2. CASE Behind(i)
      BY <1>13, <3>1, <3>2
    <3>3. CASE i \in Listed(walk.filter, walk.cursor)
      <4>1. created[i] \in Nat /\ created[last] \in Nat /\ i \in Nat /\ last \in Nat
        BY <1>5, <2>1, <3>1
      <4>2. created[i] <= created[last]
        BY <1>3, <2>1, <3>1, <3>3, <4>1 DEF Before
      <4>3. SecondOf(created[last]) <= created[i]
        <5>1. ~(created[i] < SecondOf(created[last]))
          BY <1>1, <2>1, <2>4 DEF Behind, Before
        <5> QED
          BY <4>1, <5>1, SecondBegins
      <4>4. SecondOf(created[last]) = SecondOf(created[i])
        BY <4>1, <4>2, <4>3, SameSecond
      <4> QED
        BY <1>1, <1>2, <2>1, <4>4 DEF HasItsSecond, SecondOf
    <3> QED
      BY <1>12, <3>1, <3>2, <3>3
  <2> QED
    BY <1>7, <1>9, <1>10, <1>11, <2>1, <2>3, <2>4 DEF PagesInv, WalkFits, MissedOnlyWithinASecond
<1> QED
  BY <1>14, <1>15

\* A step that leaves the walk where it is, and adds no invoice it has to find.
LEMMA DatabaseKeepsInv ==
  ASSUME PagesInv, UNCHANGED <<walk, loaded, repeated>>,
         now' \in 1..MaxTime, created' \in [Invoice -> 0..now'],
         status' \in [Invoice -> Status], changes' \in 0..MaxChanges,
         \A i \in Existing : created'[i] = created[i],
         present' \subseteq present,
         \A i \in present' : Matches(i, status'[i], walk.filter)
  PROVE  PagesInv'
<1>1. Existing \subseteq Invoice /\ \A i \in Existing : created[i] > 0
  BY DEF Existing
<1>2. Existing \subseteq Existing' /\ Rows' = Rows
  BY <1>1 DEF Existing, Rows
<1>3. Rows \subseteq Existing /\ present \subseteq Existing
  BY DEF PagesInv, WalkFits, TypeOK
<1>4. TypeOK'
  BY <1>2, <1>3 DEF PagesInv, TypeOK
<1>5. \A i \in Existing : Behind(i)' <=> Behind(i)
  BY DEF Behind, Before
<1>6. ASSUME NEW i \in Existing, HasItsSecond(i) PROVE HasItsSecond(i)'
  BY <1>2, <1>3, <1>6 DEF HasItsSecond, SecondOf
<1>7. WalkFits'
  <2>1. Rows' \subseteq Existing'
    BY <1>2, <1>3
  <2>2. ASSUME walk'.state = "open", NEW i \in Rows' PROVE Behind(i)'
    BY <1>2, <1>3, <1>5, <2>2 DEF PagesInv, WalkFits
  <2>3. ASSUME walk'.state = "open", NEW i \in present' \ Rows', Behind(i)'
        PROVE  HasItsSecond(i)'
    BY <1>2, <1>3, <1>5, <1>6, <2>3 DEF PagesInv, WalkFits
  <2> QED
    BY <2>1, <2>2, <2>3 DEF WalkFits
<1>8. MissedOnlyWithinASecond'
  BY <1>2, <1>3, <1>6 DEF PagesInv, MissedOnlyWithinASecond
<1>9. NothingIsRepeated'
  BY DEF PagesInv, NothingIsRepeated
<1> QED
  BY <1>4, <1>7, <1>8, <1>9 DEF PagesInv

LEMMA InitEstablishesInv == Init => PagesInv
<1> SUFFICES ASSUME Init PROVE PagesInv
  OBVIOUS
<1>1. AtRest \in Walks
  BY PagesAssumption DEF AtRest, Walks, NoCursor, Any
<1>2. TypeOK
  <2>1. now \in 1..MaxTime /\ created \in [Invoice -> 0..now] /\ changes \in 0..MaxChanges
    BY PagesAssumption DEF Init
  <2>2. "NEW" \in Status /\ "none" \in Status \cup {"none"}
    BY DEF Status
  <2>3. status \in [Invoice -> Status] /\ loaded \in [Invoice -> Status \cup {"none"}]
    BY <2>2 DEF Init
  <2>4. walk \in Walks /\ present \subseteq Existing
    BY <1>1 DEF Init
  <2>5. repeated \in BOOLEAN
    BY DEF Init
  <2> QED
    BY <2>1, <2>3, <2>4, <2>5 DEF TypeOK, Walks
<1>3. Rows = {} /\ present = {} /\ walk.state = "rest" /\ repeated = FALSE
  BY DEF Init, Rows, AtRest
<1> QED
  BY <1>2, <1>3 DEF PagesInv, WalkFits, NothingIsRepeated, MissedOnlyWithinASecond

LEMMA StartWalkKeepsInv ==
  ASSUME PagesInv, NEW limit \in Limits, NEW filter \in {Any, "NEW"}, StartWalk(limit, filter)
  PROVE  PagesInv'
<1>1. /\ walk' = [state |-> "open", limit |-> limit, filter |-> filter, cursor |-> NoCursor]
      /\ loaded' = [i \in Invoice |-> "none"]
      /\ present' = {i \in Existing : Matches(i, status[i], filter)}
      /\ repeated' = FALSE
      /\ UNCHANGED <<now, created, status, changes>>
  BY DEF StartWalk, dbVars
<1>2. walk' \in Walks
  BY <1>1, PagesAssumption DEF Walks, NoCursor, Status
<1>3. Existing' = Existing /\ Rows' = {}
  BY <1>1 DEF Existing, Rows
<1>4. TypeOK'
  BY <1>1, <1>2, <1>3 DEF PagesInv, TypeOK, Walks
<1>5. \A i \in Invoice : ~Behind(i)'
  BY <1>1 DEF Behind
<1> QED
  BY <1>1, <1>3, <1>4, <1>5
  DEF PagesInv, WalkFits, NothingIsRepeated, MissedOnlyWithinASecond, Existing

LEMMA PageRefusedKeepsInv ==
  ASSUME PagesInv, PageRefused
  PROVE  PagesInv'
<1>1. /\ walk' = [walk EXCEPT !.state = "error"]
      /\ UNCHANGED <<now, created, status, changes, loaded, present, repeated>>
  BY DEF PageRefused, dbVars
<1>2. walk \in Walks
  BY TypedFacts DEF PagesInv
<1>3. walk' \in Walks /\ walk'.state = "error" /\ walk'.filter = walk.filter
  BY <1>1, <1>2 DEF Walks
<1>4. Existing' = Existing /\ Rows' = Rows
  BY <1>1 DEF Existing, Rows
<1>5. TypeOK'
  BY <1>1, <1>3, <1>4 DEF PagesInv, TypeOK, Walks
<1> QED
  BY <1>1, <1>3, <1>4, <1>5
  DEF PagesInv, WalkFits, NothingIsRepeated, MissedOnlyWithinASecond

LEMMA NextKeepsInv == PagesInv /\ [Next]_vars => PagesInv'
<1> SUFFICES ASSUME PagesInv, [Next]_vars PROVE PagesInv'
  OBVIOUS
<1>1. /\ now \in 1..MaxTime /\ created \in [Invoice -> 0..now] /\ status \in [Invoice -> Status]
      /\ changes \in 0..MaxChanges /\ MaxTime \in Nat /\ MaxChanges \in Nat
      /\ \A i \in present : Matches(i, status[i], walk.filter)
  BY PagesAssumption DEF PagesInv, TypeOK, WalkFits
<1>2. CASE Tick
  <2>1. /\ now' = now + 1 /\ now < MaxTime
        /\ UNCHANGED <<created, status, changes, walk, loaded, present, repeated>>
    BY <1>2 DEF Tick, walkVars
  <2>2. now' \in 1..MaxTime /\ 0..now \subseteq 0..now'
    BY <1>1, <2>1
  <2>3. created' \in [Invoice -> 0..now']
    BY <1>1, <2>1, <2>2
  <2> QED
    BY <1>1, <2>1, <2>2, <2>3, DatabaseKeepsInv DEF Matches
<1>3. ASSUME NEW i \in Invoice, Create(i) PROVE PagesInv'
  <2>1. /\ created[i] = 0 /\ created' = [created EXCEPT ![i] = now]
        /\ UNCHANGED <<now, status, changes, walk, loaded, present, repeated>>
    BY <1>3 DEF Create, walkVars
  <2>2. created' \in [Invoice -> 0..now']
    BY <1>1, <2>1
  <2>3. \A k \in Existing : created'[k] = created[k]
    BY <1>1, <2>1 DEF Existing
  <2> QED
    BY <1>1, <2>1, <2>2, <2>3, DatabaseKeepsInv DEF Matches
<1>4. ASSUME NEW i \in Invoice, NEW s \in Status, ChangeStatus(i, s) PROVE PagesInv'
  <2>1. /\ changes < MaxChanges /\ changes' = changes + 1
        /\ status' = [status EXCEPT ![i] = s]
        /\ present' = IF Matches(i, s, walk.filter) THEN present ELSE present \ {i}
        /\ UNCHANGED <<now, created, walk, loaded, repeated>>
    BY <1>4 DEF ChangeStatus
  <2>2. status' \in [Invoice -> Status] /\ changes' \in 0..MaxChanges /\ present' \subseteq present
    BY <1>1, <2>1
  <2>3. present \subseteq Invoice
    BY DEF PagesInv, TypeOK, Existing
  <2>4. \A k \in present' : Matches(k, status'[k], walk.filter)
    BY <1>1, <2>1, <2>3 DEF Matches
  <2> QED
    BY <1>1, <2>1, <2>2, <2>4, DatabaseKeepsInv
<1>5. CASE UNCHANGED vars
  BY <1>1, <1>5, DatabaseKeepsInv DEF vars
<1> QED
  BY <1>2, <1>3, <1>4, <1>5, StartWalkKeepsInv, GetPageKeepsInv, PageRefusedKeepsInv DEF Next

(***************************************************************************)
(* Wherever a walk is, it has got what is behind its cursor, or another    *)
(* invoice of the same second.                                             *)
(***************************************************************************)
THEOREM PagesInvariant == Spec => []PagesInv
  BY InitEstablishesInv, NextKeepsInv, PTL DEF Spec

(***************************************************************************)
(* Type correctness of the invoices, the walk and what it has got.         *)
(***************************************************************************)
THEOREM TypeCorrectness == Spec => []TypeOK
<1>1. PagesInv => TypeOK
  BY DEF PagesInv
<1> QED
  BY <1>1, PagesInvariant, PTL

(***************************************************************************)
(* A walk never gets an invoice twice, although its cursor is cut to the   *)
(* second, and whatever is created or changed between its pages.           *)
(***************************************************************************)
THEOREM WalksRepeatNothing == Spec => []NothingIsRepeated
<1>1. PagesInv => NothingIsRepeated
  BY DEF PagesInv
<1> QED
  BY <1>1, PagesInvariant, PTL

(***************************************************************************)
(* What a walk that has come to its end has missed was created within the  *)
(* same second as an invoice it has got.                                   *)
(***************************************************************************)
THEOREM WalksMissLittle == Spec => []MissedOnlyWithinASecond
<1>1. PagesInv => MissedOnlyWithinASecond
  BY DEF PagesInv
<1> QED
  BY <1>1, PagesInvariant, PTL

-----------------------------------------------------------------------------
(***************************************************************************)
(* The portal.                                                             *)
(***************************************************************************)

\* What each status is shown as and counted with, and in which filter it is.
LEMMA Labels ==
  ASSUME NEW s \in Status
  PROVE  LET label == displayStatus(s)
         IN /\ matchesFilter(label, "Accepted") <=> label \in {"Accepted", "Paid"}
            /\ matchesFilter(label, "Pending") <=> label \in {"Pending", "Processing"}
            /\ matchesFilter(label, "Rejected") <=> label \in {"Rejected", "Error"}
            /\ label \in {"Accepted", "Paid", "Pending", "Processing", "Rejected", "Error"}
            /\ label \in {"Accepted", "Paid", "Rejected", "Error"} =>
                  s \in {"SUBMITTED", "SYNCED", "ACCEPTED", "REJECTED", "PAID", "ERROR"}
  BY DEF Status, displayStatus, matchesFilter

(***************************************************************************)
(* The numbers of the portal are those of the rows its filters show, each  *)
(* row is in exactly one of them, and the stages of the funnel contain     *)
(* each other.                                                             *)
(***************************************************************************)
THEOREM PortalCounts == Spec => []PortalAddsUp
<1>1. ASSUME TypeOK PROVE PortalAddsUp
  <2>1. Rows \subseteq Invoice /\ \A i \in Rows : loaded[i] \in Status
    BY <1>1, TypedFacts DEF Rows
  <2> DEFINE a == Accepted
             p == Pending
             r == Rejected
             all == Rows
  <2>2. all = (a \cup p) \cup r /\ a \cap p = {} /\ (a \cup p) \cap r = {}
    BY <2>1, Labels DEF Accepted, Pending, Rejected, Counted
  <2>3. a \cup r \subseteq Submitted
    BY <2>1, Labels DEF Accepted, Rejected, Counted, Submitted
  <2>4. Submitted \subseteq Mapped
    BY DEF Submitted, Mapped
  <2>5. /\ a \subseteq Invoice /\ p \subseteq Invoice /\ r \subseteq Invoice
        /\ a = Shown("Accepted") /\ p = Shown("Pending") /\ r = Shown("Rejected")
    BY <2>1, Labels DEF Accepted, Pending, Rejected, Counted, Shown
  <2> HIDE DEF a, p, r, all
  <2>6. IsFiniteSet(a) /\ IsFiniteSet(p) /\ IsFiniteSet(r) /\ IsFiniteSet(a \cup p)
    <3>1. IsFiniteSet(Invoice)
      BY FS_Interval, PagesAssumption DEF Invoice
    <3>2. a \cup p \subseteq Invoice
      BY <2>5
    <3> QED
      BY <2>5, <3>1, <3>2, FS_Subset
  <2>7. Cardinality(a) \in Nat /\ Cardinality(p) \in Nat /\ Cardinality(r) \in Nat
    BY <2>6, FS_CardinalityType
  <2>8. Cardinality(a \cup p) = Cardinality(a) + Cardinality(p)
    <3>1. Cardinality(a \cup p) = Cardinality(a) + Cardinality(p) - Cardinality(a \cap p)
      BY <2>6, FS_Union
    <3>2. Cardinality(a \cap p) = 0
      BY <2>2, FS_EmptySet
    <3> QED
      BY <2>7, <3>1, <3>2
  <2>9. Cardinality(all) = Cardinality(a \cup p) + Cardinality(r)
    <3>1. Cardinality((a \cup p) \cup r)
            = Cardinality(a \cup p) + Cardinality(r) - Cardinality((a \cup p) \cap r)
      BY <2>6, FS_Union
    <3>2. Cardinality((a \cup p) \cap r) = 0
      BY <2>2, FS_EmptySet
    <3>3. Cardinality(a \cup p) \in Nat
      BY <2>7, <2>8
    <3> QED
      BY <2>2, <2>7, <3>1, <3>2, <3>3
  <2>10. Cardinality(a) + Cardinality(p) + Cardinality(r) = Cardinality(all)
    BY <2>7, <2>8, <2>9
  <2> QED
    BY <2>3, <2>4, <2>5, <2>10 DEF PortalAddsUp, a, p, r, all
<1> QED
  BY <1>1, TypeCorrectness, PTL
=============================================================================
