---------------------------- MODULE InvoicePages ----------------------------
(***************************************************************************)
(* The list of invoices, read page by page while invoices are created and  *)
(* change their status: GET /api/v1/invoices, listInvoices, and what the   *)
(* pages of the portal make of the rows.                                   *)
(*                                                                         *)
(* A page ends with a cursor that names the created_at and the id of its   *)
(* last row.  The client library hands created_at out as a Date, and the   *)
(* text of a Date has no fraction of a second, so the next page starts at  *)
(* the beginning of that second.                                           *)
(***************************************************************************)
EXTENDS Integers, FiniteSets

CONSTANTS
    N,            \* invoices are named by their ids, 1 to N, in the order of uuids
    PerSecond,    \* how many values created_at has within a second
    MaxTime,      \* when the last invoice is created
    Limits,       \* limits a client asks for
    MaxLimit,     \* the largest page: 200
    MaxChanges    \* how often an invoice changes its status

ASSUME PagesAssumption ==
    /\ N \in Nat
    /\ PerSecond \in Nat \ {0}
    /\ MaxTime \in Nat \ {0}
    /\ Limits \subseteq Int
    /\ MaxLimit \in Nat \ {0}
    /\ MaxChanges \in Nat

Invoice == 1..N
Any == "any"

\* invoices.status: "NEW", the stages of the pipeline, and what SYNC_STATUS makes of
\* the PDP's answers.
Status == {"NEW", "FETCHED", "MAPPED", "GENERATED", "SUBMITTED",
           "SYNCED", "ACCEPTED", "REJECTED", "PAID", "ERROR"}

VARIABLES
    now,         \* the clock of the database
    created,     \* created[i]: created_at, 0 before
    status,      \* invoices.status
    changes,     \* changes of a status so far
    walk,        \* the client's walk through the pages: its state, limit, filter
                 \*   on the status, and the cursor of the next page
    loaded,      \* loaded[i]: the status of i as the walk has got it, or "none"
    present,     \* invoices that have matched since the walk began
    repeated     \* has the walk got an invoice twice?

dbVars == <<now, created, status, changes>>
walkVars == <<walk, loaded, present, repeated>>
vars == <<now, created, status, changes, walk, loaded, present, repeated>>

NoCursor == [time |-> 0, id |-> 0]
AtRest == [state |-> "rest", limit |-> 1, filter |-> Any, cursor |-> NoCursor]

Init ==
    /\ now = 1
    /\ created = [i \in Invoice |-> 0]
    /\ status = [i \in Invoice |-> "NEW"]
    /\ changes = 0
    /\ walk = AtRest
    /\ loaded = [i \in Invoice |-> "none"]
    /\ present = {}
    /\ repeated = FALSE

-----------------------------------------------------------------------------
(***************************************************************************)
(* The database.                                                           *)
(***************************************************************************)
Existing == {i \in Invoice : created[i] > 0}

Tick ==
    /\ now < MaxTime
    /\ now' = now + 1
    /\ UNCHANGED <<created, status, changes, walkVars>>

\* An id is random, so it says nothing about the order of creation.
Create(i) ==
    /\ created[i] = 0
    /\ created' = [created EXCEPT ![i] = now]
    /\ UNCHANGED <<now, status, changes, walkVars>>

Matches(i, s, filter) == filter = Any \/ s = filter

\* updateInvoiceStatus
ChangeStatus(i, s) ==
    /\ i \in Existing
    /\ changes < MaxChanges
    /\ status' = [status EXCEPT ![i] = s]
    /\ changes' = changes + 1
    /\ present' = IF Matches(i, s, walk.filter) THEN present ELSE present \ {i}
    /\ UNCHANGED <<now, created, walk, loaded, repeated>>

-----------------------------------------------------------------------------
(***************************************************************************)
(* GET /api/v1/invoices.                                                   *)
(***************************************************************************)

\* (created_at, id) < (time, id), the order of the list backwards.
Before(time, id, otherTime, otherId) ==
    time < otherTime \/ (time = otherTime /\ id < otherId)

\* Mutant: the limit of the request is taken as it is.
UnclampedLimit(limit) == limit

ClampedLimit(limit) ==
    IF limit < 1 THEN 1 ELSE IF limit > MaxLimit THEN MaxLimit ELSE limit

\* Mutant: rows of the time of the cursor are not left out by their id.
ListedAfterTime(filter, cursor) ==
    {i \in Existing : /\ Matches(i, status[i], filter)
                      /\ cursor = NoCursor \/ created[i] <= cursor.time}

Listed(filter, cursor) ==
    {i \in Existing : /\ Matches(i, status[i], filter)
                      /\ cursor = NoCursor \/ Before(created[i], i, cursor.time, cursor.id)}

\* The newest rows of the list, as many as the limit allows.
listInvoices(limit, filter, cursor) ==
    LET rows == Listed(filter, cursor)
    IN {i \in rows : Cardinality({k \in rows : Before(created[i], i, created[k], k)})
                        < ClampedLimit(limit)}

LastOf(page) ==
    CHOOSE i \in page : \A k \in page \ {i} : Before(created[i], i, created[k], k)

\* Mutant: the time is rounded up.
SecondRoundedUp(time) == time - (time % PerSecond) + PerSecond

\* The text of a Date ends with the second.
SecondOf(time) == time - (time % PerSecond)

nextCursor(page) == [time |-> SecondOf(created[LastOf(page)]), id |-> LastOf(page)]

StartWalk(limit, filter) ==
    /\ walk.state # "open"
    /\ walk' = [state |-> "open", limit |-> limit, filter |-> filter, cursor |-> NoCursor]
    /\ loaded' = [i \in Invoice |-> "none"]
    /\ present' = {i \in Existing : Matches(i, status[i], filter)}
    /\ repeated' = FALSE
    /\ UNCHANGED dbVars

\* The next page; without rows there is no further cursor, and the walk is done.
GetPage ==
    LET page == listInvoices(walk.limit, walk.filter, walk.cursor) IN
    /\ walk.state = "open"
    /\ walk' = IF page = {} THEN [walk EXCEPT !.state = "done"]
                            ELSE [walk EXCEPT !.cursor = nextCursor(page)]
    /\ loaded' = [i \in Invoice |-> IF i \in page THEN status[i] ELSE loaded[i]]
    /\ repeated' = (repeated \/ \E i \in page : loaded[i] # "none")
    /\ UNCHANGED <<dbVars, present>>

\* PostgreSQL may not take the text of a Date for a time: status 500.
PageRefused ==
    /\ walk.state = "open"
    /\ walk.cursor # NoCursor
    /\ walk' = [walk EXCEPT !.state = "error"]
    /\ UNCHANGED <<dbVars, loaded, present, repeated>>

Next ==
    \/ Tick
    \/ \E i \in Invoice : Create(i) \/ \E s \in Status : ChangeStatus(i, s)
    \/ \E limit \in Limits, filter \in {Any, "NEW"} : StartWalk(limit, filter)
    \/ GetPage
    \/ PageRefused

Spec == Init /\ [][Next]_vars

-----------------------------------------------------------------------------
(***************************************************************************)
(* What the portal shows of the rows it has loaded.                        *)
(***************************************************************************)

\* Mutant: SYNCED is shown as it is.
displayStatusWithoutSynced(s) ==
    CASE s \in {"NEW", "FETCHED", "MAPPED", "GENERATED"} -> "Processing"
      [] s = "SUBMITTED" -> "Pending"
      [] s = "ACCEPTED"  -> "Accepted"
      [] s = "REJECTED"  -> "Rejected"
      [] s = "PAID"      -> "Paid"
      [] s = "ERROR"     -> "Error"
      [] OTHER           -> s

displayStatus(s) ==
    CASE s \in {"NEW", "FETCHED", "MAPPED", "GENERATED"} -> "Processing"
      [] s \in {"SUBMITTED", "SYNCED"} -> "Pending"
      [] s = "ACCEPTED" -> "Accepted"
      [] s = "REJECTED" -> "Rejected"
      [] s = "PAID"     -> "Paid"
      [] s = "ERROR"    -> "Error"
      [] OTHER          -> s

matchesFilter(label, filter) ==
    CASE filter = "Accepted" -> label \in {"Accepted", "Paid"}
      [] filter = "Pending"  -> label \in {"Pending", "Processing"}
      [] filter = "Rejected" -> label \in {"Rejected", "Error"}
      [] OTHER               -> TRUE

Rows == {i \in Invoice : loaded[i] # "none"}

\* The rows of the list under a filter.
Shown(filter) == {i \in Rows : matchesFilter(displayStatus(loaded[i]), filter)}

\* The rows that dashboard and list count as accepted, pending and rejected.
Counted(labels) == {i \in Rows : displayStatus(loaded[i]) \in labels}
Accepted == Counted({"Accepted", "Paid"})
Pending == Counted({"Pending", "Processing"})
Rejected == Counted({"Rejected", "Error"})

\* The funnel of the dashboard.
Mapped == {i \in Rows : loaded[i] \notin {"NEW", "FETCHED"}}
Submitted == {i \in Rows : loaded[i] \in
                {"SUBMITTED", "SYNCED", "ACCEPTED", "REJECTED", "PAID", "ERROR"}}

-----------------------------------------------------------------------------
TypeOK ==
    /\ now \in 1..MaxTime
    /\ created \in [Invoice -> 0..now]
    /\ status \in [Invoice -> Status]
    /\ changes \in 0..MaxChanges
    /\ walk \in [state : {"rest", "open", "done", "error"}, limit : Limits \cup {1},
                 filter : Status \cup {Any},
                 cursor : [time : 0..MaxTime, id : {0} \cup Invoice]]
    /\ loaded \in [Invoice -> Status \cup {"none"}]
    /\ present \subseteq Existing
    /\ repeated \in BOOLEAN

(***************************************************************************)
(* A walk never gets an invoice twice, although the cursor is less exact   *)
(* than the order, and whatever is created or changed between its pages.   *)
(***************************************************************************)
NothingIsRepeated == ~repeated

\* The walk has got an invoice created within the same second as i.
HasItsSecond(i) == \E k \in Rows : SecondOf(created[k]) = SecondOf(created[i])

(***************************************************************************)
(* A walk that comes to its end has got every invoice that was there when  *)
(* it began and has matched since, except such as were created within the  *)
(* same second as one it has got.                                          *)
(***************************************************************************)
MissedOnlyWithinASecond ==
    walk.state = "done" => \A i \in present \ Rows : HasItsSecond(i)

(***************************************************************************)
(* The portal counts the rows it has loaded by one code and filters them   *)
(* by another: each of the three numbers is that of the rows its filter    *)
(* shows, together they are all rows, and the stages of the funnel, which  *)
(* goes by raw statuses, contain each other and what is decided.           *)
(***************************************************************************)
PortalAddsUp ==
    /\ Accepted = Shown("Accepted") /\ Pending = Shown("Pending") /\ Rejected = Shown("Rejected")
    /\ Cardinality(Accepted) + Cardinality(Pending) + Cardinality(Rejected) = Cardinality(Rows)
    /\ Accepted \cup Rejected \subseteq Submitted
    /\ Submitted \subseteq Mapped

(***************************************************************************)
(* The inductive invariant of a walk: what it has got is behind its        *)
(* cursor, and what is behind its cursor it has got, or missed within a    *)
(* second.                                                                 *)
(***************************************************************************)
Behind(i) ==
    /\ walk.cursor # NoCursor
    /\ ~Before(created[i], i, walk.cursor.time, walk.cursor.id)

WalkFits ==
    /\ Rows \subseteq Existing
    /\ \A i \in present : Matches(i, status[i], walk.filter)
    /\ walk.state = "open" => \A i \in Rows : Behind(i)
    /\ walk.state = "open" => \A i \in present \ Rows : Behind(i) => HasItsSecond(i)

PagesInv == TypeOK /\ WalkFits /\ NothingIsRepeated /\ MissedOnlyWithinASecond

=============================================================================
