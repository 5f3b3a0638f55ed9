------------------------------ MODULE Listing ------------------------------
(***************************************************************************)
(* A client that reads a list page by page while rows come and go.         *)
(* The list endpoints of internal/usecase/{job,schedule,buffer,billing}.go *)
(* and internal/http/handler/webhook.go over the List... methods of        *)
(* internal/infrastructure/postgres.                                       *)
(*                                                                         *)
(* A row is its sort key <<time, id>>; rows with the same time are told    *)
(* apart by the id.  rows are those that match the request, so a row also  *)
(* comes or goes when its status changes under a filter.  A page is        *)
(* fetched with one row more than it shows, and that row tells that there  *)
(* is another page.  A cursor carries a sort key without loss.             *)
(***************************************************************************)
EXTENDS Naturals, FiniteSets

CONSTANTS
    Time, Id,     \* sort keys are Time \X Id
    DefaultPage,  \* page size if the client asks for none
    MaxPage,      \* largest page size
    Asked         \* what a client may ask for; 0 for nothing

ASSUME ListAssumption ==
    /\ Time \subseteq Nat /\ IsFiniteSet(Time)
    /\ Id \subseteq Nat /\ IsFiniteSet(Id)
    /\ DefaultPage \in Nat \ {0} /\ MaxPage \in Nat \ {0}
    /\ Asked \subseteq Nat

VARIABLES
    endpoint,  \* the list that is read
    asked,     \* the page size in the request
    rows,      \* the matching rows
    cursor,    \* next_cursor of the last page; <<>> before the first
    reading,   \* "yes" until a page comes without a cursor
    shown,     \* rows on the pages so far
    steady,    \* rows that have been there all along
    breaks     \* rows that were fetched to see whether there is another page

walk == <<cursor, reading, shown, breaks>>
listVars == <<endpoint, asked, rows, walk, steady>>

Row == Time \X Id
Sentinel == {"jobs", "schedules", "schedule jobs", "buffers", "items"}
LastRow == {"transactions", "deliveries"}

ListInit ==
    /\ endpoint \in Sentinel \cup LastRow
    /\ asked \in Asked
    /\ rows \in SUBSET Row
    /\ cursor = <<>> /\ reading = "yes"
    /\ shown = {} /\ breaks = {}
    /\ steady = rows

InsertRow(r) ==
    /\ r \notin rows
    /\ rows' = rows \cup {r}
    /\ UNCHANGED <<endpoint, asked, walk, steady>>

DeleteRow(r) ==
    /\ r \in rows
    /\ rows' = rows \ {r}
    /\ steady' = steady \ {r}
    /\ UNCHANGED <<endpoint, asked, walk>>

-----------------------------------------------------------------------------
(* One page *)

\* (time, id) < (cursor time, cursor id)
Before(r, c) == r[1] < c[1] \/ (r[1] = c[1] /\ r[2] < c[2])

\* WHERE ... ORDER BY time DESC, id DESC LIMIT n
Fetch(n) ==
    LET R == {r \in rows : cursor = <<>> \/ Before(r, cursor)}
    IN  {r \in R : Cardinality({q \in R : Before(r, q)}) < n}

Oldest(R) == CHOOSE r \in R : \A q \in R : r = q \/ Before(r, q)

\* The whole page is shown, and there is no cursor.
LastPage(page) ==
    /\ shown' = shown \cup page
    /\ reading' = "no"
    /\ UNCHANGED <<cursor, breaks>>

\* One row is kept back; next is the cursor.
FullPage(page, next) ==
    /\ shown' = shown \cup (page \ {Oldest(page)})
    /\ breaks' = breaks \cup {Oldest(page)}
    /\ cursor' = next
    /\ UNCHANGED reading

\* The cursor is the row that was kept back.
SentinelPage(n) ==
    LET page == Fetch(n + 1)
    IN  IF Cardinality(page) = n + 1 THEN FullPage(page, Oldest(page)) ELSE LastPage(page)

\* Bug: the cursor is the row that was kept back.
FaultyLastRowPage(n) == SentinelPage(n)
\* The cursor is the last row shown.
LastRowPage(n) ==
    LET page == Fetch(n + 1)
    IN  IF Cardinality(page) = n + 1
        THEN FullPage(page, Oldest(page \ {Oldest(page)}))
        ELSE LastPage(page)

-----------------------------------------------------------------------------
(* The endpoints and the page sizes they allow *)

Clamped == IF asked = 0 THEN DefaultPage ELSE IF asked > MaxPage THEN MaxPage ELSE asked

Read(list) ==
    /\ endpoint = list /\ reading = "yes"
    /\ UNCHANGED <<endpoint, asked, rows, steady>>

ListJobs == Read("jobs") /\ SentinelPage(Clamped)
ListSchedules == Read("schedules") /\ SentinelPage(Clamped)
ListScheduleJobs == Read("schedule jobs") /\ SentinelPage(Clamped)
ListBuffers == Read("buffers") /\ SentinelPage(Clamped)
ListItems == Read("items") /\ SentinelPage(Clamped)
ListDeliveries == Read("deliveries") /\ LastRowPage(Clamped)
\* A size that is too large counts as none.
ListTransactions ==
    /\ Read("transactions")
    /\ LastRowPage(IF asked = 0 \/ asked > MaxPage THEN DefaultPage ELSE asked)

ListNext ==
    \/ \E r \in Row : InsertRow(r) \/ DeleteRow(r)
    \/ ListJobs \/ ListSchedules \/ ListScheduleJobs \/ ListBuffers \/ ListItems
    \/ ListDeliveries \/ ListTransactions

ListSpec == ListInit /\ [][ListNext]_listVars

-----------------------------------------------------------------------------
(* Correctness properties *)

\* A client that follows the cursors of the ledger or of the deliveries to the
\* end has seen every row that was there all along, and no row twice: what comes
\* next is older than what was shown.
WalkComplete ==
    endpoint \in LastRow =>
        /\ reading = "no" => steady \subseteq shown
        /\ \A r \in shown : reading = "no" \/ ~Before(r, cursor)

\* "List all items in a buffer (paginates). Returns the full array." (listAllItems
\* of the stress tests): a client that follows the cursors of a buffer's items to
\* the end has seen every item that was there all along.
ItemsComplete == endpoint = "items" /\ reading = "no" => steady \subseteq shown
=============================================================================
