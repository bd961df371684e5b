------------------------------- MODULE Listings -------------------------------
(***************************************************************************)
(* The paginated listings: findMany with where, orderBy, skip and take,    *)
(* then count with the same where, two statements that each see what is    *)
(* committed by then.  A client walks the pages from the first one until   *)
(* page * pageSize reaches the total it was told; between two statements   *)
(* and between two pages the listing changes.                              *)
(*                                                                         *)
(* What may happen to a listing depends on its where and its orderBy:      *)
(* rows are inserted at the front; a row of the table may begin or cease   *)
(* to be selected where it stands; if the order is by updatedAt, any       *)
(* update moves the row to the front.                                      *)
(***************************************************************************)
EXTENDS Integers, FiniteSets

CONSTANTS
  Rows,       \* rows of the listed table
  PageSizes,  \* pageSize of the query
  MaxEvents   \* bound: changes of the listing

VARIABLES
  feed,      \* which listing it is
  place,     \* place of a row in the orderBy, 1 for the newest; 0 if not in the table
  selected,  \* rows that the where clause selects
  stage,     \* none, rows, count or done: how far the client's walk is
  size,      \* its pageSize
  page,      \* the page it asks for
  seen,      \* times a row was on a page of the walk
  steady,    \* history: rows selected all along the walk that did not move
  gone,      \* history: departures during the walk
  came,      \* history: arrivals and moves to the front during the walk
  events     \* bound counter of MaxEvents

table == <<place, selected>>
walk == <<stage, size, page, seen>>
history == <<steady, gone, came>>
listVars == <<feed, table, walk, history, events>>

-----------------------------------------------------------------------------
(* The listings: whether a new row is selected, and what updates do to it.   *)

(* Open invoices by createdAt: accepted ones enter, fully funded ones leave. *)
Marketplace == [born |-> FALSE, enters |-> TRUE, leaves |-> TRUE]
(* An investor's holdings by acquiredAt. *)
Portfolio == [born |-> TRUE, enters |-> FALSE, leaves |-> FALSE]
(* A user's unread notifications by createdAt: markRead takes them out. *)
UnreadInbox == [born |-> TRUE, enters |-> FALSE, leaves |-> TRUE]
(* The ledger's confirmed or failed events by createdAt. *)
SettledLedger == [born |-> FALSE, enters |-> TRUE, leaves |-> FALSE]
(* The invoices of a business, or of a buyer, with one status. *)
BusinessInvoices == [born |-> TRUE, enters |-> FALSE, leaves |-> TRUE]
BuyerInvoices == [born |-> FALSE, enters |-> TRUE, leaves |-> TRUE]

Feeds == {Marketplace, Portfolio, UnreadInbox, SettledLedger, BusinessInvoices, BuyerInvoices}

(* What a client can be shown are the selected rows; r is the Rank(r)-th.   *)
Rank(r) == Cardinality({q \in selected : place[q] <= place[r]})

Init ==
  /\ place = [r \in Rows |-> 0]
  /\ selected = {}
  /\ stage = "none"
  /\ size \in PageSizes
  /\ page = 0
  /\ seen = [r \in Rows |-> 0]
  /\ steady = {}
  /\ gone = 0
  /\ came = 0
  /\ events = 0

Walking == stage \in {"rows", "count"}

(* The table changes to newPlace and newSelected; moved are the rows that    *)
(* an update took to the front.                                              *)
Change(newPlace, newSelected, moved) ==
  /\ place' = newPlace
  /\ selected' = newSelected
  /\ steady' = (steady \cap newSelected) \ moved
  /\ IF Walking
     THEN /\ gone' = gone + Cardinality(selected \ newSelected)
          /\ came' = came + Cardinality((newSelected \ selected) \cup (newSelected \cap moved))
     ELSE UNCHANGED <<gone, came>>
  /\ UNCHANGED <<feed, walk>>

Counted == events < MaxEvents /\ events' = events + 1

(* The places once r, new or in the table, is the newest. *)
InFront(r) == [q \in Rows |->
  IF q = r THEN 1
  ELSE IF place[q] > 0 /\ (place[r] = 0 \/ place[q] < place[r]) THEN place[q] + 1
  ELSE place[q]]

Insert(r) ==
  /\ place[r] = 0
  /\ Change(InFront(r), IF feed.born THEN selected \cup {r} ELSE selected, {})
  /\ Counted

Enter(r) ==
  /\ feed.enters
  /\ place[r] > 0 /\ r \notin selected
  /\ Change(place, selected \cup {r}, {})
  /\ Counted

Leave(r) ==
  /\ feed.leaves
  /\ r \in selected
  /\ Change(place, selected \ {r}, {})
  /\ Counted

-----------------------------------------------------------------------------
(* The client. *)

StartWalk ==
  /\ stage = "none"
  /\ stage' = "rows"
  /\ page' = 1
  /\ steady' = selected
  /\ UNCHANGED <<feed, table, size, seen, gone, came, events>>

(* skip; by mistake with pages counted from zero, or one row short. *)
SkippedFromZero == page * size
SkippedOneLess == IF page = 1 THEN 0 ELSE (page - 1) * size - 1
Skipped == (page - 1) * size

Page == {r \in selected : Rank(r) \in Skipped + 1 .. Skipped + size}

(* findMany: the rows of the page. *)
ReadRows ==
  /\ stage = "rows"
  /\ seen' = [r \in Rows |-> IF r \in Page THEN seen[r] + 1 ELSE seen[r]]
  /\ stage' = "count"
  /\ UNCHANGED <<feed, table, size, page, history, events>>

(* count, and the answer: the client goes on while there are more rows. *)
ReadTotal ==
  /\ stage = "count"
  /\ IF page * size < Cardinality(selected) THEN stage' = "rows" /\ page' = page + 1
                                   ELSE stage' = "done" /\ UNCHANGED page
  /\ UNCHANGED <<feed, table, size, seen, history, events>>

Walk == StartWalk \/ ReadRows \/ ReadTotal

Next == Walk \/ \E r \in Rows : Insert(r) \/ Enter(r) \/ Leave(r)

-----------------------------------------------------------------------------
(* MissedOnlyByDepartures: of the rows that were in the listing from the     *)
(* walk's first page to its last and did not move, the client misses at most *)
(* one for each row that left meanwhile.                                     *)
MissedOnlyByDepartures ==
  stage = "done" => Cardinality({r \in steady : seen[r] = 0}) <= gone

(* RepeatedOnlyByArrivals: the client is shown a row again at most once for  *)
(* each row that arrived or moved to the front meanwhile.                    *)
RepeatedOnlyByArrivals == Cardinality(UNION {{r} \X (2 .. seen[r]) : r \in Rows}) <= came

=============================================================================
