----------------------------- MODULE ListPaging -----------------------------
(***************************************************************************)
(* A client walks through a list page by page while rows are written: the  *)
(* cursor pages of EnquiryRepository, AuditRepository and                   *)
(* WebhookRepository, the index pages of the dead-letter list              *)
(* (AdminController.getDlqJobs) and the GDPR export.                       *)
(*                                                                         *)
(* The query's filters are one predicate: a row is "listed" or "hidden".   *)
(* The list, its order and the entity of an export are chosen in the first *)
(* state.  A page is a set of rows; its order is Before.                   *)
(***************************************************************************)
EXTENDS Naturals, FiniteSets

CONSTANTS
    Id,      \* ids, in the order in which the database compares them
    Limit,   \* the page size
    MaxTime  \* bound of the model: the clock

ASSUME ConstantsOK ==
    /\ Id \subseteq Nat
    /\ IsFiniteSet(Id)
    /\ Limit \in Nat \ {0}
    /\ MaxTime \in Nat

VARIABLES
    query,     \* the list, its sort column and direction, the export's entity
    status,    \* of each row
    row,       \* its kind, its createdAt and the value of the other sort column
    clock,
    page,      \* the ids on the page the client shows; none before the first
    next,      \* nextCursor of that page
    previous,  \* previousCursor of that page
    used,      \* the cursor it was fetched with
    walking,   \* "new", "reading" or "ended" (the last page had no next one)
    seen,      \* history: ids shown in the walk
    twice,     \* history: ids shown again by a Next
    straight,  \* history: only Next was used
    steady,    \* history: ids listed at every moment since the first page
    added,     \* history: jobs that failed during the walk
    removed    \* history: jobs removed from the dead-letter list during it

table   == <<status, row, clock>>
view    == <<page, next, previous, used, walking>>
history == <<seen, twice, straight, steady, added, removed>>
vars == <<query, table, view, history>>

Kind == {"enquiry", "audit"}
Time == 0..MaxTime
Row == [kind : Kind, created : Time, other : Time]
Index(n) == [index |-> n]
None == [none |-> TRUE]     \* no cursor, or one that does not decode
Cursor == {None} \cup [index : Nat] \cup [kind : Kind, created : Time, id : Id]

\* What the DTOs admit.
Query == {q \in [list : {"enquiries", "audits", "events", "jobs", "export"},
                 sortBy : {"created", "other"}, desc : BOOLEAN, entity : Kind \cup {"all"}] :
            /\ IF q.list = "export" THEN q.desc ELSE q.entity = "all"
            /\ q.list \in {"audits", "export"} => q.sortBy = "created"}
NoRow == [kind |-> "enquiry", created |-> 0, other |-> 0]

TypeOK ==
    /\ query \in Query
    /\ status \in [Id -> {"new", "listed", "hidden", "deleted"}]
    /\ row \in [Id -> Row]
    /\ clock \in Time
    /\ page \in SUBSET Id
    /\ next \in Cursor /\ previous \in Cursor /\ used \in Cursor
    /\ used = None => previous = None
    /\ walking \in {"new", "reading", "ended"}
    /\ seen \in SUBSET Id /\ twice \in SUBSET Id /\ steady \in SUBSET Id
    /\ straight \in BOOLEAN
    /\ added \in Nat /\ removed \in Nat

Init ==
    /\ query \in Query
    /\ status = [i \in Id |-> "new"]
    /\ row = [i \in Id |-> NoRow]
    /\ clock = 0
    /\ page = {} /\ next = None /\ previous = None /\ used = None
    /\ walking = "new"
    /\ seen = {} /\ twice = {} /\ steady = {}
    /\ straight = TRUE
    /\ added = 0 /\ removed = 0

-----------------------------------------------------------------------------
(* The order of a list, and the first n of a set of rows in that order. *)

\* The rows that satisfy the query's filters and, in an export, its entity.
Listed == {i \in Id : status[i] = "listed" /\ query.entity \in {row[i].kind, "all"}}

SortKey(i) == IF query.sortBy = "created" THEN row[i].created ELSE row[i].other

Less(t, i, u, j) == t < u \/ (t = u /\ i < j)

\* The order of an index is (column, id), both in the query's direction; the
\* sort of the dead-letter list is stable, ties stay as BullMQ returned them;
\* an export lists the enquiries and then the audit records.
Before(i, j) ==
    IF row[i].kind # row[j].kind THEN row[i].kind = "enquiry"
    ELSE IF ~query.desc          THEN Less(SortKey(i), i, SortKey(j), j)
    ELSE IF query.list = "jobs"  THEN Less(SortKey(j), i, SortKey(i), j)
    ELSE                              Less(SortKey(j), j, SortKey(i), i)

Rank(i, rows) == Cardinality({j \in rows : Before(j, i)})

First(n, rows) == {i \in rows : Rank(i, rows) < n}

-----------------------------------------------------------------------------
(* Cursors. *)

CursorOf(i) == [kind |-> row[i].kind, created |-> row[i].created, id |-> i]

IsLast(i, rows) == i \in rows /\ \A j \in rows \ {i} : Before(j, i)

IsFirst(i, rows) == i \in rows /\ \A j \in rows \ {i} : Before(i, j)

\* Faulty variant: the id does not break ties.
AfterTime(i, c) ==
    \/ c = None
    \/ query.desc /\ row[i].created < c.created
    \/ ~query.desc /\ c.created < row[i].created

\* Faulty variant: the row of the cursor is on the next page again.
AtOrAfter(i, c) ==
    \/ c = None
    \/ query.desc /\ ~Less(c.created, c.id, row[i].created, i)
    \/ ~query.desc /\ ~Less(row[i].created, i, c.created, c.id)

\* The condition compares createdAt and id whatever column the list is sorted by.
After(i, c) ==
    \/ c = None
    \/ query.desc /\ Less(row[i].created, i, c.created, c.id)
    \/ ~query.desc /\ Less(c.created, c.id, row[i].created, i)

-----------------------------------------------------------------------------
(* What one request returns: the page, and whether there is another. *)

\* findMany takes limit + 1 rows to see whether there is more.
KeysetPage(c) ==
    LET left == {i \in Listed : After(i, c)}
    IN [rows |-> First(Limit, left), more |-> Cardinality(left) > Limit]

\* The three repositories build the same query.
FindEnquiries(c) == KeysetPage(c)
FindAuditLogs(c) == KeysetPage(c)
FindEvents(c) == KeysetPage(c)

\* startIndex: the list begins at 0 without a cursor.
Start(c) == IF c = None THEN 0 ELSE c.index

\* Faulty variant: the slice ends one too late.
IndexPageOverlapping(c) ==
    [rows |-> {i \in Listed : Start(c) <= Rank(i, Listed) /\ Rank(i, Listed) <= Start(c) + Limit},
     more |-> Start(c) + Limit < Cardinality(Listed)]

\* All the failed jobs are loaded, sorted and sliced.
IndexPage(c) ==
    [rows |-> {i \in Listed : Start(c) <= Rank(i, Listed) /\ Rank(i, Listed) < Start(c) + Limit},
     more |-> Start(c) + Limit < Cardinality(Listed)]

\* Records of one kind, after the cursor if it is of that kind.
Records(kind, c) ==
    {i \in Listed : row[i].kind = kind /\ (c = None \/ c.kind # kind \/ After(i, c))}

Enquiries(c) == First(Limit + 1, Records("enquiry", c))

\* Audit records are asked for only if the enquiries leave room.
Room(c) ==
    LET taken == Cardinality(Enquiries(c))
    IN IF taken > Limit THEN 0 ELSE Limit - taken

\* Faulty variant: the audit records are asked for no more than the limit leaves.
ExportPageExact(c) ==
    LET found == Enquiries(c) \cup First(Room(c), Records("audit", c))
    IN [rows |-> First(Limit, found), more |-> Cardinality(found) > Limit]

\* Each source is asked for one record more than it may contribute.
ExportPage(c) ==
    LET audits == IF Room(c) = 0 THEN {} ELSE First(Room(c) + 1, Records("audit", c))
        found == Enquiries(c) \cup audits
    IN [rows |-> First(Limit, found), more |-> Cardinality(found) > Limit]

Page(c) ==
    CASE query.list = "enquiries" -> FindEnquiries(c)
      [] query.list = "audits"    -> FindAuditLogs(c)
      [] query.list = "events"    -> FindEvents(c)
      [] query.list = "jobs"      -> IndexPage(c)
      [] query.list = "export"    -> ExportPage(c)

\* The cursor of the last row, if there is more.
NextCursor(c, p) ==
    IF ~p.more THEN {None}
    ELSE IF query.list = "jobs" THEN {Index(Start(c) + Limit)}
    ELSE {CursorOf(i) : i \in {j \in p.rows : IsLast(j, p.rows)}}

\* Faulty variant: the first page has a previous one as well.
PreviousCursorAlways(c, p) ==
    IF p.rows = {} THEN {None} ELSE {CursorOf(i) : i \in {j \in p.rows : IsFirst(j, p.rows)}}

\* The position one page back, unless the page was the first; the cursor of the
\* first row, unless the page was asked for without a cursor.
PreviousCursor(c, p) ==
    IF c = None THEN {None}
    ELSE IF query.list = "jobs"
         THEN {IF c.index = 0 THEN None ELSE Index(IF c.index < Limit THEN 0 ELSE c.index - Limit)}
    ELSE IF p.rows = {} THEN {None}
    ELSE {CursorOf(i) : i \in {j \in p.rows : IsFirst(j, p.rows)}}

Show(c) ==
    LET p == Page(c)
    IN /\ page' = p.rows
       /\ next' \in NextCursor(c, p)
       /\ previous' \in PreviousCursor(c, p)
       /\ used' = c
       /\ walking' = IF p.more THEN "reading" ELSE "ended"
       /\ seen' = seen \cup p.rows

-----------------------------------------------------------------------------
(* The client. *)

FirstPage ==
    /\ walking = "new"
    /\ Show(None)
    /\ steady' = Listed
    /\ UNCHANGED <<query, table, twice, straight, added, removed>>

NextPage ==
    /\ walking = "reading"
    /\ Show(next)
    /\ twice' = twice \cup (seen \cap page')
    /\ UNCHANGED <<query, table, straight, steady, added, removed>>

\* The dashboard's "Previous" button; its cursor is compared like any other.
PreviousPage ==
    /\ previous # None
    /\ Show(previous)
    /\ straight' = FALSE
    /\ UNCHANGED <<query, table, twice, steady, added, removed>>

\* The dashboards ask for the current page again and again.
Refetch ==
    /\ walking # "new"
    /\ Show(used)
    /\ straight' = FALSE
    /\ UNCHANGED <<query, table, twice, steady, added, removed>>

-----------------------------------------------------------------------------
(* The writers. *)

\* createdAt is taken when the statement starts, the row is seen once it commits.
\* A new audit record may be outside the filter until an erasure rewrites it.
Insert(i) ==
    /\ status[i] = "new"
    /\ \E k \in Kind, t \in {clock, clock - 1} \cap Time, o \in Time, s \in {"listed", "hidden"} :
         /\ k = "audit" => query.list = "export"
         /\ query.sortBy = "created" => o = 0
         /\ s = "hidden" => query.list = "audits"
         /\ row' = [row EXCEPT ![i] = [kind |-> k, created |-> t, other |-> o]]
         /\ status' = [status EXCEPT ![i] = s]
    /\ added' = IF query.list = "jobs" /\ walking # "new" THEN added + 1 ELSE added
    /\ UNCHANGED <<query, clock, view, seen, twice, straight, steady, removed>>

\* An update of an enquiry or an event, an erasure included: it may enter or
\* leave the filter.
Touch(i) ==
    /\ query.list \in {"enquiries", "events"}
    /\ status[i] \in {"listed", "hidden"}
    /\ \E s \in {"listed", "hidden"}, o \in Time :
         /\ query.sortBy = "created" => o = 0
         /\ status' = [status EXCEPT ![i] = s]
         /\ row' = [row EXCEPT ![i].other = o]
         /\ steady' = IF s = "hidden" THEN steady \ {i} ELSE steady
    /\ UNCHANGED <<query, clock, view, seen, twice, straight, added, removed>>

\* eraseData, in one transaction: an export loses every record of the email; the
\* audit records whose performedBy is rewritten enter or leave the filter.
Erase ==
    LET present == {i \in Id : status[i] \in {"listed", "hidden"}}
    IN /\ query.list \in {"audits", "export"}
       /\ \E erased \in SUBSET present, s \in {"listed", "hidden"} :
            /\ query.list = "export" => erased = present /\ s = "hidden"
            /\ status' = [i \in Id |-> IF i \in erased THEN s ELSE status[i]]
            /\ steady' = IF s = "hidden" THEN steady \ erased ELSE steady
       /\ UNCHANGED <<query, row, clock, view, seen, twice, straight, added, removed>>

\* Retention deletes events; a retried job leaves the dead-letter list.
Delete(i) ==
    /\ query.list \in {"events", "jobs"}
    /\ status[i] \in {"listed", "hidden"}
    /\ status' = [status EXCEPT ![i] = "deleted"]
    /\ row' = [row EXCEPT ![i] = NoRow]
    /\ steady' = steady \ {i}
    /\ removed' = IF query.list = "jobs" /\ walking # "new" THEN removed + 1 ELSE removed
    /\ UNCHANGED <<query, clock, view, seen, twice, straight, added>>

Tick ==
    /\ clock < MaxTime
    /\ clock' = clock + 1
    /\ UNCHANGED <<query, status, row, view, history>>

Next ==
    \/ FirstPage \/ NextPage \/ PreviousPage \/ Refetch
    \/ \E i \in Id : Insert(i) \/ Touch(i) \/ Delete(i)
    \/ Erase \/ Tick

Spec == Init /\ [][Next]_vars

-----------------------------------------------------------------------------
\* A list whose cursor compares the column it is sorted by.
Keyset ==
    /\ query.list # "jobs" /\ query.sortBy = "created"
    /\ query.list = "export" => query.entity # "all"

(* Following nextCursor through a list sorted by createdAt (or through an   *)
(* export of one entity) never shows a row a second time, whatever is       *)
(* inserted, updated or deleted between the pages.                          *)
NoRowTwice == Keyset /\ straight => twice = {}

(* When the last page of such a walk has been shown, every row that was     *)
(* listed during the whole walk has been: rows that leave the filter or are *)
(* deleted shift no other row out, and neither do Previous and refetches.   *)
NoRowMissed == Keyset /\ walking = "ended" => steady \subseteq seen

(* The dead-letter list counts positions instead: a walk to its end misses  *)
(* at most one job per job removed meanwhile, and repeats at most one per   *)
(* job that failed meanwhile.                                               *)
JobsOff ==
    query.list = "jobs" /\ straight =>
        /\ walking = "ended" => Cardinality(steady \ seen) <= removed
        /\ Cardinality(twice) <= added

(* An export of all entities is complete as long as the enquiries alone do  *)
(* not fill a page; otherwise it ends without the audit records or, once    *)
(* its cursor names an audit record, starts again.                          *)
ExportWithRoomIsComplete ==
    /\ query.list = "export" /\ walking = "ended"
    /\ Cardinality({i \in Listed : row[i].kind = "enquiry"}) < Limit
    => steady \subseteq seen
=============================================================================
