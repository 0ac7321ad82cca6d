---------------------------- MODULE OfflineQueue ----------------------------
(***************************************************************************)
(* Enquiries submitted while the browser is offline: the localStorage      *)
(* queue of OfflineQueue.ts, the effects of OfflineBanner that flush it,   *)
(* and the POSTs of apiClient, in one tab.                                 *)
(*                                                                         *)
(* A flush reads the queue once, awaits one POST per item, and at its end  *)
(* stores the items that failed over whatever the queue holds by then.     *)
(* The backend refuses a row of an enquiry it has taken less than ten      *)
(* minutes ago (EnquirySubmission), every attempt having a key of its own. *)
(***************************************************************************)
EXTENDS Naturals, Sequences

CONSTANTS
    Item,     \* enquiries the user submits while offline
    Flush,    \* names for flushes in progress, a bound on their number
    MaxRows   \* bound on the rows the backend makes of one enquiry

ASSUME ConstantsOK == MaxRows \in Nat

VARIABLES
    online,       \* useOnlineStatus
    queue,        \* localStorage offline_submissions
    pendingCount, \* React state of OfflineBanner
    flush,        \* the flushes in progress
    submitted,    \* enquiries the user has been told are queued
    overlapped,   \* history: those queued while a flush was in progress
    rows,         \* rows of each enquiry at the backend
    recent        \* enquiries with a row younger than ten minutes

user    == <<submitted, overlapped>>
backend == <<rows, recent>>
vars == <<online, queue, pendingCount, flush, user, backend>>

FlushState == [active : BOOLEAN, todo : Seq(Item), kept : Seq(Item), current : BOOLEAN]
Idle == [active |-> FALSE, todo |-> <<>>, kept |-> <<>>, current |-> FALSE]

TypeOK ==
    /\ online \in BOOLEAN
    /\ queue \in Seq(Item)
    /\ pendingCount \in Nat
    /\ flush \in [Flush -> FlushState]
    /\ submitted \in SUBSET Item
    /\ overlapped \in SUBSET submitted
    /\ rows \in [Item -> 0..MaxRows]
    /\ recent \in SUBSET Item

Init ==
    /\ online \in BOOLEAN
    /\ queue = <<>>
    /\ pendingCount = 0
    /\ flush = [f \in Flush |-> Idle]
    /\ submitted = {}
    /\ overlapped = {}
    /\ rows = [i \in Item |-> 0]
    /\ recent = {}

-----------------------------------------------------------------------------
InProgress == {f \in Flush : flush[f].active}
Free == Flush \ InProgress

\* flush() up to its first POST; it is current until the effect that started it
\* is cleaned up.
Start(items, current) == [active |-> TRUE, todo |-> items, kept |-> <<>>, current |-> current]

CleanedUp == [f \in Flush |-> [flush[f] EXCEPT !.current = FALSE]]

\* onSubmit while offline.
Enqueue(i) ==
    /\ ~online /\ i \notin submitted
    /\ queue' = Append(queue, i)
    /\ submitted' = submitted \cup {i}
    /\ overlapped' = IF InProgress # {} THEN overlapped \cup {i} ELSE overlapped
    /\ UNCHANGED <<online, pendingCount, flush, backend>>

\* Both effects run on the change of isOnline, the second with the old count.
GoOffline ==
    /\ online
    /\ online' = FALSE
    /\ pendingCount' = Len(queue)
    /\ flush' = CleanedUp
    /\ UNCHANGED <<queue, user, backend>>

\* Faulty variant: the count is not refreshed when the status changes.
GoOnlineWithOldCount ==
    /\ ~online
    /\ online' = TRUE
    /\ IF pendingCount > 0 /\ queue # <<>>
       THEN \E f \in Free : flush' = [CleanedUp EXCEPT ![f] = Start(queue, TRUE)]
       ELSE flush' = CleanedUp
    /\ UNCHANGED <<queue, pendingCount, user, backend>>

\* The auto-flush runs with the old count, and again, after the cleanup of the
\* first run, when the refresh of the count has changed it.
GoOnline ==
    /\ ~online
    /\ online' = TRUE
    /\ pendingCount' = Len(queue)
    /\ LET first == pendingCount > 0 /\ queue # <<>>
           again == Len(queue) \notin {0, pendingCount}
       IN CASE first /\ again ->
                 \E f, g \in Free :
                    /\ f # g
                    /\ flush' = [CleanedUp EXCEPT ![f] = Start(queue, FALSE), ![g] = Start(queue, TRUE)]
            [] first # again ->
                 \E f \in Free : flush' = [CleanedUp EXCEPT ![f] = Start(queue, TRUE)]
            [] OTHER -> flush' = CleanedUp
    /\ UNCHANGED <<queue, user, backend>>

\* apiClient.post with its retries.  An answer can be lost after the backend
\* made the row: the retry, under a new key, is refused as a duplicate.
Created(i) ==
    /\ i \notin recent /\ rows[i] < MaxRows
    /\ rows' = [rows EXCEPT ![i] = @ + 1]
    /\ recent' = recent \cup {i}

PostItem(f) ==
    /\ flush[f].active /\ flush[f].todo # <<>>
    /\ LET i == Head(flush[f].todo)
           Keep(kept) == flush' = [flush EXCEPT ![f] =
                           [active |-> TRUE, todo |-> Tail(@.todo), kept |-> kept, current |-> @.current]]
       IN \/ Created(i) /\ Keep(flush[f].kept)
          \/ (Created(i) \/ UNCHANGED backend) /\ Keep(Append(flush[f].kept, i))
    /\ UNCHANGED <<online, queue, pendingCount, user>>

\* Faulty variant: items that failed are forgotten.
SaveNothing(f) == <<>>
Remaining(f) == flush[f].kept

\* saveQueue, then the callback of the banner unless it was cleaned up: a
\* changed count runs the auto-flush again.
FinishFlush(f) ==
    /\ flush[f].active /\ flush[f].todo = <<>>
    /\ queue' = Remaining(f)
    /\ IF flush[f].current
       THEN /\ pendingCount' = Len(queue')
            /\ flush' = [flush EXCEPT ![f] =
                    IF pendingCount' \notin {0, pendingCount} THEN Start(queue', TRUE)
                    ELSE Idle]
       ELSE /\ flush' = [flush EXCEPT ![f] = Idle]
            /\ UNCHANGED pendingCount
    /\ UNCHANGED <<online, user, backend>>

\* The page is loaded again: what was in flight is gone, the queue is not.
Reload ==
    /\ pendingCount' = Len(queue)
    /\ IF online /\ queue # <<>>
       THEN \E f \in Flush : flush' = [g \in Flush |-> IF g = f THEN Start(queue, TRUE) ELSE Idle]
       ELSE flush' = [f \in Flush |-> Idle]
    /\ UNCHANGED <<online, queue, user, backend>>

WindowPasses(i) ==
    /\ i \in recent
    /\ recent' = recent \ {i}
    /\ UNCHANGED <<online, queue, pendingCount, flush, user, rows>>

Next ==
    \/ \E i \in Item : Enqueue(i) \/ WindowPasses(i)
    \/ \E f \in Flush : PostItem(f) \/ FinishFlush(f)
    \/ GoOffline \/ GoOnline \/ Reload

Spec == Init /\ [][Next]_vars

-----------------------------------------------------------------------------
(* Properties. *)

Queued == {queue[n] : n \in 1..Len(queue)}

\* An enquiry the user was told is queued is in the queue until the backend has
\* it, however many flushes overlap, fail or die with the page -- unless it was
\* queued while a flush was in progress.
LostOnlyByOverlap ==
    \A i \in submitted : i \in Queued \/ rows[i] > 0 \/ i \in overlapped

\* At most one flush reports to the banner, and only while online.
OneCurrentFlush ==
    \A f, g \in InProgress : flush[f].current /\ flush[g].current => f = g /\ online

\* A queue found at the reconnect is tried: some flush of it starts at once.
ReconnectFlushes ==
    [][~online /\ online' /\ queue # <<>> =>
        \E f \in Flush : flush'[f].current /\ flush'[f].todo = queue]_vars
=============================================================================
