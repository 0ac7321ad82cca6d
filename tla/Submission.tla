----------------------------- MODULE Submission -----------------------------
(***************************************************************************)
(* What POST /enquiry promises, without its checks, caches and markers: a  *)
(* request is answered once, for good, and each answer is justified by the *)
(* rows that the database holds when it is given.  An answer "created"     *)
(* names the row of the request itself, a replayed one the only row of its *)
(* Idempotency-Key; a request refused as a duplicate repeats a row.        *)
(***************************************************************************)
CONSTANTS Request, Key, NoKey, Pair, NoEnquiry

VARIABLES
    key, pair,   \* of each request (never change)
    rows,        \* requests whose enquiry is committed
    outcome,     \* what each was told, "none" before
    answer       \* the enquiry its answer names

vars == <<key, pair, rows, outcome, answer>>

Init ==
    /\ key \in [Request -> Key \cup {NoKey}]
    /\ pair \in [Request -> Pair]
    /\ rows = {}
    /\ outcome = [r \in Request |-> "none"]
    /\ answer = [r \in Request |-> NoEnquiry]

SameKey(r, e) == key[r] # NoKey /\ key[e] = key[r]

Tell(r, result, enquiry) ==
    /\ outcome[r] = "none"
    /\ outcome' = [outcome EXCEPT ![r] = result]
    /\ answer' = [answer EXCEPT ![r] = enquiry]
    /\ UNCHANGED <<key, pair>>

\* The row is committed; the handler may not learn of it.
Commit(r) ==
    /\ r \notin rows
    /\ \A e \in rows : ~SameKey(r, e)
    /\ rows' = rows \cup {r}
    /\ \/ outcome[r] = "none" /\ UNCHANGED <<key, pair, outcome, answer>>
       \/ Tell(r, "error", NoEnquiry)

Create(r) == r \in rows /\ Tell(r, "created", r) /\ UNCHANGED rows

Replay(r) ==
    /\ r \notin rows
    /\ \E e \in rows : SameKey(r, e) /\ Tell(r, "replayed", e)
    /\ UNCHANGED rows

Refuse(r) ==
    /\ r \notin rows
    /\ \E e \in rows :
         \/ pair[e] = pair[r] /\ Tell(r, "duplicate", NoEnquiry)
         \/ SameKey(r, e) /\ Tell(r, "uniqueConflict", NoEnquiry)
    /\ UNCHANGED rows

Fail(r) == r \notin rows /\ Tell(r, "error", NoEnquiry) /\ UNCHANGED rows

\* A worker dies with the requests it serves, committed or not.
Drop(served) ==
    /\ \A r \in served : outcome[r] = "none"
    /\ outcome' = [r \in Request |-> IF r \in served THEN "dropped" ELSE outcome[r]]
    /\ UNCHANGED <<key, pair, rows, answer>>

Next ==
    \/ \E r \in Request : Commit(r) \/ Create(r) \/ Replay(r) \/ Refuse(r) \/ Fail(r)
    \/ \E served \in SUBSET Request : Drop(served)

Spec == Init /\ [][Next]_vars
=============================================================================
