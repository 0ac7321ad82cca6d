------------------------------ MODULE Browser ------------------------------
(***************************************************************************)
(* One tab of the frontend: the enquiry form, with the attempts apiClient  *)
(* makes for a submission, and the property list with its Load More.  The  *)
(* backend checks for a recent row and inserts one in two steps, of which  *)
(* EnquirySubmission has the detail; an answer, or an attempt, can be lost.*)
(*                                                                         *)
(* A draft stands for the email and the property of an enquiry.  The tab   *)
(* is online: what the form does offline is in OfflineQueue.               *)
(***************************************************************************)
EXTENDS Naturals, FiniteSets, Sequences

CONSTANTS
    Draft,
    Mutation,    \* submissions under way at a time, a bound of the model
    Attempt,     \* requests at the backend at a time, a bound of the model
    MaxRetries,  \* attempts of a submission
    Pages,       \* pages the catalogue has
    MaxShown     \* bound of the model: pages in the list

ASSUME BrowserConstantsOK ==
    /\ "empty" \notin Draft /\ "nobody" \notin Mutation /\ IsFiniteSet(Attempt)
    /\ MaxRetries \in Nat \ {0} /\ Pages \in Nat \ {0} /\ MaxShown \in Nat \ {0}

VARIABLES
    page,      \* the page that is mounted
    draft,     \* what the form's fields hold
    mutation,  \* the submissions, those of an unmounted form included
    request,   \* the requests at the backend
    made,      \* rows of the last ten minutes
    assured,   \* history: drafts the user was told are stored
    crowded,   \* history: drafts with two requests at the backend at once
    list,      \* properties: the pages in the Apollo entry, in order
    cursor,    \* pageInfo: the page endCursor stands for, 0 for none
    hasNext,   \* pageInfo.hasNextPage
    searching, \* a search whose result is awaited
    error,     \* the search failed: "Properties temporarily unavailable"
    more,      \* the pages fetchMore awaits
    mixed,     \* history: a search overtook a fetchMore
    outage     \* history: the catalogue was down for an answer

form  == <<draft, mutation, request, made, assured, crowded>>
shown == <<list, cursor, hasNext, searching, error, more, mixed, outage>>
browserVars == <<page, form, shown>>

Empty == "empty"
NoMutation == [stage |-> "idle", draft |-> Empty, attempt |-> 0, mounted |-> FALSE]
NoRequest == [stage |-> "free", draft |-> Empty, for |-> "nobody"]

BrowserTypeOK ==
    /\ page \in {"form", "properties"}
    /\ draft \in Draft \cup {Empty}
    /\ mutation \in [Mutation -> [stage : {"idle", "waiting", "backoff"}, draft : Draft \cup {Empty},
                                  attempt : 0..MaxRetries, mounted : BOOLEAN]]
    /\ request \in [Attempt -> [stage : {"free", "sent", "checked"}, draft : Draft \cup {Empty},
                                for : Mutation \cup {"nobody"}]]
    /\ made \in [Draft -> 0..Cardinality(Attempt)]
    /\ \A s \in {assured, crowded} : s \subseteq Draft
    /\ Len(list) <= MaxShown /\ \A i \in DOMAIN list : list[i] \in 1..Pages
    /\ cursor \in 0..Pages /\ more \subseteq 1..Pages
    /\ {hasNext, searching, error, mixed, outage} \subseteq BOOLEAN
    /\ \A m \in Mutation : Cardinality({a \in Attempt : request[a].for = m}) <= 1
    /\ \A a \in Attempt : request[a].for # "nobody" => mutation[request[a].for].stage = "waiting"

NotLoaded == list = <<>> /\ cursor = 0 /\ hasNext = FALSE /\ searching = TRUE /\ more = {}
             /\ error = FALSE /\ mixed = FALSE /\ outage = FALSE

BrowserInit ==
    /\ page = "form"
    /\ draft = Empty
    /\ mutation = [m \in Mutation |-> NoMutation]
    /\ request = [a \in Attempt |-> NoRequest]
    /\ made = [d \in Draft |-> 0]
    /\ assured = {} /\ crowded = {}
    /\ NotLoaded

-----------------------------------------------------------------------------
(* EnquiryFormPage. *)

Pending == \E m \in Mutation : mutation[m].stage # "idle" /\ mutation[m].mounted

\* The fields can be edited while a submission is pending.
Type(d) ==
    /\ page = "form" /\ draft # d
    /\ draft' = d
    /\ UNCHANGED <<page, mutation, request, made, assured, crowded, shown>>

\* reset(): whatever the form holds by then is gone.
Reset == draft' = Empty

\* A request leaves for the backend.
Send(m, a, d) ==
    /\ request[a].stage = "free"
    /\ request' = [request EXCEPT ![a] = [stage |-> "sent", draft |-> d, for |-> m]]
    /\ crowded' = IF \E b \in Attempt : request[b].draft = d THEN crowded \cup {d} ELSE crowded

\* onSubmit; the button is disabled while a submission is pending.
Submit(m, a) ==
    /\ page = "form" /\ draft # Empty /\ ~Pending
    /\ mutation[m].stage = "idle"
    /\ mutation' = [mutation EXCEPT ![m] =
                      [stage |-> "waiting", draft |-> draft, attempt |-> 1, mounted |-> TRUE]]
    /\ Send(m, a, draft)
    /\ UNCHANGED <<page, draft, made, assured, shown>>

\* Faulty variant: the effect of a former form is not tied to it.
ResetAnyway(m) == Reset

\* The callbacks of mutate() run if the form they came from is still there.
ResetIfMounted(m) == IF mutation[m].mounted THEN Reset ELSE UNCHANGED draft

-----------------------------------------------------------------------------
(* apiClient. *)

Finish(m) == mutation' = [mutation EXCEPT ![m] = NoMutation]

\* A network error, the timeout or a 5xx: again after a while, or an error.
Again(m) ==
    IF mutation[m].attempt = MaxRetries THEN Finish(m)
    ELSE mutation' = [mutation EXCEPT ![m].stage = "backoff", ![m].attempt = @ + 1]

\* The request, or its answer, is given up or lost; the backend may go on.
ConnectionFails(m, a) ==
    /\ request[a].for = m
    /\ Again(m)
    /\ \/ request' = [request EXCEPT ![a] = NoRequest]
       \/ request' = [request EXCEPT ![a].for = "nobody"]
    /\ UNCHANGED <<page, draft, made, assured, crowded, shown>>

\* The attempt after a backoff has an Idempotency-Key of its own.
Retry(m, a) ==
    /\ mutation[m].stage = "backoff"
    /\ mutation' = [mutation EXCEPT ![m].stage = "waiting"]
    /\ Send(m, a, mutation[m].draft)
    /\ UNCHANGED <<page, draft, made, assured, shown>>

-----------------------------------------------------------------------------
(* The backend, and what becomes of its answers. *)

\* A submission refused: an error toast, or for a duplicate the warning that
\* says the enquiry was submitted, both on the form it came from.
Refused(m, code) ==
    /\ Finish(m)
    /\ assured' = IF code = "DUPLICATE_ENQUIRY" /\ mutation[m].mounted
                  THEN assured \cup {mutation[m].draft} ELSE assured

\* 429, 400 or another 4xx; a 5xx is tried again.
Reject(a) ==
    /\ request[a].stage # "free"
    /\ request' = [request EXCEPT ![a] = NoRequest]
    /\ LET m == request[a].for
       IN IF m = "nobody" THEN UNCHANGED <<mutation, assured>>
          ELSE Refused(m, "RATE_LIMITED") \/ (Again(m) /\ UNCHANGED assured)
    /\ UNCHANGED <<page, draft, made, crowded, shown>>

\* Faulty variant: a request under way is taken for a duplicate as well.
DuplicateOfRequest(a) ==
    \/ made[request[a].draft] > 0
    \/ \E b \in Attempt \ {a} : request[b].draft = request[a].draft

\* Faulty variant: a request is recognised by its key, and each has its own.
DuplicateByKey(a) == FALSE

Duplicate(a) == made[request[a].draft] > 0

FindDuplicate(a) ==
    /\ request[a].stage = "sent"
    /\ IF Duplicate(a)
       THEN /\ request' = [request EXCEPT ![a] = NoRequest]
            /\ IF request[a].for = "nobody" THEN UNCHANGED <<mutation, assured>>
               ELSE Refused(request[a].for, "DUPLICATE_ENQUIRY")
       ELSE request' = [request EXCEPT ![a].stage = "checked"] /\ UNCHANGED <<mutation, assured>>
    /\ UNCHANGED <<page, draft, made, crowded, shown>>

\* The row; then the answer arrives, or is lost.  The toast of success is the
\* hook's and comes also after the form has gone.
InsertRow(a) ==
    LET m == request[a].for  d == request[a].draft
    IN /\ request[a].stage = "checked"
       /\ made' = [made EXCEPT ![d] = @ + 1]
       /\ request' = [request EXCEPT ![a] = NoRequest]
       /\ IF m = "nobody" THEN UNCHANGED <<mutation, assured, draft>>
          ELSE \/ Finish(m) /\ assured' = assured \cup {d} /\ ResetIfMounted(m)
               \/ Again(m) /\ UNCHANGED <<assured, draft>>
       /\ UNCHANGED <<page, crowded, shown>>

\* Ten minutes, in which a submission and its requests have ended.
TenMinutesPass(d) ==
    /\ made[d] > 0
    /\ \A m \in Mutation : mutation[m].draft # d
    /\ \A a \in Attempt : request[a].draft # d
    /\ made' = [made EXCEPT ![d] = 0]
    /\ assured' = assured \ {d}
    /\ UNCHANGED <<page, draft, mutation, request, crowded, shown>>

-----------------------------------------------------------------------------
(* PropertyListPage: one Apollo entry for every search, whose pages  *)
(* all come from the same catalogue.                                       *)

\* Faulty variant: items are merged by offset, and an answer has offset 0.
MergedByOffset(incoming) == incoming \o SubSeq(list, Len(incoming) + 1, Len(list))

\* The merge of the cache looks for items, which a connection does not have:
\* what comes in replaces what was there.
Merged(incoming) == incoming

HasNext(p) == p < Pages

\* A new search term; the answers of earlier ones are dropped from here on.
\* The page of an error has no field to enter one.
Search ==
    /\ page = "properties" /\ ~searching /\ ~error
    /\ searching' = TRUE
    /\ UNCHANGED <<page, form, list, cursor, hasNext, error, more, mixed, outage>>

\* The answer replaces the entry, with a first page (the form asks for a longer
\* one); a catalogue that is down answers with an empty connection.
SearchResult ==
    /\ searching
    /\ searching' = FALSE
    /\ \/ list' = Merged(<<1>>) /\ cursor' = 1 /\ hasNext' = HasNext(1) /\ outage' = FALSE
       \/ list' = Merged(<<>>) /\ cursor' = 0 /\ hasNext' = FALSE /\ outage' = TRUE
    /\ mixed' = (more # {})
    /\ UNCHANGED <<page, form, error, more>>

\* The request fails and leaves the entry: the page shows the error.
SearchFails ==
    /\ searching
    /\ searching' = FALSE
    /\ error' = TRUE
    /\ UNCHANGED <<page, form, list, cursor, hasNext, more, mixed, outage>>

\* The button is shown while there is a next page, and disabled while the list
\* loads: a new answer enables it though a fetchMore is under way.
CanLoadMore == hasNext /\ ~searching /\ ~error /\ (more = {} \/ mixed)

LoadMore ==
    /\ page = "properties" /\ CanLoadMore
    /\ cursor \in 1..Pages - 1
    /\ more' = more \cup {cursor + 1}
    /\ UNCHANGED <<page, form, list, cursor, hasNext, searching, error, mixed, outage>>

\* updateQuery appends to what the entry holds by now and takes the pageInfo;
\* an entry that has changed is shown again also after an error.
MoreResult(p) ==
    /\ p \in more /\ Len(list) < MaxShown
    /\ more' = more \ {p}
    /\ error' \in {error, FALSE}
    /\ \/ /\ list' = Append(list, p) /\ cursor' = p /\ hasNext' = HasNext(p)
          /\ UNCHANGED outage
       \/ /\ cursor' = 0 /\ hasNext' = FALSE /\ outage' = TRUE
          /\ UNCHANGED list
    /\ UNCHANGED <<page, form, searching, mixed>>

\* A fetchMore that fails is dropped, and the button can be used again.
MoreFails(p) ==
    /\ p \in more
    /\ more' = more \ {p}
    /\ UNCHANGED <<page, form, list, cursor, hasNext, searching, error, mixed, outage>>

-----------------------------------------------------------------------------
(* The tab. *)

\* The submissions of a form go on without it, and so does a fetchMore; both
\* pages query the catalogue when they are mounted, into the same entry.
Leave == [m \in Mutation |-> [mutation[m] EXCEPT !.mounted = FALSE]]

Navigate(to) ==
    /\ page # to
    /\ page' = to
    /\ draft' = Empty
    /\ mutation' = Leave
    /\ searching' = TRUE
    /\ error' = FALSE
    /\ UNCHANGED <<request, made, assured, crowded, list, cursor, hasNext, more, mixed, outage>>

BrowserNext ==
    \/ \E d \in Draft : Type(d) \/ TenMinutesPass(d)
    \/ \E m \in Mutation, a \in Attempt : Submit(m, a) \/ ConnectionFails(m, a) \/ Retry(m, a)
    \/ \E a \in Attempt : FindDuplicate(a) \/ InsertRow(a) \/ Reject(a)
    \/ Search \/ SearchResult \/ SearchFails \/ LoadMore
    \/ \E p \in 1..Pages : MoreResult(p) \/ MoreFails(p)
    \/ \E to \in {"form", "properties"} : Navigate(to)

BrowserSpec == BrowserInit /\ [][BrowserNext]_browserVars

-----------------------------------------------------------------------------
(* Whoever is told that an enquiry was submitted, by the toast of success   *)
(* or by the warning of a duplicate, has a row at the backend: also when    *)
(* the warning answers a retry whose first attempt made the row.            *)
AssuredIsStored == \A d \in assured : made[d] > 0

(* What a reset removes from the form is stored, unless it was typed over   *)
(* a submission that was pending: no answer to a form that is gone empties  *)
(* the one that came after it.                                              *)
WipedIsStored ==
    [][(draft \in Draft /\ draft' = Empty /\ page' = page) =>
          \/ made'[draft] > 0
          \/ \E m \in Mutation : mutation[m].mounted /\ mutation[m].draft # draft]_browserVars

(* A submission makes one row for all its attempts and though every attempt *)
(* has its own Idempotency-Key, unless two of them are at the backend at    *)
(* once, one given up by the browser.                                       *)
OneRowUnlessCrowded == \A d \in Draft : made[d] > 1 => d \in crowded

(* The list is the catalogue's pages without a gap or a repetition, unless  *)
(* a search overtook a fetchMore, whose page is then appended to the new    *)
(* list; and it ends where the catalogue does, unless that was down for an  *)
(* answer, which the page takes for the end.                                *)
PagesInOrder ==
    \/ mixed
    \/ /\ \A i \in DOMAIN list : list[i] = i
       /\ (list # <<>> /\ ~hasNext) => (outage \/ list[Len(list)] = Pages)
=============================================================================
