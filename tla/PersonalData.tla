---------------------------- MODULE PersonalData ----------------------------
(***************************************************************************)
(* The personal data of one person: the enquiries and what is kept of them *)
(* in the audit log, the webhook events, the cache and the idempotency     *)
(* responses, while the erasure of GdprService, the administrators'        *)
(* updates, the cache's refreshes and the nightly retention job run.       *)
(*                                                                         *)
(* The queues' job data, which no erasure reaches, are left out.           *)
(***************************************************************************)
EXTENDS Naturals, Sequences, FiniteSets, SequencesExt

CONSTANTS
    Enquiry,
    Update    \* the status updates of the history, each made at most once

VARIABLES
    row,       \* the Enquiry table
    audit,     \* the AuditLog records of each enquiry, in order of commit
    payload,   \* a WebhookEvent that refers to the enquiry
    cached,    \* enquiry:id:*, and the entries of enquiry:list:* likewise
    response,  \* idempotency:*
    create,    \* what each creation is at
    update,    \* what each update is at
    fetched    \* the row a cache refresh has read, and not yet written

vars == <<row, audit, payload, cached, response, create, update, fetched>>

Status == {"PENDING", "COMPLETED", "ARCHIVED"}
Name == {"absent", "personal", "redacted"}   \* of a row, and of a copy of one
Row == [name : {"personal", "redacted"}, status : Status]
Absent == [name |-> "absent", status |-> "none"]
Record == [name : {"personal", "null"}, after : Status \cup {"null"}]
UpdateRecord == [stage : {"unsent", "read", "committed", "done"},
                 enquiry : Enquiry \cup {"none"}, read : Name, result : Name]
NoUpdate == [stage |-> "unsent", enquiry |-> "none", read |-> "absent", result |-> "absent"]

TypeOK ==
    /\ row \in [Enquiry -> Row \cup {Absent}]
    /\ audit \in [Enquiry -> Seq(Record)]
    /\ \A e \in Enquiry : audit[e] = <<>> <=> row[e] = Absent
    /\ payload \in [Enquiry -> {"none", "early", "late", "null"}]
    /\ cached \in [Enquiry -> Name]
    /\ response \in [Enquiry -> BOOLEAN]
    /\ create \in [Enquiry -> {"unsent", "response", "cache", "done"}]
    /\ update \in [Update -> UpdateRecord]
    /\ fetched \in [Enquiry -> Name]

Init ==
    /\ row = [e \in Enquiry |-> Absent]
    /\ audit = [e \in Enquiry |-> <<>>]
    /\ payload = [e \in Enquiry |-> "none"]
    /\ cached = [e \in Enquiry |-> "absent"]
    /\ response = [e \in Enquiry |-> FALSE]
    /\ create = [e \in Enquiry |-> "unsent"]
    /\ update = [u \in Update |-> NoUpdate]
    /\ fetched = [e \in Enquiry |-> "absent"]

-----------------------------------------------------------------------------
(* EnquiryService.create, from its transaction on. *)

CreateInTransaction(e) ==
    /\ create[e] = "unsent"
    /\ row' = [row EXCEPT ![e] = [name |-> "personal", status |-> "PENDING"]]
    /\ audit' = [audit EXCEPT ![e] = <<[name |-> "personal", after |-> "PENDING"]>>]
    /\ create' = [create EXCEPT ![e] = "response"]
    /\ UNCHANGED <<payload, cached, response, update, fetched>>

\* A request without a key stores no response; a failure is swallowed.
StoreIdempotencyResponse(e) ==
    /\ create[e] = "response"
    /\ \E stored \in BOOLEAN : response' = [response EXCEPT ![e] = stored]
    /\ create' = [create EXCEPT ![e] = "cache"]
    /\ UNCHANGED <<row, audit, payload, cached, update, fetched>>

OnEnquiryCreated(e) ==
    /\ create[e] = "cache"
    /\ cached' \in {[cached EXCEPT ![e] = "personal"], cached}
    /\ create' = [create EXCEPT ![e] = "done"]
    /\ UNCHANGED <<row, audit, payload, response, update, fetched>>

-----------------------------------------------------------------------------
(* EnquiryService.updateStatus. *)

FindForUpdate(u, e) ==
    /\ update[u].stage = "unsent"
    /\ row[e] # Absent
    /\ update' = [update EXCEPT ![u] =
                    [stage |-> "read", enquiry |-> e, read |-> row[e].name, result |-> "absent"]]
    /\ UNCHANGED <<row, audit, payload, cached, response, create, fetched>>

\* Faulty variant: the update writes back the record it has read.
UpdatedWhole(u, status) == [name |-> update[u].read, status |-> status]

\* The row after the update: its status only.
Updated(u, status) == [name |-> row[update[u].enquiry].name, status |-> status]

\* Faulty variant: the audit record is written outside the transaction, by
\* logChange, which swallows the error.
LoggedOutside(e, record) ==
    audit' \in {[audit EXCEPT ![e] = Append(@, record)], audit}

Logged(e, record) == audit' = [audit EXCEPT ![e] = Append(@, record)]

\* The transaction: the row as it now is, the name as it was read before.
CommitUpdate(u, status) ==
    LET e == update[u].enquiry
    IN /\ update[u].stage = "read"
       /\ row' = [row EXCEPT ![e] = Updated(u, status)]
       /\ Logged(e, [name |-> IF update[u].read = "personal" THEN "personal" ELSE "null",
                     after |-> status])
       /\ update' = [update EXCEPT ![u] = [stage |-> "committed", enquiry |-> e,
                                          read |-> update[u].read, result |-> row'[e].name]]
       /\ UNCHANGED <<payload, cached, response, create, fetched>>

OnEnquiryUpdated(u) ==
    /\ update[u].stage = "committed"
    /\ cached' \in {[cached EXCEPT ![update[u].enquiry] = update[u].result], cached}
    /\ update' = [update EXCEPT ![u].stage = "done"]
    /\ UNCHANGED <<row, audit, payload, response, create, fetched>>

-----------------------------------------------------------------------------
(* GdprService.eraseData: a serializable transaction, which takes effect as *)
(* a whole or, in conflict with an update, not at all.                      *)

\* Faulty variant: the affected rows are looked for by the email once more.
AffectedByEmail(rows) == {e \in Enquiry : rows[e].name = "personal"}

\* Every row redacted so far, whoever it was about.
Affected(rows) == {e \in Enquiry : rows[e].name = "redacted"}

\* before and after are nulled, the name in them with the rest.
Cleared(records) == [i \in DOMAIN records |-> [name |-> "null", after |-> "null"]]

EraseData ==
    /\ \E e \in Enquiry : row[e] # Absent
    /\ row' = [e \in Enquiry |->
                 IF row[e].name = "personal" THEN [name |-> "redacted", status |-> row[e].status]
                                              ELSE row[e]]
    /\ payload' = [e \in Enquiry |->
                     IF e \in Affected(row') /\ payload[e] # "none" THEN "null" ELSE payload[e]]
    /\ audit' = [e \in Enquiry |-> IF e \in Affected(row') THEN Cleared(audit[e]) ELSE audit[e]]
    /\ UNCHANGED <<cached, response, create, update, fetched>>

-----------------------------------------------------------------------------
(* What else writes: webhooks, the retention job, the cache's refreshes. *)

\* A webhook of the CRM whose enquiryId is this enquiry's.
ReceiveEvent(e) ==
    /\ row[e] # Absent
    /\ payload[e] = "none"
    /\ payload' = [payload EXCEPT ![e] = IF row[e].name = "redacted" THEN "late" ELSE "early"]
    /\ UNCHANGED <<row, audit, cached, response, create, update, fetched>>

\* Any subset of the enquiries may be more than two years old.
ArchiveOldEnquiries(old) ==
    /\ \E e \in old : row[e].status \in Status \ {"ARCHIVED"}
    /\ row' = [e \in Enquiry |->
                 IF e \in old /\ row[e] # Absent THEN [name |-> row[e].name, status |-> "ARCHIVED"]
                                              ELSE row[e]]
    /\ UNCHANGED <<audit, payload, cached, response, create, update, fetched>>

DeleteOldWebhookEvents(e) ==
    /\ payload[e] # "none"
    /\ payload' = [payload EXCEPT ![e] = "none"]
    /\ UNCHANGED <<row, audit, cached, response, create, update, fetched>>

Fetch(e) ==
    /\ row[e] # Absent /\ fetched[e] = "absent"
    /\ fetched' = [fetched EXCEPT ![e] = row[e].name]
    /\ UNCHANGED <<row, audit, payload, cached, response, create, update>>

WriteFetched(e) ==
    /\ fetched[e] # "absent"
    /\ cached' \in {[cached EXCEPT ![e] = fetched[e]], cached}
    /\ fetched' = [fetched EXCEPT ![e] = "absent"]
    /\ UNCHANGED <<row, audit, payload, response, create, update>>

CacheExpires(e) ==
    /\ cached[e] # "absent"
    /\ cached' = [cached EXCEPT ![e] = "absent"]
    /\ UNCHANGED <<row, audit, payload, response, create, update, fetched>>

\* Faulty variant: the response is stored without a lifetime.
ResponseStays(e) == FALSE /\ UNCHANGED vars

ResponseExpires(e) ==
    /\ response[e]
    /\ response' = [response EXCEPT ![e] = FALSE]
    /\ UNCHANGED <<row, audit, payload, cached, create, update, fetched>>

Creation(e) == StoreIdempotencyResponse(e) \/ OnEnquiryCreated(e)
UpdateGoesOn(u) == (\E s \in Status : CommitUpdate(u, s)) \/ OnEnquiryUpdated(u)

\* A process dies in the middle of a creation or of an update.
Crash ==
    /\ \/ \E e \in Enquiry : /\ create[e] \in {"response", "cache"}
                             /\ create' = [create EXCEPT ![e] = "done"]
                             /\ UNCHANGED update
       \/ \E u \in Update : /\ update[u].stage \in {"read", "committed"}
                            /\ update' = [update EXCEPT ![u].stage = "done"]
                            /\ UNCHANGED create
    /\ UNCHANGED <<row, audit, payload, cached, response, fetched>>

Next ==
    \/ \E e \in Enquiry :
          \/ CreateInTransaction(e) \/ Creation(e)
          \/ ReceiveEvent(e) \/ DeleteOldWebhookEvents(e)
          \/ Fetch(e) \/ WriteFetched(e) \/ CacheExpires(e) \/ ResponseExpires(e)
    \/ \E u \in Update : UpdateGoesOn(u) \/ \E e \in Enquiry : FindForUpdate(u, e)
    \/ EraseData \/ Crash
    \/ \E old \in SUBSET Enquiry : ArchiveOldEnquiries(old)

\* What is under way ends, and Redis removes what has expired.
Fairness ==
    /\ \A e \in Enquiry : /\ WF_vars(Creation(e)) /\ WF_vars(WriteFetched(e))
                          /\ SF_vars(CacheExpires(e)) /\ WF_vars(ResponseExpires(e))
    /\ \A u \in Update : WF_vars(UpdateGoesOn(u))

Spec == Init /\ [][Next]_vars /\ Fairness

-----------------------------------------------------------------------------
Erased(e) == row[e].name = "redacted"

(* An erased enquiry never gets its personal data back, whatever update was *)
(* under way.                                                               *)
ErasedForGood == [][\A e \in Enquiry : Erased(e) => row'[e].name = "redacted"]_vars

(* The audit log of an erased enquiry names the person only where an update *)
(* had read the record before the erasure and committed after it; the       *)
(* webhook events from before the erasure have lost their payload.          *)
NamedOnlyByOverlap ==
    \A e \in Enquiry : Erased(e) =>
        /\ Cardinality({i \in DOMAIN audit[e] : audit[e][i].name = "personal"})
             <= Cardinality({u \in Update : /\ update[u].enquiry = e
                                            /\ update[u].read = "personal"
                                            /\ update[u].result = "redacted"})
        /\ payload[e] # "early"

(* The last audit record of an enquiry has its status, erased records and   *)
(* the retention job, which writes none, excepted.                          *)
AuditTellsStatus ==
    \A e \in Enquiry : row[e] # Absent =>
        Last(audit[e]).after \in {row[e].status, "null"} \/ row[e].status = "ARCHIVED"

(* After an erasure the caches forget: no copy of an erased row stays in    *)
(* Redis, though creations, updates and refreshes under way write theirs    *)
(* back after it.                                                           *)
CachesForget ==
    \A e \in Enquiry : Erased(e) ~> [](cached[e] # "personal" /\ ~response[e])
=============================================================================
