---------------------------- MODULE RequestPath ----------------------------
(***************************************************************************)
(* What a call of the API goes through behind the limiter of RequestGate:  *)
(* the guards, load shedding, the pipes, the handler and the exception     *)
(* filter of a worker process, then the client, which repeats the attempts *)
(* that got no answer or a 5xx.  The calls of the model are an enquiry     *)
(* posted (create), an event of the CRM (webhook), a retry of a failed job *)
(* (retry) and a search of the list for a text copied from it (search).    *)
(*                                                                         *)
(* What the handlers do is EnquirySubmission and CrmPipeline; here they    *)
(* make their change once, and refuse to make it again.                    *)
(***************************************************************************)
EXTENDS Sanitization

CONSTANTS
    Text,      \* what a user may type
    Lag,       \* event loop lags in milliseconds
    MaxTries,  \* MAX_RETRIES of the client
    MaxCalls   \* bound: calls

ASSUME PathConstantsOK ==
    Text \subseteq Seq(Token) /\ Lag \subseteq Nat /\ MaxTries \in Nat \ {0} /\ MaxCalls \in Nat

VARIABLES
    shedding,  \* EventLoopMonitor.shedding
    call,      \* the call under way, or the last one
    stage,     \* where its attempt is: "sent", "guarded", "answered", or "ended"
    status,    \* of the answer
    tries,     \* attempts so far
    late,      \* attempts given up that the server may still run
    applied,   \* times the change was made
    told,      \* what the caller was told
    stored,    \* the text of the enquiry in the database
    calls,     \* calls so far
    unsure,    \* history: an attempt ended with no answer, or amid its handler
    typed,     \* history: what the user typed for it
    source     \* history: what the user typed for what is stored

attempt == <<stage, status, tries, told, unsure>>
change == <<applied, stored, source>>
pathVars == <<shedding, call, attempt, late, change, calls, typed>>

Posted(route) ==
    [route : {route}, body : {"json", "form", "other"}, key : {"none", "active", "admin"},
     signed : {"no", "as sent", "as parsed"}, valid : BOOLEAN]

\* The callers know their keys, or send none; only the CRM signs.
Call ==
    {c \in UNION {Posted("create"), Posted("webhook")} :
        /\ c.key = "active" => c.route = "webhook"
        /\ c.key # "admin"
        /\ c.signed # "no" => c.route = "webhook"}
      \cup [route : {"retry"}, body : {"none"}, key : {"none", "admin"}, signed : {"no"}, valid : {TRUE}]
      \cup [route : {"search"}, body : {"none"}, key : {"none"}, signed : {"no"}, valid : BOOLEAN]

NoCall == [route |-> "none", body |-> "none", key |-> "none", signed |-> "no", valid |-> TRUE]
NoText == <<>>

\* The statuses of answers (0 if there is none), and what a caller is told.
Status == {0, 200, 400, 401, 403, 404, 409, 415, 429, 500, 503}
Message == {"nothing", "ok", "network", "validation", "unauthorized", "forbidden", "not found",
            "duplicate", "rate limited", "content type", "unavailable", "internal", "no match"}

PathTypeOK ==
    /\ shedding \in BOOLEAN
    /\ call \in Call \cup {NoCall}
    /\ stage \in {"sent", "guarded", "answered", "ended"}
    /\ status \in Status
    /\ tries \in 0..MaxTries
    /\ late \in 0..MaxTries
    /\ applied \in Nat
    /\ told \in Message
    /\ stored \in Seq(Token) /\ typed \in Seq(Token) /\ source \in Seq(Token)
    /\ calls \in 0..MaxCalls
    /\ unsure \in BOOLEAN

PathInit ==
    /\ shedding = FALSE
    /\ call = NoCall
    /\ stage = "ended" /\ status = 0 /\ tries = 0 /\ told = "nothing" /\ unsure = FALSE
    /\ late = 0 /\ applied = 0 /\ calls = 0
    /\ stored = NoText /\ typed = NoText /\ source = NoText

-----------------------------------------------------------------------------
(* The worker. *)

ShedThreshold == 200
RecoveryThreshold == 100

\* A sample of the event loop, each second.
UpdateSheddingState(lag) ==
    /\ shedding' = IF shedding THEN lag >= RecoveryThreshold ELSE lag > ShedThreshold
    /\ shedding' # shedding
    /\ UNCHANGED <<call, attempt, late, change, calls, typed>>

ContentTypeGuard == call.body \in {"none", "json", "form"}

ApiKeyGuard == call.key = "active"

\* There is no raw body: the signature is compared with that of the body as
\* JSON.stringify writes it.
HmacGuard == call.signed = "as parsed"

AdminAuthGuard == call.key = "admin"

\* The status with which the guards refuse the call, in their order; 0 if none does.
GuardStatus(limited) ==
    IF limited THEN 429
    ELSE IF ~ContentTypeGuard THEN 415
    ELSE IF call.route = "webhook" /\ ~ApiKeyGuard THEN 403
    ELSE IF call.route = "webhook" /\ ~HmacGuard THEN 401
    ELSE IF call.route = "retry" /\ ~AdminAuthGuard THEN 403
    ELSE 0

Answer(s) == stage' = "answered" /\ status' = s /\ UNCHANGED <<tries, told, unsure>>

Guard ==
    /\ stage = "sent"
    /\ \E limited \in BOOLEAN :
        IF GuardStatus(limited) = 0
        THEN stage' = "guarded" /\ UNCHANGED <<status, tries, told, unsure>>
        ELSE Answer(GuardStatus(limited))
    /\ UNCHANGED <<shedding, call, late, change, calls, typed>>

Shed ==
    /\ stage = "guarded" /\ shedding
    /\ Answer(503)
    /\ UNCHANGED <<shedding, call, late, change, calls, typed>>

\* What the pipes let through: a body parsed as JSON, of the right shape.
Validated == call.valid /\ call.body \in {"none", "json"}

\* The database makes the change.
Apply ==
    /\ applied' = applied + 1
    /\ IF call.route = "create"
       THEN stored' = Sanitize(typed, FALSE) /\ source' = typed
       ELSE UNCHANGED <<stored, source>>

\* The filter's status for what a handler throws.
StatusOf == [ConflictException |-> 409, NotFoundException |-> 404, P2002 |-> 409, P2025 |-> 404,
             P2034 |-> 500, Error |-> 500]

\* What a handler throws when the change was made before: of the CRM's event
\* nothing, it is acknowledged again.
Repeated == [create |-> {"ConflictException", "P2002"}, retry |-> {"NotFoundException"}, webhook |-> {}]

Failure == {StatusOf[e] : e \in {"P2034", "Error"}}

\* What a handler may answer to a change it is asked for.
Repeats(s) ==
    /\ applied > 0
    /\ s \in {StatusOf[e] : e \in Repeated[call.route]} \/ (s = 200 /\ call.route = "webhook")

\* The change and the status of a handler that the pipes let a call through to; one
\* that fails may have committed.
Handle(s) ==
    \/ call.route = "search" /\ s \in Failure \cup {200} /\ UNCHANGED change
    \/ call.route # "search" /\ applied = 0 /\ s \in Failure \cup {200} /\ Apply
    \/ call.route # "search" /\ s \in Failure /\ UNCHANGED change
    \/ call.route # "search" /\ Repeats(s) /\ UNCHANGED change

\* Faulty variant: the handler runs before its input is looked at.
RunUnvalidated ==
    /\ stage = "guarded" /\ ~shedding
    /\ \E s \in {200, 404, 409, 500} :
           Handle(s) /\ Answer(IF Validated THEN s ELSE 400)
    /\ UNCHANGED <<shedding, call, late, calls, typed>>

Run ==
    /\ stage = "guarded" /\ ~shedding
    /\ IF Validated
       THEN \E s \in {200, 404, 409, 500} : Handle(s) /\ Answer(s)
       ELSE Answer(400) /\ UNCHANGED change
    /\ UNCHANGED <<shedding, call, late, calls, typed>>

\* An attempt that the client no longer waits for runs, or is refused.
RunLate ==
    /\ late > 0
    /\ late' = late - 1
    /\ \/ GuardStatus(FALSE) = 0 /\ ~shedding /\ Validated
          /\ \E s \in {200, 404, 409, 500} : Handle(s)
       \/ UNCHANGED change
    /\ UNCHANGED <<shedding, call, attempt, calls, typed>>

-----------------------------------------------------------------------------
(* The client. *)

\* mapStatusToCode, and normalizeError for a call without an answer (0).
CodeOf(s) ==
    CASE s = 0 -> "network" [] s = 200 -> "ok" [] s = 400 -> "validation" [] s = 401 -> "unauthorized"
      [] s = 403 -> "forbidden" [] s = 404 -> "not found" [] s = 409 -> "duplicate"
      [] s = 415 -> "content type" [] s = 429 -> "rate limited" [] s = 500 -> "internal"
      [] s = 503 -> "unavailable"

IsRetryable(s) == s = 0 \/ s >= 500

Begin(c, text) ==
    /\ stage = "ended" /\ late = 0 /\ calls < MaxCalls
    /\ call' = c
    /\ typed' = text
    /\ stage' = "sent" /\ status' = 0 /\ tries' = 1 /\ told' = "nothing" /\ unsure' = FALSE
    /\ applied' = 0
    /\ calls' = calls + 1
    /\ UNCHANGED <<shedding, late, stored, source>>

\* An enquiry is posted while none is stored (a bound).
Post ==
    \E c \in Call :
        \/ c.route = "create" /\ stored = NoText /\ \E text \in Text : Begin(c, text)
        \/ c.route \in {"webhook", "retry"} /\ Begin(c, NoText)

\* A search for what the list shows.
Search == stored # NoText /\ \E c \in Call : c.route = "search" /\ Begin(c, stored)

\* The text found is the text searched for, once that went through the pipe too.
Found == Sanitize(typed, FALSE) = stored

\* Faulty variant: an attempt is repeated without end.
RepeatForever(s) ==
    /\ IF IsRetryable(s)
       THEN stage' = "sent" /\ UNCHANGED <<tries, told>>
       ELSE stage' = "ended" /\ told' = CodeOf(s) /\ UNCHANGED tries
    /\ status' = 0

\* Faulty variant: one attempt too many.
RetryOnceMore(s) ==
    /\ IF IsRetryable(s) /\ tries <= MaxTries
       THEN stage' = "sent" /\ tries' = tries + 1 /\ UNCHANGED told
       ELSE stage' = "ended" /\ told' = CodeOf(s) /\ UNCHANGED tries
    /\ status' = 0

\* requestWithRetry, once an attempt ended with s.
RetryOrEnd(s) ==
    /\ IF IsRetryable(s) /\ tries < MaxTries
       THEN stage' = "sent" /\ tries' = tries + 1 /\ UNCHANGED told
       ELSE /\ stage' = "ended" /\ UNCHANGED tries
            /\ told' = IF s = 200 /\ call.route = "search" /\ ~Found THEN "no match" ELSE CodeOf(s)
    /\ status' = 0

Receive ==
    /\ stage = "answered"
    /\ RetryOrEnd(status)
    /\ unsure' = (unsure \/ status = 500)
    /\ UNCHANGED <<shedding, call, late, change, calls, typed>>

\* The connection breaks or the timeout passes, before or after the server ran it.
Lose ==
    /\ stage # "ended"
    /\ RetryOrEnd(0)
    /\ unsure' = TRUE
    /\ late' \in IF stage = "answered" THEN {late} ELSE {late, late + 1}
    /\ UNCHANGED <<shedding, call, change, calls, typed>>

\* The end of the history the bounds allow.
Ended == stage = "ended" /\ late = 0 /\ calls = MaxCalls /\ UNCHANGED pathVars

PathNext ==
    \/ \E lag \in Lag : UpdateSheddingState(lag)
    \/ Guard \/ Shed \/ Run \/ RunLate
    \/ Post \/ Search \/ Receive \/ Lose
    \/ Ended

\* Every answer arrives, or the client's timer runs out.
Fairness == WF_pathVars(Guard \/ Shed \/ Run) /\ WF_pathVars(Receive \/ Lose)

PathSpec == PathInit /\ [][PathNext]_pathVars /\ Fairness

-----------------------------------------------------------------------------
(* Properties. *)

\* A caller told that the call was refused, or shed, has changed nothing, unless
\* an earlier attempt of the call ended without an answer or with an error of its
\* handler.
RefusedIsNotApplied == stage = "ended" /\ told # "ok" /\ ~unsure => applied = 0

\* An entity that a tag had split, which comes to be when the tag is taken out.
Joined(text) ==
    \E i \in 1..Len(Stripped(text)) - 1 :
        /\ Stripped(text)[i] = "&"
        /\ Stripped(text)[i + 1] \in {"lt;", "gt;", "quot;", "#x27;", "#39;"}

\* A text copied from the list finds its enquiry, though it goes through the pipe
\* a second time.
CopiedTextFinds == told = "no match" => Joined(source)

\* A call ends.
EveryCallEnds == stage # "ended" ~> stage = "ended"
=============================================================================
