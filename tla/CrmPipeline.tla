---------------------------- MODULE CrmPipeline ----------------------------
(***************************************************************************)
(* The jobs of the three queues, from their add to their end.  A CRM       *)
(* webhook: WebhookService.processEvent records the event and queues a     *)
(* job, CrmSyncWorker delivers it through BullMQ's retries, the 'failed'   *)
(* listener marks it DEAD_LETTER.  A mail: NotificationProducer queues it  *)
(* for a new enquiry, EmailWorker sends it; it has no row.  (PushWorker is *)
(* the same with nothing to send, and nobody queues a push.)  An admin may *)
(* retry a job of either kind from the dead-letter list.                   *)
(*                                                                         *)
(* BullMQ 5 and the CRM are external: a job is in one list at a time, a    *)
(* job whose process dies is put back once and failed the second time, and *)
(* a failed job is kept.  Deletion of old rows (90 days) is not modelled.  *)
(* SMTP is external too: sendEmail is a placeholder, and fails here as     *)
(* process expects of it.                                                  *)
(***************************************************************************)
EXTENDS Naturals, FiniteSets

CONSTANTS
    Event,        \* what jobs are about: webhook events, by eventId, and mails
    Post,         \* deliveries of webhooks by the sender
    Admin,        \* retry requests of administrators
    Original,     \* names the job that processEvent adds
    MaxAttempts,  \* DEFAULT_JOB_OPTIONS.attempts
    MaxStalled    \* BullMQ's maxStalledCount

ASSUME ConstantsOK ==
    /\ Event # {}
    /\ Original \notin Admin
    /\ MaxAttempts \in Nat \ {0} /\ MaxStalled \in Nat

VARIABLES
    kind,       \* "crm" or "mail": the queue of each event (never changes)
    pending,    \* mails of stored enquiries about to be queued
    event,      \* the event each post carries (never changes)
    postPc,     \* the await each post is at
    reply,      \* what its sender got
    row,        \* status of the WebhookEvent row of each event
    job,        \* BullMQ's record of each job
    notices,    \* failed jobs whose onFailed has not run yet
    paused,     \* crm-queue is paused
    adminPc,    \* the await each retry request is at
    target,     \* the job it loaded
    crm,        \* events the CRM has received, mails sent
    unqueued,   \* history: events committed without a job being added
    exhausted   \* history: events of which a job used up its attempts

posts   == <<kind, pending, event, postPc, reply>>
admins  == <<adminPc, target>>
history == <<crm, unqueued, exhausted>>
vars == <<posts, row, job, notices, paused, admins, history>>

\* crm-<eventId>, crm-retry-<eventId>-<time>; BullMQ's number, retry-email-<jobId>-<time>
JobId == Event \X ({Original} \cup Admin)
Running == {"active", "answered", "recorded"}
JobState == Running \cup {"none", "waiting", "completed", "failed", "removed"}
Job == [state : JobState, attempts : 0..MaxAttempts, stalls : 0..MaxStalled]
NewJob == [state |-> "waiting", attempts |-> 0, stalls |-> 0]

TypeOK ==
    /\ kind \in [Event -> {"crm", "mail"}]
    /\ pending \in SUBSET Event
    /\ event \in [Post -> Event]
    /\ postPc \in [Post -> {"check", "create", "enqueue", "done"}]
    /\ reply \in [Post -> {"none", "accepted", "duplicate", "conflict", "error"}]
    /\ row \in [Event -> {"absent", "RECEIVED", "PROCESSED", "DEAD_LETTER"}]
    /\ job \in [JobId -> Job]
    /\ notices \in SUBSET JobId
    /\ paused \in BOOLEAN
    /\ adminPc \in [Admin -> {"getJob", "retry", "remove", "done"}]
    /\ target \in [Admin -> JobId]
    /\ crm \in SUBSET Event
    /\ unqueued \in SUBSET Event
    /\ exhausted \in SUBSET Event

Init ==
    /\ kind \in [Event -> {"crm", "mail"}]
    /\ pending = {e \in Event : kind[e] = "mail"}
    /\ event \in [Post -> Event]
    /\ postPc = [d \in Post |-> IF kind[event[d]] = "crm" THEN "check" ELSE "done"]
    /\ reply = [d \in Post |-> "none"]
    /\ row = [e \in Event |-> "absent"]
    /\ job = [j \in JobId |-> [NewJob EXCEPT !.state = "none"]]
    /\ notices = {}
    /\ paused = FALSE
    /\ adminPc = [a \in Admin |-> "getJob"]
    /\ target = [a \in Admin |-> <<CHOOSE e \in Event : TRUE, Original>>]
    /\ crm = {}
    /\ unqueued = {}
    /\ exhausted = {}

-----------------------------------------------------------------------------
(* WebhookService.processEvent, one action per await. *)

Reply(d, result) ==
    /\ postPc' = [postPc EXCEPT ![d] = "done"]
    /\ reply' = [reply EXCEPT ![d] = result]
    /\ UNCHANGED <<kind, pending, event>>

Step(d, stage) ==
    postPc' = [postPc EXCEPT ![d] = stage] /\ UNCHANGED <<kind, pending, event, reply>>

SetRow(e, status) == row' = [row EXCEPT ![e] = status]

FindByEventId(d) ==
    /\ postPc[d] = "check"
    /\ \/ row[event[d]] # "absent" /\ Reply(d, "duplicate")
       \/ row[event[d]] = "absent" /\ Step(d, "create")
       \/ Reply(d, "error")
    /\ UNCHANGED <<row, job, notices, paused, admins, history>>

\* A post that lost the race hits the unique index on eventId: P2002, a 409.
\* The connection may fail before or after the commit.
CreateEvent(d) ==
    /\ postPc[d] = "create"
    /\ LET e == event[d]
       IN \/ row[e] = "absent" /\ SetRow(e, "RECEIVED") /\ Step(d, "enqueue") /\ UNCHANGED unqueued
          \/ /\ row[e] = "absent" /\ SetRow(e, "RECEIVED") /\ Reply(d, "error")
             /\ unqueued' = unqueued \cup {e}
          \/ row[e] # "absent" /\ Reply(d, "conflict") /\ UNCHANGED <<row, unqueued>>
          \/ Reply(d, "error") /\ UNCHANGED <<row, unqueued>>
    /\ UNCHANGED <<job, notices, paused, admins, crm, exhausted>>

\* Queue.add ignores an id that exists.
AddJob(j) == job' = [job EXCEPT ![j] = IF @.state \in {"none", "removed"} THEN NewJob ELSE @]

\* A queue failure is swallowed: the sender is told 202 all the same.
Enqueue(d) ==
    /\ postPc[d] = "enqueue"
    /\ \/ AddJob(<<event[d], Original>>) /\ UNCHANGED unqueued
       \/ unqueued' = unqueued \cup {event[d]} /\ UNCHANGED job
    /\ Reply(d, "accepted")
    /\ UNCHANGED <<row, notices, paused, admins, crm, exhausted>>

\* The process dies, or the connection is lost: an error to the sender.
PostDropped(d) ==
    /\ postPc[d] # "done"
    /\ unqueued' = IF postPc[d] = "enqueue" THEN unqueued \cup {event[d]} ELSE unqueued
    /\ Reply(d, "error")
    /\ UNCHANGED <<row, job, notices, paused, admins, crm, exhausted>>

\* enqueueNotifications, after the commit and before the answer to the POST:
\* a failed add is logged and nothing repeats it; nor does anything if the
\* process dies.
EnqueueNotification(e) ==
    /\ e \in pending
    /\ pending' = pending \ {e}
    /\ \/ AddJob(<<e, Original>>) /\ UNCHANGED unqueued
       \/ unqueued' = unqueued \cup {e} /\ UNCHANGED job
    /\ UNCHANGED <<kind, event, postPc, reply, row, notices, paused, admins, crm, exhausted>>

-----------------------------------------------------------------------------
(* CrmSyncWorker and EmailWorker; a job waiting for its backoff counts as waiting. *)

SetState(j, state) == job' = [job EXCEPT ![j].state = state]

\* Faulty variant: a transient failure does not count as an attempt.
FailUncounted(j, unrecoverable) ==
    /\ SetState(j, IF unrecoverable THEN "failed" ELSE "waiting")
    /\ UNCHANGED <<notices, exhausted>>

\* BullMQ's moveToFailed, followed by its 'failed' event.  onFailed runs after
\* the job is already in its list, and acts only when the attempts are used up;
\* EmailWorker and PushWorker have no such listener.
FailJob(j, unrecoverable) ==
    LET attempts == job[j].attempts + 1
        again == ~unrecoverable /\ attempts < MaxAttempts
    IN /\ job' = [job EXCEPT ![j] = [state |-> IF again THEN "waiting" ELSE "failed",
                                      attempts |-> attempts, stalls |-> @.stalls]]
       /\ IF attempts >= MaxAttempts /\ kind[j[1]] = "crm"
          THEN notices' = notices \cup {j} /\ exhausted' = exhausted \cup {j[1]}
          ELSE UNCHANGED <<notices, exhausted>>

StartJob(j) ==
    /\ job[j].state = "waiting" /\ ~paused
    /\ SetState(j, "active")
    /\ UNCHANGED <<posts, row, notices, paused, admins, history>>

\* Faulty variant: an open breaker answers in the CRM's place.
CallCrmOrFallback(j) ==
    /\ job[j].state = "active" /\ kind[j[1]] = "crm"
    /\ \/ SetState(j, "answered") /\ crm' \in {crm, crm \cup {j[1]}} /\ UNCHANGED <<notices, exhausted>>
       \/ FailJob(j, FALSE) /\ UNCHANGED crm
    /\ UNCHANGED <<posts, row, paused, admins, unqueued>>

\* Delivery through the breaker and handleCrmError.  A timeout may hide a
\* delivery.  A 4xx is unrecoverable, unless the breaker is open by then.
CallCrm(j) ==
    /\ job[j].state = "active" /\ kind[j[1]] = "crm"
    /\ \/ SetState(j, "answered") /\ crm' = crm \cup {j[1]} /\ UNCHANGED <<notices, exhausted>>
       \/ FailJob(j, FALSE) /\ crm' \in {crm, crm \cup {j[1]}}
       \/ FailJob(j, TRUE) /\ UNCHANGED crm
    /\ UNCHANGED <<posts, row, paused, admins, unqueued>>

\* EmailWorker.process: the breaker rejects, or times out on a mail that goes
\* out; what the producer queues is never invalid.
SendEmail(j) ==
    /\ job[j].state = "active" /\ kind[j[1]] = "mail"
    /\ \/ SetState(j, "recorded") /\ crm' = crm \cup {j[1]} /\ UNCHANGED <<notices, exhausted>>
       \/ FailJob(j, FALSE) /\ crm' \in {crm, crm \cup {j[1]}}
    /\ UNCHANGED <<posts, row, paused, admins, unqueued>>

\* Status and audit row in one transaction, which may fail after the delivery.
RecordProcessed(j) ==
    /\ job[j].state = "answered"
    /\ \/ SetRow(j[1], "PROCESSED") /\ SetState(j, "recorded") /\ UNCHANGED <<notices, exhausted>>
       \/ (SetRow(j[1], "PROCESSED") \/ UNCHANGED row) /\ FailJob(j, FALSE)
    /\ UNCHANGED <<posts, paused, admins, crm, unqueued>>

CompleteJob(j) ==
    /\ job[j].state = "recorded"
    /\ SetState(j, "completed")
    /\ UNCHANGED <<posts, row, notices, paused, admins, history>>

\* The lock of the job runs out: back to the list, failed the second time.
WorkerDies(j) ==
    /\ job[j].state \in Running
    /\ IF job[j].stalls < MaxStalled
       THEN /\ job' = [job EXCEPT ![j] = [state |-> "waiting", attempts |-> @.attempts,
                                         stalls |-> @.stalls + 1]]
            /\ UNCHANGED <<notices, exhausted>>
       ELSE FailJob(j, TRUE)
    /\ UNCHANGED <<posts, row, paused, admins, crm, unqueued>>

\* The update may fail, or its process may die first: nobody runs it again.
OnFailed(j) ==
    /\ j \in notices
    /\ notices' = notices \ {j}
    /\ SetRow(j[1], "DEAD_LETTER") \/ UNCHANGED row
    /\ UNCHANGED <<posts, job, paused, admins, history>>

-----------------------------------------------------------------------------
(* AdminController; AdminQueueController repeats its retryDlqJob. *)

\* queue.getJob finds a job in any list.
GetJob(a) ==
    /\ adminPc[a] = "getJob"
    /\ \E j \in JobId :
        /\ job[j].state \notin {"none", "removed"}
        /\ target' = [target EXCEPT ![a] = j]
    /\ adminPc' = [adminPc EXCEPT ![a] = "retry"]
    /\ UNCHANGED <<posts, row, job, notices, paused, history>>

\* The transaction locks the row and writes RECEIVED, then adds the new job.
\* A failed add rolls it back; a failed commit does not take the job back.
RetryDlqJob(a) ==
    /\ adminPc[a] = "retry" /\ kind[target[a][1]] = "crm"
    /\ LET e == target[a][1]
       IN \/ /\ SetRow(e, "RECEIVED") /\ AddJob(<<e, a>>)
             /\ \E stage \in {"remove", "done"} : adminPc' = [adminPc EXCEPT ![a] = stage]
          \/ /\ UNCHANGED row /\ (AddJob(<<e, a>>) \/ UNCHANGED job)
             /\ adminPc' = [adminPc EXCEPT ![a] = "done"]
    /\ UNCHANGED <<posts, notices, paused, target, history>>

\* Faulty variant: the old job is removed first, and the add may fail.
RemoveThenAdd(a) ==
    /\ adminPc[a] = "retry" /\ kind[target[a][1]] = "mail"
    /\ job[target[a]].state \notin Running
    /\ SetState(target[a], "removed")
    /\ adminPc' = [adminPc EXCEPT ![a] = "done"]
    /\ UNCHANGED <<posts, row, notices, paused, target, history>>

\* A mail is queued again, outside any transaction; an add that fails, or
\* whose answer is lost, ends the request before the removal.
RetryMailJob(a) ==
    /\ adminPc[a] = "retry" /\ kind[target[a][1]] = "mail"
    /\ \/ /\ AddJob(<<target[a][1], a>>)
          /\ \E stage \in {"remove", "done"} : adminPc' = [adminPc EXCEPT ![a] = stage]
       \/ adminPc' = [adminPc EXCEPT ![a] = "done"] /\ UNCHANGED job
    /\ UNCHANGED <<posts, row, notices, paused, target, history>>

\* job.remove refuses a job that a worker holds.
RemoveJob(a) ==
    /\ adminPc[a] = "remove"
    /\ \/ job[target[a]].state \notin Running /\ SetState(target[a], "removed")
       \/ UNCHANGED job
    /\ adminPc' = [adminPc EXCEPT ![a] = "done"]
    /\ UNCHANGED <<posts, row, notices, paused, target, history>>

PauseOrResume ==
    /\ paused' = ~paused
    /\ UNCHANGED <<posts, row, job, notices, admins, history>>

-----------------------------------------------------------------------------
Process(d) == FindByEventId(d) \/ CreateEvent(d) \/ Enqueue(d)
Work(j) == StartJob(j) \/ CallCrm(j) \/ SendEmail(j) \/ RecordProcessed(j) \/ CompleteJob(j)

Next ==
    \/ \E d \in Post : Process(d) \/ PostDropped(d)
    \/ \E e \in Event : EnqueueNotification(e)
    \/ \E j \in JobId : Work(j) \/ WorkerDies(j) \/ OnFailed(j)
    \/ \E a \in Admin : GetJob(a) \/ RetryDlqJob(a) \/ RetryMailJob(a) \/ RemoveJob(a)
    \/ PauseOrResume

\* Requests and workers run on; nobody is obliged to resume the queue or to
\* retry a job, and a process need not die.
Fairness ==
    /\ \A d \in Post : WF_vars(Process(d))
    /\ \A j \in JobId : WF_vars(Work(j)) /\ WF_vars(OnFailed(j))
    /\ \A a \in Admin : WF_vars(RetryDlqJob(a) \/ RetryMailJob(a) \/ RemoveJob(a))

Spec == Init /\ [][Next]_vars /\ Fairness

-----------------------------------------------------------------------------
(* Properties. *)

JobsOf(e) == {j \in JobId : j[1] = e}

\* An event is marked PROCESSED only once the CRM has it, and reaches the CRM
\* or the queue only once its row is committed.
ProcessedAfterDelivery ==
    \A e \in Event :
        /\ row[e] = "PROCESSED" => e \in crm
        /\ kind[e] = "crm" /\ (e \in crm \/ \E j \in JobsOf(e) : job[j].state # "none")
           => row[e] # "absent"

\* A RECEIVED event, and a mail not yet sent, is on somebody's list: its post
\* is about to queue it, a job of it is waiting, running or kept as failed, or
\* it is one of those whose add was lost.  No sequence of failures, deaths,
\* retries and removals takes the last job of it away.
NothingIsForgotten ==
    \A e \in Event :
        (IF kind[e] = "crm" THEN row[e] = "RECEIVED" ELSE e \notin crm) =>
            \/ e \in unqueued \cup pending
            \/ \E d \in Post : event[d] = e /\ postPc[d] = "enqueue"
            \/ \E j \in JobsOf(e) : job[j].state \in Running \cup {"waiting", "failed"}

\* DEAD_LETTER is written only for an event one of whose jobs used up its attempts.
DeadLetterMeansExhausted ==
    \A e \in Event : row[e] = "DEAD_LETTER" => e \in exhausted

\* Unless the queue keeps being paused, every queued job ends, in spite of
\* failing calls, failing transactions and dying workers.
QueuedJobSettles ==
    <>[]~paused => \A j \in JobId :
        job[j].state = "waiting" ~> job[j].state \in {"completed", "failed", "removed"}
=============================================================================
