------------------------- MODULE CrmPipelineProofs -------------------------
(***************************************************************************)
(* The pipeline forgets no event and no mail, for any number of events,    *)
(* posts, retries and attempts.                                            *)
(***************************************************************************)
EXTENDS CrmPipeline, TLAPS

\* The jobs are those of an event: processEvent's, and one of each retry.
LEMMA JobIds ==
  /\ \A j \in JobId : j[1] \in Event /\ j[2] \in {Original} \cup Admin /\ j = <<j[1], j[2]>>
  /\ \A e \in Event : <<e, Original>> \in JobId /\ \A a \in Admin : <<e, a>> \in JobId
BY DEF JobId

-----------------------------------------------------------------------------
(* Types. *)

\* A job that waits or runs has an attempt left.
AttemptsLeft ==
  \A j \in JobId : job[j].state \in Running \cup {"waiting"} => job[j].attempts < MaxAttempts

TypeInv == TypeOK /\ AttemptsLeft

\* A failure uses up one attempt, and puts the job back or among the failed.
LEMMA FailStep ==
  ASSUME TypeInv, NEW j \in JobId, NEW unrecoverable \in BOOLEAN,
         job[j].state \in Running, FailJob(j, unrecoverable)
  PROVE  /\ job' \in [JobId -> Job] /\ AttemptsLeft'
         /\ notices' \in SUBSET JobId /\ exhausted' \in SUBSET Event
         /\ job'[j].state \in {"waiting", "failed"}
         /\ \A k \in JobId \ {j} : job'[k] = job[k]
<1> DEFINE attempts == job[j].attempts + 1
           again == ~unrecoverable /\ attempts < MaxAttempts
           failed == [state |-> IF again THEN "waiting" ELSE "failed",
                      attempts |-> attempts, stalls |-> job[j].stalls]
<1>1. job[j] \in Job /\ attempts \in 1..MaxAttempts
  BY ConstantsOK DEF TypeInv, TypeOK, AttemptsLeft, Job
<1>2. job' = [job EXCEPT ![j] = failed]
  BY <1>1 DEF FailJob, TypeInv, TypeOK
<1>3. failed \in Job
  <2>1. failed.state \in JobState /\ failed.attempts \in 0..MaxAttempts
    BY <1>1 DEF JobState
  <2>2. QED
    BY <1>1, <2>1 DEF Job
<1>4. job' \in [JobId -> Job] /\ \A k \in JobId \ {j} : job'[k] = job[k]
  BY <1>2, <1>3 DEF TypeInv, TypeOK
<1>5. /\ job'[j].attempts = attempts
      /\ job'[j].state = IF again THEN "waiting" ELSE "failed"
  BY <1>1, <1>2 DEF TypeInv, TypeOK, Job
<1>6. AttemptsLeft'
  BY <1>4, <1>5 DEF AttemptsLeft, TypeInv, Running
<1>7. notices' \in SUBSET JobId /\ exhausted' \in SUBSET Event
  BY JobIds DEF FailJob, TypeInv, TypeOK
<1>8. QED
  BY <1>4, <1>5, <1>6, <1>7

\* A change of a job's state keeps the types, if a job that is put back to
\* wait or to run had an attempt left.
LEMMA StateStep ==
  ASSUME TypeInv, NEW j \in JobId, NEW state \in JobState, SetState(j, state),
         state \in Running \cup {"waiting"} => job[j].state \in Running \cup {"waiting"}
  PROVE  /\ job' \in [JobId -> Job] /\ AttemptsLeft'
         /\ job'[j].state = state
         /\ \A k \in JobId \ {j} : job'[k] = job[k]
<1>1. job[j] \in Job
  BY DEF TypeInv, TypeOK
<1>2. job' = [job EXCEPT ![j] = [@ EXCEPT !.state = state]]
  BY DEF SetState
<1>3. [job[j] EXCEPT !.state = state] \in Job
  BY <1>1 DEF Job
<1>4. job' \in [JobId -> Job] /\ \A k \in JobId \ {j} : job'[k] = job[k]
  BY <1>2, <1>3 DEF TypeInv, TypeOK
<1>5. job'[j].state = state /\ job'[j].attempts = job[j].attempts
  BY <1>1, <1>2 DEF TypeInv, TypeOK, Job
<1>6. QED
  BY <1>4, <1>5 DEF TypeInv, AttemptsLeft

\* An add keeps the types; it makes the job wait, or leaves it as it is.
LEMMA AddStep ==
  ASSUME TypeInv, NEW j \in JobId, AddJob(j)
  PROVE  /\ job' \in [JobId -> Job] /\ AttemptsLeft'
         /\ job[j].state \in {"none", "removed"} => job'[j].state = "waiting"
         /\ job[j].state \notin {"none", "removed"} => job'[j] = job[j]
         /\ \A k \in JobId \ {j} : job'[k] = job[k]
<1>1. NewJob \in Job /\ NewJob.state = "waiting" /\ NewJob.attempts < MaxAttempts
  BY ConstantsOK DEF NewJob, Job, JobState
<1>2. job' \in [JobId -> Job] /\ \A k \in JobId \ {j} : job'[k] = job[k]
  BY <1>1 DEF AddJob, TypeInv, TypeOK
<1>3. job'[j] = IF job[j].state \in {"none", "removed"} THEN NewJob ELSE job[j]
  BY DEF AddJob, TypeInv, TypeOK
<1>4. QED
  BY <1>1, <1>2, <1>3 DEF TypeInv, AttemptsLeft

\* Every initial state has the types.
LEMMA TypeInit == Init => TypeInv
<1> SUFFICES ASSUME Init PROVE TypeInv
  OBVIOUS
<1>1. (CHOOSE e \in Event : TRUE) \in Event
  BY ConstantsOK
<1>2. target \in [Admin -> JobId]
  BY <1>1, JobIds DEF Init
<1>3. job \in [JobId -> Job] /\ AttemptsLeft
  <2>1. [NewJob EXCEPT !.state = "none"] \in Job
    BY ConstantsOK DEF NewJob, Job, JobState
  <2>2. \A j \in JobId : job[j].state = "none"
    BY DEF Init, NewJob
  <2>3. QED
    BY <2>1, <2>2 DEF Init, AttemptsLeft, Running
<1>4. QED
  BY <1>2, <1>3 DEF Init, TypeInv, TypeOK

\* No step of a post, a job or an administrator leaves the types.
LEMMA TypeStep == TypeInv /\ [Next]_vars => TypeInv'
<1> SUFFICES ASSUME TypeInv, [Next]_vars PROVE TypeInv'
  OBVIOUS
<1> USE JobIds DEF TypeInv, TypeOK, posts, admins, history
<1>1. ASSUME NEW d \in Post, FindByEventId(d) PROVE TypeInv'
  BY <1>1 DEF FindByEventId, Reply, Step, AttemptsLeft
<1>2. ASSUME NEW d \in Post, CreateEvent(d) PROVE TypeInv'
  BY <1>2 DEF CreateEvent, Reply, Step, SetRow, AttemptsLeft
<1>3. ASSUME NEW d \in Post, Enqueue(d) PROVE TypeInv'
  <2>1. job' \in [JobId -> Job] /\ AttemptsLeft'
    BY <1>3, AddStep DEF Enqueue, AttemptsLeft
  <2>2. QED
    BY <1>3, <2>1 DEF Enqueue, Reply
<1>4. ASSUME NEW d \in Post, PostDropped(d) PROVE TypeInv'
  BY <1>4 DEF PostDropped, Reply, AttemptsLeft
<1>5. ASSUME NEW e \in Event, EnqueueNotification(e) PROVE TypeInv'
  <2>1. job' \in [JobId -> Job] /\ AttemptsLeft'
    BY <1>5, AddStep DEF EnqueueNotification, AttemptsLeft
  <2>2. QED
    BY <1>5, <2>1 DEF EnqueueNotification
<1>6. ASSUME NEW j \in JobId, StartJob(j) PROVE TypeInv'
  <2>1. job' \in [JobId -> Job] /\ AttemptsLeft'
    BY <1>6, StateStep DEF StartJob, JobState, Running
  <2>2. QED
    BY <1>6, <2>1 DEF StartJob
<1>7. ASSUME NEW j \in JobId, CallCrm(j) PROVE TypeInv'
  <2>1. /\ job' \in [JobId -> Job] /\ AttemptsLeft'
        /\ notices' \in SUBSET JobId /\ exhausted' \in SUBSET Event
    <3>1. CASE SetState(j, "answered") /\ UNCHANGED <<notices, exhausted>>
      BY <1>7, <3>1, StateStep DEF CallCrm, JobState, Running
    <3>2. CASE FailJob(j, FALSE) \/ FailJob(j, TRUE)
      BY <1>7, <3>2, FailStep DEF CallCrm, Running
    <3>3. QED
      BY <1>7, <3>1, <3>2 DEF CallCrm
  <2>2. QED
    BY <1>7, <2>1 DEF CallCrm
<1>8. ASSUME NEW j \in JobId, SendEmail(j) PROVE TypeInv'
  <2>1. /\ job' \in [JobId -> Job] /\ AttemptsLeft'
        /\ notices' \in SUBSET JobId /\ exhausted' \in SUBSET Event
    <3>1. CASE SetState(j, "recorded") /\ UNCHANGED <<notices, exhausted>>
      BY <1>8, <3>1, StateStep DEF SendEmail, JobState, Running
    <3>2. CASE FailJob(j, FALSE)
      BY <1>8, <3>2, FailStep DEF SendEmail, Running
    <3>3. QED
      BY <1>8, <3>1, <3>2 DEF SendEmail
  <2>2. QED
    BY <1>8, <2>1 DEF SendEmail
<1>9. ASSUME NEW j \in JobId, RecordProcessed(j) PROVE TypeInv'
  <2>1. /\ job' \in [JobId -> Job] /\ AttemptsLeft'
        /\ notices' \in SUBSET JobId /\ exhausted' \in SUBSET Event
    <3>1. CASE SetState(j, "recorded") /\ UNCHANGED <<notices, exhausted>>
      BY <1>9, <3>1, StateStep DEF RecordProcessed, JobState, Running
    <3>2. CASE FailJob(j, FALSE)
      BY <1>9, <3>2, FailStep DEF RecordProcessed, Running
    <3>3. QED
      BY <1>9, <3>1, <3>2 DEF RecordProcessed
  <2>2. QED
    BY <1>9, <2>1 DEF RecordProcessed, SetRow
<1>10. ASSUME NEW j \in JobId, CompleteJob(j) PROVE TypeInv'
  <2>1. job' \in [JobId -> Job] /\ AttemptsLeft'
    BY <1>10, StateStep DEF CompleteJob, JobState, Running
  <2>2. QED
    BY <1>10, <2>1 DEF CompleteJob
<1>11. ASSUME NEW j \in JobId, WorkerDies(j) PROVE TypeInv'
  <2>1. /\ job' \in [JobId -> Job] /\ AttemptsLeft'
        /\ notices' \in SUBSET JobId /\ exhausted' \in SUBSET Event
    <3>1. CASE job[j].stalls < MaxStalled
      <4> DEFINE restarted == [state |-> "waiting", attempts |-> job[j].attempts,
                               stalls |-> job[j].stalls + 1]
      <4>1. job' = [job EXCEPT ![j] = restarted] /\ UNCHANGED <<notices, exhausted>>
        BY <1>11, <3>1 DEF WorkerDies
      <4>2. restarted \in Job /\ restarted.attempts = job[j].attempts
        BY <3>1, ConstantsOK DEF Job, JobState
      <4>3. QED
        BY <1>11, <4>1, <4>2 DEF WorkerDies, AttemptsLeft
    <3>2. CASE ~(job[j].stalls < MaxStalled)
      BY <1>11, <3>2, FailStep DEF WorkerDies
    <3>3. QED
      BY <3>1, <3>2
  <2>2. QED
    BY <1>11, <2>1 DEF WorkerDies
<1>12. ASSUME NEW j \in JobId, OnFailed(j) PROVE TypeInv'
  BY <1>12 DEF OnFailed, SetRow, AttemptsLeft
<1>13. ASSUME NEW a \in Admin, GetJob(a) PROVE TypeInv'
  BY <1>13 DEF GetJob, AttemptsLeft
<1>14. ASSUME NEW a \in Admin, RetryDlqJob(a) PROVE TypeInv'
  <2>1. target[a][1] \in Event /\ <<target[a][1], a>> \in JobId
    OBVIOUS
  <2>2. job' \in [JobId -> Job] /\ AttemptsLeft'
    BY <1>14, <2>1, AddStep DEF RetryDlqJob, AttemptsLeft
  <2>3. adminPc' \in [Admin -> {"getJob", "retry", "remove", "done"}]
    <3>1. \E stage \in {"remove", "done"} : adminPc' = [adminPc EXCEPT ![a] = stage]
      BY <1>14 DEF RetryDlqJob
    <3>2. QED
      BY <3>1
  <2>4. QED
    BY <1>14, <2>1, <2>2, <2>3 DEF RetryDlqJob, SetRow
<1>15. ASSUME NEW a \in Admin, RetryMailJob(a) PROVE TypeInv'
  <2>1. <<target[a][1], a>> \in JobId
    OBVIOUS
  <2>2. job' \in [JobId -> Job] /\ AttemptsLeft'
    BY <1>15, <2>1, AddStep DEF RetryMailJob, AttemptsLeft
  <2>3. adminPc' \in [Admin -> {"getJob", "retry", "remove", "done"}]
    <3>1. \E stage \in {"remove", "done"} : adminPc' = [adminPc EXCEPT ![a] = stage]
      BY <1>15 DEF RetryMailJob
    <3>2. QED
      BY <3>1
  <2>4. QED
    BY <1>15, <2>2, <2>3 DEF RetryMailJob
<1>16. ASSUME NEW a \in Admin, RemoveJob(a) PROVE TypeInv'
  <2>1. target[a] \in JobId
    OBVIOUS
  <2>2. job' \in [JobId -> Job] /\ AttemptsLeft'
    BY <1>16, <2>1, StateStep DEF RemoveJob, JobState, Running, AttemptsLeft
  <2>3. QED
    BY <1>16, <2>2 DEF RemoveJob
<1>17. CASE PauseOrResume
  BY <1>17 DEF PauseOrResume, AttemptsLeft
<1>18. CASE UNCHANGED vars
  BY <1>18 DEF vars, AttemptsLeft
<1>19. QED
  BY <1>1, <1>2, <1>3, <1>4, <1>5, <1>6, <1>7, <1>8, <1>9, <1>10, <1>11, <1>12, <1>13,
     <1>14, <1>15, <1>16, <1>17, <1>18 DEF Next, Process, Work

\* The types are an invariant.
LEMMA TypeInvariant == Spec => []TypeInv
BY TypeInit, TypeStep, PTL DEF Spec

\* Type correctness of the rows, the jobs and the retries.
THEOREM TypeCorrect == Spec => []TypeOK
BY TypeInvariant, PTL DEF TypeInv
-----------------------------------------------------------------------------
(* What a step of a worker changes. *)

\* A job that will be looked at again, by a worker or by an administrator.
Live(j) == job[j].state \in {"waiting", "active", "answered", "failed"}

\* The event still has to reach the CRM, or the mail its reader.
Due(e) == IF kind[e] = "crm" THEN row[e] = "RECEIVED" ELSE e \notin crm

\* A failed attempt leaves the job live, and notifies onFailed of no job but a
\* CRM job whose event it counts as exhausted.
LEMMA FailureNoticed ==
  ASSUME TypeInv, NEW j \in JobId, NEW unrecoverable \in BOOLEAN,
         job[j].state \in Running, FailJob(j, unrecoverable)
  PROVE  /\ job'[j].state \in {"waiting", "failed"}
         /\ \A k \in JobId \ {j} : job'[k] = job[k]
         /\ notices' \subseteq notices \cup {j} /\ exhausted \subseteq exhausted'
         /\ notices' = notices \/ (kind[j[1]] = "crm" /\ j[1] \in exhausted')
BY FailStep DEF FailJob

\* A worker touches one job, which it leaves live unless the event is no longer
\* due; it writes PROCESSED only for a job the CRM has answered.
LEMMA WorkStep ==
  ASSUME TypeInv, NEW j \in JobId, Work(j) \/ WorkerDies(j),
         job[j].state = "answered" => kind[j[1]] = "crm" /\ j[1] \in crm
  PROVE  /\ UNCHANGED <<posts, admins, unqueued>>
         /\ \A k \in JobId \ {j} : job'[k] = job[k]
         /\ job[j].state \in Running \cup {"waiting"}
         /\ job'[j].state \in Running \cup {"waiting", "failed", "completed"}
         /\ job'[j].state = "answered" => kind[j[1]] = "crm" /\ j[1] \in crm'
         /\ Live(j) => Live(j)' \/ ~Due(j[1])'
         /\ crm \subseteq crm' /\ crm' \subseteq crm \cup {j[1]}
         /\ row' = row \/ (row' = [row EXCEPT ![j[1]] = "PROCESSED"] /\ j[1] \in crm')
         /\ notices' \subseteq notices \cup {j} /\ exhausted \subseteq exhausted'
         /\ notices' = notices \/ (kind[j[1]] = "crm" /\ j[1] \in exhausted')
<1> USE JobIds DEF posts, admins, history, Live, Due, Running, JobState
<1>1. CASE StartJob(j)
  BY <1>1, StateStep DEF StartJob
<1>2. CASE CallCrm(j)
  <2>1. CASE SetState(j, "answered") /\ crm' = crm \cup {j[1]} /\ UNCHANGED <<notices, exhausted>>
    BY <1>2, <2>1, StateStep DEF CallCrm
  <2>2. CASE \E unrecoverable \in BOOLEAN : FailJob(j, unrecoverable) /\ crm' \in {crm, crm \cup {j[1]}}
    BY <1>2, <2>2, FailureNoticed DEF CallCrm
  <2>3. QED
    BY <1>2, <2>1, <2>2 DEF CallCrm
<1>3. CASE SendEmail(j)
  <2>1. CASE SetState(j, "recorded") /\ crm' = crm \cup {j[1]} /\ UNCHANGED <<notices, exhausted>>
    BY <1>3, <2>1, StateStep DEF SendEmail
  <2>2. CASE FailJob(j, FALSE) /\ crm' \in {crm, crm \cup {j[1]}}
    BY <1>3, <2>2, FailureNoticed DEF SendEmail
  <2>3. QED
    BY <1>3, <2>1, <2>2 DEF SendEmail
<1>4. CASE RecordProcessed(j)
  <2>1. kind[j[1]] = "crm" /\ j[1] \in crm /\ j[1] \in Event
    BY <1>4 DEF RecordProcessed
  <2>2. CASE SetRow(j[1], "PROCESSED") /\ SetState(j, "recorded") /\ UNCHANGED <<notices, exhausted>>
    <3>1. row'[j[1]] = "PROCESSED" /\ kind' = kind
      BY <1>4, <2>1, <2>2 DEF RecordProcessed, SetRow, TypeInv, TypeOK
    <3>2. QED
      BY <1>4, <2>1, <2>2, <3>1, StateStep DEF RecordProcessed, SetRow
  <2>3. CASE FailJob(j, FALSE)
    BY <1>4, <2>1, <2>3, FailureNoticed DEF RecordProcessed, SetRow
  <2>4. QED
    BY <1>4, <2>2, <2>3 DEF RecordProcessed
<1>5. CASE CompleteJob(j)
  BY <1>5, StateStep DEF CompleteJob
<1>6. CASE WorkerDies(j)
  <2>1. CASE job[j].stalls < MaxStalled
    BY <1>6, <2>1 DEF WorkerDies, TypeInv, TypeOK
  <2>2. CASE ~(job[j].stalls < MaxStalled)
    BY <1>6, <2>2, FailureNoticed DEF WorkerDies
  <2>3. QED
    BY <2>1, <2>2
<1>7. QED
  BY <1>1, <1>2, <1>3, <1>4, <1>5, <1>6 DEF Work
-----------------------------------------------------------------------------
(* An event is queued once it is stored, by one post; a retry has a job of   *)
(* its own, which nobody has loaded before the retry adds it.                *)

NoJobYet(e) == \A j \in JobId : j[1] = e => job[j].state = "none"

QueuedOnce ==
  /\ \A d \in Post : postPc[d] # "done" => kind[event[d]] = "crm"
  /\ \A d \in Post : postPc[d] = "enqueue" => row[event[d]] # "absent" /\ NoJobYet(event[d])
  /\ \A d, c \in Post : postPc[d] = "enqueue" /\ postPc[c] = "enqueue" /\ d # c => event[d] # event[c]
  /\ \A e \in pending : kind[e] = "mail" /\ NoJobYet(e)
StoredFirst ==
  /\ \A j \in JobId : kind[j[1]] = "crm" /\ job[j].state # "none" => row[j[1]] # "absent"
  /\ \A e \in crm : kind[e] = "crm" => row[e] # "absent"
DeliveredFirst ==
  /\ \A j \in JobId : job[j].state = "answered" => kind[j[1]] = "crm" /\ j[1] \in crm
  /\ \A e \in Event : row[e] = "PROCESSED" => e \in crm
RetriesFresh ==
  /\ \A a \in Admin : adminPc[a] \in {"getJob", "retry"} => \A e \in Event : job[<<e, a>>].state = "none"
  /\ \A a \in Admin : adminPc[a] \in {"retry", "remove"} => job[target[a]].state # "none"
Exhausted ==
  /\ \A j \in notices : kind[j[1]] = "crm" /\ j[1] \in exhausted
  /\ \A e \in Event : row[e] = "DEAD_LETTER" => e \in exhausted

OrderInv == QueuedOnce /\ StoredFirst /\ DeliveredFirst /\ RetriesFresh /\ Exhausted

\* Nothing is queued, delivered or retried at first.
LEMMA OrderInit == Init => OrderInv
<1> SUFFICES ASSUME Init PROVE OrderInv
  OBVIOUS
<1>1. \A j \in JobId : job[j].state = "none"
  BY DEF Init, NewJob
<1>2. QueuedOnce /\ StoredFirst /\ DeliveredFirst
  BY <1>1 DEF Init, QueuedOnce, NoJobYet, StoredFirst, DeliveredFirst
<1>3. RetriesFresh /\ Exhausted
  BY <1>1, JobIds DEF Init, RetriesFresh, Exhausted
<1>4. QED
  BY <1>2, <1>3 DEF OrderInv

\* Adding a job for a stored event that has one, or that the caller alone is
\* about to queue, keeps the order.
LEMMA OrderStep == TypeInv /\ OrderInv /\ [Next]_vars => OrderInv'
<1> SUFFICES ASSUME TypeInv, OrderInv, [Next]_vars PROVE OrderInv'
  OBVIOUS
<1> USE JobIds DEF posts, admins, history
<1>1. ASSUME NEW j \in JobId, Work(j) \/ WorkerDies(j) PROVE OrderInv'
  <2>1. /\ UNCHANGED <<posts, admins, unqueued>>
        /\ \A k \in JobId \ {j} : job'[k] = job[k]
        /\ job[j].state # "none" /\ job'[j].state # "none"
        /\ job'[j].state = "answered" => kind[j[1]] = "crm" /\ j[1] \in crm'
        /\ crm \subseteq crm' /\ crm' \subseteq crm \cup {j[1]}
        /\ row' = row \/ (row' = [row EXCEPT ![j[1]] = "PROCESSED"] /\ j[1] \in crm')
        /\ notices' \subseteq notices \cup {j} /\ exhausted \subseteq exhausted'
        /\ notices' = notices \/ (kind[j[1]] = "crm" /\ j[1] \in exhausted')
    BY <1>1, WorkStep DEF OrderInv, DeliveredFirst, Running
  <2>2. \A k \in JobId : (job'[k].state = "none") = (job[k].state = "none")
    BY <2>1
  <2>3. \A e \in Event : /\ (row'[e] = "absent") => (row[e] = "absent")
                         /\ row'[e] \in {row[e], "PROCESSED"}
                         /\ row'[e] = "PROCESSED" => e \in crm'
    BY <2>1 DEF OrderInv, DeliveredFirst, TypeInv, TypeOK
  <2>4. QueuedOnce'
    <3>1. \A e \in Event : NoJobYet(e) => NoJobYet(e)'
      BY <2>2 DEF NoJobYet
    <3>2. QED
      BY <2>1, <2>3, <3>1 DEF OrderInv, QueuedOnce, TypeInv, TypeOK
  <2>5. StoredFirst' /\ DeliveredFirst'
    <3>1. crm \in SUBSET Event /\ j[1] \in Event /\ kind' = kind
      BY <2>1 DEF TypeInv, TypeOK
    <3>2. row[j[1]] = "absent" => kind[j[1]] # "crm"
      BY <2>1 DEF OrderInv, StoredFirst
    <3>3. StoredFirst'
      BY <2>1, <2>2, <2>3, <3>1, <3>2 DEF OrderInv, StoredFirst
    <3>4. DeliveredFirst'
      BY <2>1, <2>3, <3>1 DEF OrderInv, DeliveredFirst
    <3>5. QED
      BY <3>3, <3>4
  <2>6. RetriesFresh'
    <3>1. UNCHANGED <<adminPc, target>> /\ \A a \in Admin : target[a] \in JobId
      BY <2>1 DEF TypeInv, TypeOK
    <3>2. \A a \in Admin, e \in Event : job'[<<e, a>>].state = "none" <=> job[<<e, a>>].state = "none"
      BY <2>2
    <3>3. QED
      BY <2>2, <3>1, <3>2 DEF OrderInv, RetriesFresh
  <2>7. Exhausted'
    BY <2>1, <2>3 DEF OrderInv, Exhausted
  <2>8. QED
    BY <2>4, <2>5, <2>6, <2>7 DEF OrderInv
<1>2. ASSUME NEW d \in Post, FindByEventId(d) \/ PostDropped(d) PROVE OrderInv'
  <2>1. /\ UNCHANGED <<kind, pending, event, row, job, notices, admins, crm, exhausted>>
        /\ \A c \in Post : postPc'[c] \in {postPc[c], "create", "done"}
        /\ \A c \in Post : postPc'[c] = "create" => postPc[c] # "done"
    BY <1>2 DEF FindByEventId, PostDropped, Reply, Step, TypeInv, TypeOK
  <2>2. QED
    BY <2>1 DEF OrderInv, QueuedOnce, NoJobYet, StoredFirst, DeliveredFirst, RetriesFresh, Exhausted
<1>3. ASSUME NEW d \in Post, CreateEvent(d) PROVE OrderInv'
  <2>1. CASE UNCHANGED row
    <3>1. /\ UNCHANGED <<kind, pending, event, job, notices, admins, crm, exhausted>>
          /\ \A c \in Post : postPc'[c] \in {postPc[c], "done"}
      <4>1. ~(row[event[d]] = "absent" /\ SetRow(event[d], "RECEIVED"))
        BY <2>1 DEF SetRow, TypeInv, TypeOK
      <4>2. QED
        BY <1>3, <4>1 DEF CreateEvent, Reply, TypeInv, TypeOK
    <3>2. QED
      BY <2>1, <3>1 DEF OrderInv, QueuedOnce, NoJobYet, StoredFirst, DeliveredFirst,
                        RetriesFresh, Exhausted
  <2>2. CASE row[event[d]] = "absent" /\ SetRow(event[d], "RECEIVED")
    <3>1. NoJobYet(event[d]) /\ event[d] \in Event /\ kind[event[d]] = "crm"
      BY <1>3, <2>2 DEF CreateEvent, OrderInv, StoredFirst, QueuedOnce, NoJobYet, TypeInv, TypeOK
    <3>2. \A c \in Post : postPc[c] = "enqueue" => event[c] # event[d]
      BY <2>2 DEF OrderInv, QueuedOnce
    <3>3. /\ UNCHANGED <<kind, pending, event, job, notices, admins, crm, exhausted>>
          /\ \A c \in Post \ {d} : postPc'[c] = postPc[c]
          /\ \A e \in Event \ {event[d]} : row'[e] = row[e]
          /\ row'[event[d]] = "RECEIVED"
      BY <1>3, <2>2 DEF CreateEvent, Reply, Step, SetRow, TypeInv, TypeOK
    <3>4. QueuedOnce'
      <4>1. \A c \in Post : event[c] \in Event
        BY DEF TypeInv, TypeOK
      <4>2. \A e \in Event : NoJobYet(e)' <=> NoJobYet(e)
        BY <3>3 DEF NoJobYet
      <4>3. \A c \in Post : postPc'[c] = "enqueue" => c = d \/ postPc[c] = "enqueue"
        BY <3>3
      <4>4. \A c \in Post : postPc'[c] # "done" => kind[event[c]] = "crm"
        BY <3>1, <3>3 DEF OrderInv, QueuedOnce
      <4>5. \A c \in Post : postPc'[c] = "enqueue" => row'[event[c]] # "absent" /\ NoJobYet(event[c])'
        BY <3>1, <3>3, <4>1, <4>2, <4>3 DEF OrderInv, QueuedOnce
      <4>6. \A e \in pending : e \in Event /\ kind[e] = "mail" /\ NoJobYet(e)'
        BY <4>2 DEF OrderInv, QueuedOnce, TypeInv, TypeOK
      <4>7. QED
        BY <3>2, <3>3, <4>3, <4>4, <4>5, <4>6 DEF OrderInv, QueuedOnce
    <3>5. StoredFirst' /\ DeliveredFirst' /\ RetriesFresh' /\ Exhausted'
      BY <3>3 DEF OrderInv, StoredFirst, DeliveredFirst, RetriesFresh, Exhausted, TypeInv, TypeOK
    <3>6. QED
      BY <3>4, <3>5 DEF OrderInv
  <2>3. QED
    BY <1>3, <2>1, <2>2 DEF CreateEvent
<1>4. ASSUME NEW j \in JobId, NEW e \in Event, j[1] = e, AddJob(j) \/ UNCHANGED job,
             \A d \in Post : postPc'[d] = "enqueue" => event[d] # e,
             e \notin pending', kind[e] = "crm" => row[e] # "absent",
             j[2] = Original \/ adminPc'[j[2]] \notin {"getJob", "retry"},
             \A d \in Post : postPc'[d] \in {postPc[d], "done"},
             \A a \in Admin : /\ adminPc'[a] = "getJob" => adminPc[a] = "getJob"
                              /\ adminPc'[a] = "retry" => adminPc[a] = "retry"
                              /\ adminPc'[a] = "remove" => adminPc[a] \in {"retry", "remove"},
             pending' \subseteq pending,
             \A f \in Event : row'[f] \in {row[f], "RECEIVED"},
             UNCHANGED <<kind, event, notices, target, crm, exhausted>>
      PROVE  OrderInv'
  <2>1. /\ \A k \in JobId \ {j} : job'[k] = job[k]
        /\ job'[j].state \in {job[j].state, "waiting"}
    BY <1>4, AddStep
  <2>2. QueuedOnce'
    <3>1. \A f \in Event : f # e /\ NoJobYet(f) => NoJobYet(f)'
      BY <1>4, <2>1 DEF NoJobYet
    <3>2. \A d \in Post : event[d] \in Event
      BY DEF TypeInv, TypeOK
    <3>3. \A f \in pending' : f \in Event /\ f # e /\ f \in pending
      BY <1>4 DEF TypeInv, TypeOK
    <3>4. \A d \in Post : postPc'[d] = "enqueue" => postPc[d] = "enqueue" /\ event[d] # e
      BY <1>4
    <3>5. \A d \in Post : postPc'[d] # "done" => kind[event[d]] = "crm"
      BY <1>4 DEF OrderInv, QueuedOnce
    <3>6. \A d \in Post : postPc'[d] = "enqueue" => row'[event[d]] # "absent" /\ NoJobYet(event[d])'
      BY <1>4, <3>1, <3>2, <3>4 DEF OrderInv, QueuedOnce
    <3>7. QED
      BY <1>4, <3>1, <3>3, <3>4, <3>5, <3>6 DEF OrderInv, QueuedOnce
  <2>3. StoredFirst' /\ DeliveredFirst'
    BY <1>4, <2>1 DEF OrderInv, StoredFirst, DeliveredFirst, TypeInv, TypeOK
  <2>4. RetriesFresh'
    <3>1. \A k \in JobId : job[k].state # "none" => job'[k].state # "none"
      BY <2>1
    <3>2. \A a \in Admin : adminPc'[a] \in {"retry", "remove"} => job'[target[a]].state # "none"
      BY <1>4, <3>1 DEF OrderInv, RetriesFresh, TypeInv, TypeOK
    <3>3. ASSUME NEW a \in Admin, adminPc'[a] \in {"getJob", "retry"}, NEW f \in Event
          PROVE  job'[<<f, a>>].state = "none"
      <4>1. <<f, a>> \in JobId /\ <<f, a>> # j /\ adminPc[a] \in {"getJob", "retry"}
        <5>1. j[2] # a
          BY <1>4, <3>3, ConstantsOK
        <5>2. <<f, a>> # j
          BY <5>1
        <5>3. adminPc[a] \in {"getJob", "retry"}
          BY <1>4, <3>3
        <5>4. QED
          BY <5>2, <5>3
      <4>2. QED
        BY <2>1, <4>1 DEF OrderInv, RetriesFresh
    <3>4. QED
      BY <1>4, <3>2, <3>3 DEF RetriesFresh
  <2>5. Exhausted'
    BY <1>4 DEF OrderInv, Exhausted, TypeInv, TypeOK
  <2>6. QED
    BY <2>2, <2>3, <2>4, <2>5 DEF OrderInv
<1>5. ASSUME NEW d \in Post, Enqueue(d) PROVE OrderInv'
  <2>1. /\ event[d] \in Event /\ <<event[d], Original>> \in JobId
        /\ kind[event[d]] = "crm" /\ row[event[d]] # "absent" /\ event[d] \notin pending
    BY <1>5 DEF Enqueue, OrderInv, QueuedOnce, TypeInv, TypeOK
  <2>2. \A c \in Post : /\ postPc'[c] \in {postPc[c], "done"}
                        /\ postPc'[c] = "enqueue" => event[c] # event[d]
    BY <1>5 DEF Enqueue, Reply, OrderInv, QueuedOnce, TypeInv, TypeOK
  <2>3. QED
    BY <1>5, <2>1, <2>2, <1>4 DEF Enqueue, Reply
<1>6. ASSUME NEW e \in Event, EnqueueNotification(e) PROVE OrderInv'
  <2>1. kind[e] = "mail" /\ <<e, Original>> \in JobId
    BY <1>6 DEF EnqueueNotification, OrderInv, QueuedOnce
  <2>2. \A c \in Post : postPc[c] = "enqueue" => event[c] # e
    BY <2>1 DEF OrderInv, QueuedOnce
  <2>3. QED
    BY <1>6, <2>1, <2>2, <1>4 DEF EnqueueNotification
<1>7. ASSUME NEW j \in JobId, OnFailed(j) PROVE OrderInv'
  <2>1. /\ j[1] \in Event /\ j[1] \in exhausted /\ kind[j[1]] = "crm"
        /\ notices' \subseteq notices
    BY <1>7 DEF OnFailed, OrderInv, Exhausted
  <2>2. \A e \in Event : row'[e] \in {row[e], "DEAD_LETTER"}
                         /\ (row'[e] # row[e] => e = j[1])
    BY <1>7 DEF OnFailed, SetRow, TypeInv, TypeOK
  <2>3. UNCHANGED <<posts, job, admins, history>>
    BY <1>7 DEF OnFailed
  <2>4. QED
    BY <2>1, <2>2, <2>3 DEF OrderInv, QueuedOnce, NoJobYet, StoredFirst, DeliveredFirst,
                            RetriesFresh, Exhausted, TypeInv, TypeOK
<1>8. ASSUME NEW a \in Admin, GetJob(a) PROVE OrderInv'
  <2>1. PICK j \in JobId : job[j].state # "none" /\ target' = [target EXCEPT ![a] = j]
    BY <1>8 DEF GetJob
  <2>2. RetriesFresh'
    BY <1>8, <2>1 DEF GetJob, OrderInv, RetriesFresh, TypeInv, TypeOK
  <2>3. QED
    BY <1>8, <2>2 DEF GetJob, OrderInv, QueuedOnce, NoJobYet, StoredFirst, DeliveredFirst, Exhausted
<1>9. ASSUME NEW a \in Admin, RetryDlqJob(a) \/ RetryMailJob(a) PROVE OrderInv'
  <2> DEFINE e == target[a][1]
  <2>1. /\ target[a] \in JobId /\ job[target[a]].state # "none"
        /\ e \in Event /\ <<e, a>> \in JobId
    BY <1>9 DEF RetryDlqJob, RetryMailJob, OrderInv, RetriesFresh, TypeInv, TypeOK
  <2>2. /\ \A d \in Post : postPc[d] = "enqueue" => event[d] # e
        /\ e \notin pending /\ (kind[e] = "crm" => row[e] # "absent")
    BY <2>1 DEF OrderInv, QueuedOnce, NoJobYet, StoredFirst
  <2>3. /\ \E stage \in {"remove", "done"} : adminPc' = [adminPc EXCEPT ![a] = stage]
        /\ adminPc[a] = "retry"
    BY <1>9 DEF RetryDlqJob, RetryMailJob
  <2>4. /\ adminPc'[a] \in {"remove", "done"}
        /\ \A b \in Admin \ {a} : adminPc'[b] = adminPc[b]
    BY <2>3 DEF TypeInv, TypeOK
  <2>5. /\ \A f \in Event : row'[f] \in {row[f], "RECEIVED"}
        /\ AddJob(<<e, a>>) \/ UNCHANGED job
        /\ UNCHANGED <<posts, notices, target, history>>
    BY <1>9 DEF RetryDlqJob, RetryMailJob, SetRow, TypeInv, TypeOK
  <2>6. QED
    BY <2>1, <2>2, <2>3, <2>4, <2>5, <1>4
<1>10. ASSUME NEW a \in Admin, RemoveJob(a) PROVE OrderInv'
  <2>1. target[a] \in JobId /\ job[target[a]].state # "none"
    BY <1>10 DEF RemoveJob, OrderInv, RetriesFresh, TypeInv, TypeOK
  <2>2. /\ \A k \in JobId \ {target[a]} : job'[k] = job[k]
        /\ job'[target[a]].state \in {job[target[a]].state, "removed"}
    BY <1>10, <2>1, StateStep DEF RemoveJob, JobState, Running
  <2>3. UNCHANGED <<posts, row, notices, target, history>>
    BY <1>10 DEF RemoveJob
  <2>4. \A b \in Admin : adminPc'[b] \in {adminPc[b], "done"}
    BY <1>10 DEF RemoveJob, TypeInv, TypeOK
  <2>5. \A k \in JobId : /\ (job'[k].state = "none") = (job[k].state = "none")
                         /\ job'[k].state = "answered" => job[k].state = "answered"
    BY <2>1, <2>2
  <2>6. QueuedOnce' /\ StoredFirst' /\ DeliveredFirst' /\ Exhausted'
    <3>1. \A e \in Event : NoJobYet(e) => NoJobYet(e)'
      BY <2>5 DEF NoJobYet
    <3>2. QueuedOnce'
      BY <2>3, <3>1 DEF OrderInv, QueuedOnce, TypeInv, TypeOK
    <3>3. StoredFirst' /\ DeliveredFirst' /\ Exhausted'
      BY <2>3, <2>5 DEF OrderInv, StoredFirst, DeliveredFirst, Exhausted
    <3>4. QED
      BY <3>2, <3>3
  <2>7. RetriesFresh'
    BY <2>3, <2>4, <2>5 DEF OrderInv, RetriesFresh, TypeInv, TypeOK
  <2>8. QED
    BY <2>6, <2>7 DEF OrderInv
<1>11. CASE PauseOrResume \/ UNCHANGED vars
  BY <1>11 DEF PauseOrResume, vars, OrderInv, QueuedOnce, NoJobYet, StoredFirst, DeliveredFirst,
               RetriesFresh, Exhausted
<1>12. QED
  BY <1>1, <1>2, <1>3, <1>5, <1>6, <1>7, <1>8, <1>9, <1>10, <1>11 DEF Next, Process

\* The order is an invariant.
LEMMA OrderInvariant == Spec => []OrderInv
BY OrderInit, OrderStep, TypeInvariant, PTL DEF Spec

\* An event is PROCESSED only after its delivery, and delivered or queued only
\* after its row is committed.
THEOREM DeliveredBeforeProcessed == Spec => []ProcessedAfterDelivery
<1>1. OrderInv => ProcessedAfterDelivery
  BY DEF OrderInv, StoredFirst, DeliveredFirst, ProcessedAfterDelivery, JobsOf
<1>2. QED
  BY <1>1, OrderInvariant, PTL

\* DEAD_LETTER is written only for an event one of whose jobs used up its attempts.
THEOREM DeadLettersExhausted == Spec => []DeadLetterMeansExhausted
<1>1. OrderInv => DeadLetterMeansExhausted
  BY DEF OrderInv, Exhausted, DeadLetterMeansExhausted
<1>2. QED
  BY <1>1, OrderInvariant, PTL
-----------------------------------------------------------------------------
(* Nothing is forgotten.  An event that is due, and whose add was not lost,  *)
(* has a live job that no administrator is about to remove: of the retries,  *)
(* the one that wrote RECEIVED last has added a job that none of the others, *)
(* which loaded theirs before, can have loaded.                              *)

AboutToQueue(e) ==
  e \in unqueued \cup pending \/ \E d \in Post : event[d] = e /\ postPc[d] = "enqueue"
Safe(j) == Live(j) /\ \A a \in Admin : adminPc[a] = "remove" => target[a] # j
Listed(e) == AboutToQueue(e) \/ \E j \in JobId : j[1] = e /\ Safe(j)

ListInv == \A e \in Event : Due(e) => Listed(e)

\* A mail is about to be queued, and an event not yet stored, at first.
LEMMA ListInit == Init => ListInv
BY DEF Init, ListInv, Due, Listed, AboutToQueue

\* A step that adds no due event and takes no job and no post off the list.
LEMMA ListKept ==
  ASSUME ListInv, \A e \in Event : Due(e)' => Due(e),
         \A e \in Event : Due(e)' /\ AboutToQueue(e) => Listed(e)',
         \A j \in JobId : Due(j[1])' /\ Safe(j) => Listed(j[1])'
  PROVE  ListInv'
BY DEF ListInv, Listed

\* No step takes the last live job of a due event away.
LEMMA ListStep == TypeInv /\ OrderInv /\ ListInv /\ [Next]_vars => ListInv'
<1> SUFFICES ASSUME TypeInv, OrderInv, ListInv, [Next]_vars PROVE ListInv'
  OBVIOUS
<1> USE JobIds DEF posts, admins, history
<1>1. ASSUME NEW j \in JobId, Work(j) \/ WorkerDies(j) PROVE ListInv'
  <2>1. /\ UNCHANGED <<posts, admins, unqueued>>
        /\ \A k \in JobId \ {j} : job'[k] = job[k]
        /\ Live(j) => Live(j)' \/ ~Due(j[1])'
        /\ crm \subseteq crm'
        /\ row' = row \/ row' = [row EXCEPT ![j[1]] = "PROCESSED"]
    BY <1>1, WorkStep DEF OrderInv, DeliveredFirst
  <2>2. \A e \in Event : Due(e)' => Due(e)
    BY <2>1 DEF Due, TypeInv, TypeOK
  <2>3. \A e \in Event : AboutToQueue(e) => AboutToQueue(e)'
    BY <2>1 DEF AboutToQueue
  <2>4. \A k \in JobId : Due(k[1])' /\ Safe(k) => Safe(k)'
    BY <2>1 DEF Safe, Live
  <2>5. QED
    BY <2>2, <2>3, <2>4, ListKept DEF Listed
<1>2. ASSUME NEW d \in Post, FindByEventId(d) \/ PostDropped(d) PROVE ListInv'
  <2>1. /\ UNCHANGED <<kind, pending, event, row, job, admins, crm>>
        /\ unqueued \subseteq unqueued'
        /\ postPc[d] = "enqueue" => event[d] \in unqueued'
        /\ \A c \in Post \ {d} : postPc'[c] = postPc[c]
    BY <1>2 DEF FindByEventId, PostDropped, Reply, Step, TypeInv, TypeOK
  <2>2. \A e \in Event : AboutToQueue(e) => AboutToQueue(e)'
    BY <2>1 DEF AboutToQueue
  <2>3. (\A e \in Event : Due(e)' <=> Due(e)) /\ \A k \in JobId : Safe(k) => Safe(k)'
    BY <2>1 DEF Due, Safe, Live
  <2>4. QED
    BY <2>2, <2>3, ListKept DEF Listed
<1>3. ASSUME NEW d \in Post, CreateEvent(d) PROVE ListInv'
  <2>1. /\ UNCHANGED <<kind, pending, event, job, admins, crm>>
        /\ unqueued \subseteq unqueued' /\ postPc[d] = "create"
        /\ \A c \in Post \ {d} : postPc'[c] = postPc[c]
    BY <1>3 DEF CreateEvent, Reply, Step, TypeInv, TypeOK
  <2>2. \A e \in Event : AboutToQueue(e) => AboutToQueue(e)'
    BY <2>1 DEF AboutToQueue
  <2>3. \A e \in Event : Due(e)' => Due(e) \/ AboutToQueue(e)'
    <3>1. row' = row \/ (SetRow(event[d], "RECEIVED") /\ (postPc'[d] = "enqueue" \/ event[d] \in unqueued'))
      BY <1>3 DEF CreateEvent, Step, TypeInv, TypeOK
    <3>2. \A e \in Event : row'[e] # row[e] => AboutToQueue(e)'
      BY <2>1, <3>1 DEF SetRow, AboutToQueue, TypeInv, TypeOK
    <3>3. QED
      BY <2>1, <3>2 DEF Due
  <2>4. \A k \in JobId : Safe(k) => Safe(k)'
    BY <2>1 DEF Safe, Live
  <2>5. QED
    BY <2>2, <2>3, <2>4 DEF ListInv, Listed
<1>4. ASSUME NEW d \in Post, Enqueue(d) PROVE ListInv'
  <2> DEFINE j == <<event[d], Original>>
  <2>1. event[d] \in Event /\ j \in JobId /\ NoJobYet(event[d])
    BY <1>4 DEF Enqueue, OrderInv, QueuedOnce, TypeInv, TypeOK
  <2>2. /\ UNCHANGED <<kind, pending, event, row, admins, crm>>
        /\ unqueued \subseteq unqueued'
        /\ \A c \in Post \ {d} : postPc'[c] = postPc[c]
    BY <1>4 DEF Enqueue, Reply, TypeInv, TypeOK
  <2>3. \A a \in Admin : adminPc[a] = "remove" => target[a] # j
    BY <2>1 DEF NoJobYet, OrderInv, RetriesFresh
  <2>4. event[d] \in unqueued' \/ Safe(j)'
    <3>1. CASE AddJob(j)
      BY <2>1, <2>2, <2>3, <3>1, AddStep DEF Safe, Live, NoJobYet
    <3>2. CASE ~AddJob(j)
      BY <1>4, <3>2 DEF Enqueue
    <3>3. QED
      BY <3>1, <3>2
  <2>5. \A k \in JobId : k[1] # event[d] /\ Safe(k) => Safe(k)'
    <3>1. \A k \in JobId : k[1] # event[d] => job'[k] = job[k]
      BY <1>4, <2>1, AddStep DEF Enqueue
    <3>2. QED
      BY <2>2, <3>1 DEF Safe, Live
  <2>6. Listed(event[d])'
    BY <2>1, <2>2, <2>4 DEF Listed, AboutToQueue
  <2>7. \A e \in Event : e # event[d] /\ Listed(e) => Listed(e)'
    BY <2>2, <2>5 DEF Listed, AboutToQueue
  <2>8. \A e \in Event : Due(e)' <=> Due(e)
    BY <2>2 DEF Due
  <2>9. QED
    BY <2>2, <2>6, <2>7, <2>8 DEF ListInv
<1>5. ASSUME NEW e \in Event, EnqueueNotification(e) PROVE ListInv'
  <2> DEFINE j == <<e, Original>>
  <2>1. j \in JobId /\ NoJobYet(e)
    BY <1>5 DEF EnqueueNotification, OrderInv, QueuedOnce
  <2>2. /\ UNCHANGED <<kind, event, postPc, row, admins, crm>>
        /\ unqueued \subseteq unqueued' /\ pending' = pending \ {e}
    BY <1>5 DEF EnqueueNotification
  <2>3. \A a \in Admin : adminPc[a] = "remove" => target[a] # j
    BY <2>1 DEF NoJobYet, OrderInv, RetriesFresh
  <2>4. e \in unqueued' \/ Safe(j)'
    <3>1. CASE AddJob(j)
      BY <2>1, <2>2, <2>3, <3>1, AddStep DEF Safe, Live, NoJobYet
    <3>2. CASE ~AddJob(j)
      BY <1>5, <3>2 DEF EnqueueNotification
    <3>3. QED
      BY <3>1, <3>2
  <2>5. \A k \in JobId : k[1] # e /\ Safe(k) => Safe(k)'
    <3>1. \A k \in JobId : k[1] # e => job'[k] = job[k]
      BY <1>5, <2>1, AddStep DEF EnqueueNotification
    <3>2. QED
      BY <2>2, <3>1 DEF Safe, Live
  <2>6. Listed(e)'
    BY <2>1, <2>4 DEF Listed, AboutToQueue
  <2>7. \A f \in Event : f # e /\ Listed(f) => Listed(f)'
    BY <2>2, <2>5 DEF Listed, AboutToQueue
  <2>8. \A f \in Event : Due(f)' <=> Due(f)
    BY <2>2 DEF Due
  <2>9. QED
    BY <2>6, <2>7, <2>8 DEF ListInv
<1>6. ASSUME NEW j \in JobId, OnFailed(j) PROVE ListInv'
  <2>1. UNCHANGED <<posts, job, admins, history>>
    BY <1>6 DEF OnFailed
  <2>2. \A e \in Event : Due(e)' => Due(e)
    BY <1>6, <2>1 DEF OnFailed, SetRow, Due, TypeInv, TypeOK
  <2>3. \A e \in Event : Listed(e) => Listed(e)'
    BY <2>1 DEF Listed, AboutToQueue, Safe, Live
  <2>4. QED
    BY <2>2, <2>3 DEF ListInv
<1>7. ASSUME NEW a \in Admin, GetJob(a) PROVE ListInv'
  <2>1. /\ UNCHANGED <<posts, row, job, history>>
        /\ \A b \in Admin : adminPc'[b] = "remove" => adminPc[b] = "remove" /\ target'[b] = target[b]
    BY <1>7 DEF GetJob, TypeInv, TypeOK
  <2>2. \A e \in Event : (Due(e)' => Due(e)) /\ (Listed(e) => Listed(e)')
    BY <2>1 DEF Due, Listed, AboutToQueue, Safe, Live
  <2>3. QED
    BY <2>2 DEF ListInv
<1>8. ASSUME NEW a \in Admin, RetryDlqJob(a) \/ RetryMailJob(a) PROVE ListInv'
  <2> DEFINE e == target[a][1]
             j == <<e, a>>
  <2>1. /\ e \in Event /\ j \in JobId /\ job[j].state = "none"
        /\ UNCHANGED <<posts, target, history>>
    BY <1>8 DEF RetryDlqJob, RetryMailJob, OrderInv, RetriesFresh, TypeInv, TypeOK
  <2>2. \A b \in Admin : adminPc[b] \in {"retry", "remove"} => target[b] # j
    BY <2>1 DEF OrderInv, RetriesFresh
  <2>3. adminPc[a] = "retry" /\ \E stage \in {"remove", "done"} : adminPc' = [adminPc EXCEPT ![a] = stage]
    BY <1>8 DEF RetryDlqJob, RetryMailJob
  <2>4. /\ \A b \in Admin \ {a} : adminPc'[b] = adminPc[b]
        /\ adminPc'[a] \in {"remove", "done"}
    BY <2>3 DEF TypeInv, TypeOK
  <2>5. AddJob(j) \/ (UNCHANGED <<row, job>> /\ adminPc'[a] = "done")
    BY <1>8 DEF RetryDlqJob, RetryMailJob, TypeInv, TypeOK
  <2>6. \A f \in Event : f # e => row'[f] = row[f]
    BY <1>8, <2>1 DEF RetryDlqJob, RetryMailJob, SetRow, TypeInv, TypeOK
  <2>7. \A k \in JobId : k[1] # e => job'[k] = job[k]
    BY <2>1, <2>5, AddStep
  <2>8. \A f \in Event : f # e /\ Due(f)' => Due(f) /\ Listed(f)'
    <3>1. \A k \in JobId : k[1] # e /\ Safe(k) => Safe(k)'
      BY <2>1, <2>4, <2>7 DEF Safe, Live
    <3>2. \A f \in Event : f # e /\ Due(f)' => Due(f)
      BY <2>1, <2>6 DEF Due
    <3>3. QED
      BY <2>1, <3>1, <3>2 DEF ListInv, Listed, AboutToQueue
  <2>9. Due(e)' => Listed(e)'
    <3>1. CASE AddJob(j)
      <4>1. Live(j)'
        BY <2>1, <3>1, AddStep DEF Live
      <4>2. Safe(j)'
        BY <2>1, <2>2, <2>3, <2>4, <4>1 DEF Safe
      <4>3. QED
        BY <2>1, <4>2 DEF Listed
    <3>2. CASE UNCHANGED <<row, job>> /\ adminPc'[a] = "done"
      BY <2>1, <2>4, <3>2 DEF ListInv, Due, Listed, AboutToQueue, Safe, Live
    <3>3. QED
      BY <2>5, <3>1, <3>2
  <2>10. QED
    BY <2>1, <2>8, <2>9 DEF ListInv
<1>9. ASSUME NEW a \in Admin, RemoveJob(a) PROVE ListInv'
  <2>1. /\ UNCHANGED <<posts, row, target, history>>
        /\ adminPc[a] = "remove" /\ target[a] \in JobId
        /\ \A b \in Admin : adminPc'[b] = "remove" => adminPc[b] = "remove"
    BY <1>9 DEF RemoveJob, TypeInv, TypeOK
  <2>2. \A k \in JobId : k # target[a] => job'[k] = job[k]
    BY <1>9, <2>1, StateStep DEF RemoveJob, JobState, Running
  <2>3. \A k \in JobId : Safe(k) => Safe(k)'
    BY <2>1, <2>2 DEF Safe, Live
  <2>4. \A e \in Event : (Due(e)' => Due(e)) /\ (Listed(e) => Listed(e)')
    BY <2>1, <2>3 DEF Due, Listed, AboutToQueue
  <2>5. QED
    BY <2>4 DEF ListInv
<1>10. CASE PauseOrResume \/ UNCHANGED vars
  <2>1. UNCHANGED <<posts, row, job, admins, history>>
    BY <1>10 DEF PauseOrResume, vars
  <2>2. \A e \in Event : (Due(e)' => Due(e)) /\ (Listed(e) => Listed(e)')
    BY <2>1 DEF Due, Listed, AboutToQueue, Safe, Live
  <2>3. QED
    BY <2>2 DEF ListInv
<1>11. QED
  BY <1>1, <1>2, <1>3, <1>4, <1>5, <1>6, <1>7, <1>8, <1>9, <1>10 DEF Next, Process

\* A RECEIVED event, or a mail not yet sent, is about to be queued, waiting,
\* running, kept as failed, or one of those whose add was lost.
THEOREM NothingForgotten == Spec => []NothingIsForgotten
<1>1. ListInv => NothingIsForgotten
  BY DEF ListInv, Due, Listed, AboutToQueue, Safe, Live, NothingIsForgotten, JobsOf, Running
<1>2. QED
  BY <1>1, ListInit, ListStep, OrderInvariant, TypeInvariant, PTL DEF Spec
=============================================================================
