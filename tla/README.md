# Enquiry Hub: TLA+ models and proofs

Enquiry Hub is a property-enquiry platform: a React application posts enquiries
to a NestJS backend (several Node processes under PM2), which stores them in
PostgreSQL, caches in Redis, queues mail and CRM work with BullMQ and reads the
property catalogue from WordPress. Its staff work on the enquiries in a console
of the same application. This directory models the parts of it whose correctness
depends on the order of steps of several actors. Paths below are relative to
`src/` or, where they are unambiguous, bare file names.

## 1. Inventory

### 1.1 Components

| Component | State it keeps | Operations | Correct when | Module |
|---|---|---|---|---|
| Enquiry submission (`enquiry.service.ts`, `enquiry.repository.ts`) | `enquiries` and `audit_logs` rows; Redis `idempotency:<key>` (24 h) and `enquiry:dup:<hash>` (10 min) | `create` | one row per key; one row per email and property within ten minutes; nothing is answered, cached or mailed about a row that is not committed; a started request ends | `EnquirySubmission`, `Submission` |
| Enquiry cache (`cache.service.ts`, `enquiry-cache.service.ts`) | Redis entries `enquiry:id:*`, `enquiry:list:*`, `lock:*`; `redisHealthy` | get with stale-while-revalidate, locked rebuild, write-through, mark stale | one rebuild per lock; a served entry does not lag behind the database for good; a waiter is answered | `EnquiryCache` |
| In-memory fallback (`in-memory-lru.cache.ts`) | per-process map, 60 s at most | get, set | used only while Redis is believed down | in the two above |
| Queues and workers (`webhook.service.ts`, `notification.producer.ts`, `crm-sync.worker.ts`, `email.worker.ts`) | `webhook_events.status`; BullMQ's lists | receive, queue, process, retry, dead-letter | an event is PROCESSED only after delivery; no RECEIVED event and no mail is forgotten | `CrmPipeline` |
| Dead-letter administration (`admin.controller.ts`, `admin-queue.controller.ts`) | the same | list, retry, pause, resume | a retry never loses the event | `CrmPipeline`, `ListPaging` |
| Pagination (`enquiry.repository.ts`, `audit.repository.ts`, `webhook.repository.ts`, `admin.controller.ts`, `gdpr.service.ts`) | none; cursors travel with the client | first page, next, previous | every row of a walk once | `ListPaging` |
| Rate limiter (`rate-limit.guard.ts`) | Redis sorted set; a map per process | sliding window, fixed window as fallback | at most `limit` requests per window through Redis, twice as many per process in memory; nobody refused without cause | `RequestGate` |
| Guards, load shedding, pipes, filter (`common/`, `observability/`) and the API client's retries (`client.ts`) | `EventLoopMonitor.shedding`; nothing else | refuse, validate, sanitize, map errors, repeat | a refused call has changed nothing; a stored text is found by itself; a call ends | `RequestPath`, `Sanitization` |
| Property catalogue and circuit breaker (`property/`, `circuit-breaker.factory.ts`) | breaker state and copies per process; Redis entries | list, detail; fire, trip, probe | bounded age of answers; an outage is not cached; the breaker closes again | `PropertyCatalogue` |
| GDPR, retention, updates (`gdpr.service.ts`, `retention.worker.ts`, `enquiry.service.ts`) | `enquiries`, `audit_logs`, `webhook_events`, caches | export, erase, archive, update status | erased data does not come back; the audit log follows the rows | `PersonalData`, `ListPaging` |
| Offline queue (`OfflineQueue.ts`, `OfflineBanner.tsx`) | `localStorage`, banner state | enqueue, flush | a queued enquiry is kept until the backend has it | `OfflineQueue` |
| Enquiry form and property list (`EnquiryFormPage.tsx`, `PropertyListPage.tsx`, `client.ts`) | React state, Apollo cache | submit with retries, search, load more, navigate | who is assured has a row; one row per submission; the pages in order | `Browser` |
| Staff console (`pages/`, `hooks/`, `auth/`, `ProtectedRoute.tsx`) | react-query cache, session in `localStorage` | open, poll, change, invalidate, log in and out | one's own change shows; answers in their order; a polled page catches up | `Console` |
| Graceful shutdown, health, observability, deployment scripts | none that anything reads back | | | not modelled (section 6) |

### 1.2 How they interact

A call passes the limiter (`APP_GUARD`), the content-type guard, the guards of
its route, the interceptors with load shedding, the pipes, its handler and the
exception filter: `RequestGate`, then `RequestPath`. A POST of an enquiry then
runs `EnquiryService.create` in one process: Redis (idempotency entry), Redis or
the process's own memory (duplicate marker), PostgreSQL (duplicate query, then
one transaction), Redis (idempotency entry, record, lists, marker), BullMQ. No
step holds a lock, so two requests meet only in PostgreSQL's unique index on
`idempotencyKey` and in the marker. `CacheService` never throws: a failure sets
the process-wide flag `redisHealthy` to false, after which reads and writes go
to that process's memory until an event or a ping says otherwise. GETs share an
entry and its lock with each other and with the updates that write or mark it.
A webhook's row and its job are written to two stores, one after the other; the
worker updates the row after its call to the CRM, and `onFailed` runs after
BullMQ has already moved the job. An erasure rewrites rows, audit records and
webhook events in one transaction, past updates that read before it and caches
it does not touch. In the browser, the client repeats attempts under new
idempotency keys, the banner's two effects start flushes of one `localStorage`
array, and the pages show answers of queries that later changes overtake.

### 1.3 What is hard

Every `await` is a point where other requests, other processes, a Redis failure,
an expiry or the death of the process fall in, and in the browser every answer
arrives in a page that may have changed. `PROJECT.json` lists each such place
under `hazards`, with its line and with the properties that cover it, or a note
if none does.

## 2. Modules

```
Submission  <- EnquirySubmission  <- MCEnquirySubmission, EnquirySubmissionProofs
               EnquiryCache       <- MCEnquiryCache, EnquiryCacheProofs
               CrmPipeline        <- MCCrmPipeline, CrmPipelineProofs
               PersonalData       <- MCPersonalData, PersonalDataProofs
               Console            <- MCConsole, ConsoleProofs
OfflineQueue + Browser            <- MCBrowser, BrowserProofs
               ListPaging         <- MCListPaging, ListProofs
               PropertyCatalogue  <- MCPropertyCatalogue, ListProofs
               RequestGate        <- MCRequestGate, RequestProofs
Sanitization <- RequestPath       <- MCRequestPath, RequestProofs
```

Each `MC` module extends its specification with the model values and symmetry
set of its configuration; `MCBrowser` joins the three parts of a tab, the queue, the form and the
list, which share nothing but the page shown, and has TLC look at one of them at a time; each `Proofs` module extends it with lemmas and
theorems. `BrowserProofs`, `ListProofs` and `RequestProofs` hold the proofs of two
modules each, which is why the second of the two has names of its own (`PathSpec`,
`PathTypeOK`, `browserVars`, `CatalogueNext`). Definitions whose comment starts with "Faulty variant" are the
mutants that `PROJECT.json` pairs with the properties: a plausible slip in the
code, put in the place of the definition that follows it. They are in no
next-state relation.

The modules are composed by what one assumes of another and not by one state
space: `Browser`, `OfflineQueue` and `RequestPath` reduce the backend to the rule that
`EnquirySubmission` proves (no second row of one pair to requests that follow
each other), `PersonalData` reduces the cache to fills that may be late, and
`Console` reduces the server's caches, which are `EnquiryCache`, to a version number.

### 2.1 EnquirySubmission and Submission

`pc[r]` is the await request `r` is at; the actions from
`GetIdempotencyResponse` to `EnqueueNotifications` are the stages of `create` in
its order (steps 1 to 7 of its comments). `Pair` stands for the hash of
normalised email and property id. A row is named after the request that inserted it.
`marker` and `idem` hold expiry times, `now` is a clock, and
`RedisLosesWrites` drops an entry, as Redis does when it restarts from its
append-only file. A Redis write that fails may have been applied. A transaction whose
connection fails is rolled back or committed without the handler knowing.
`MemoryEvicts` is the LRU's eviction of a marker before its time, in whatever order.
`WorkerCrash` ends the process's requests and empties its memory, which is also
what a deploy does: `main.ts` enables no shutdown hooks. The list and record
entries that `onEnquiryCreated` writes are read by no step of a POST; they are
the subject of `EnquiryCache`, and here only their effect on the health flag is
kept. `seen` is a history variable: the rows committed when a request arrived,
which is what makes a duplicate "sequential".

`Submission` is what a caller may rely on: five answers, each justified by the
committed rows at the moment it is given, and given once. It knows no marker, no
cache, no clock and no worker. `KeepsPromise` says that `EnquirySubmission`
implements it, with `rows` mapped to `stored`.

### 2.2 EnquiryCache

One entry, its lock, and the processes around it. `writeThrough`, chosen in the
first state and never changed, says whether the entry is a record
(`enquiry:id:*`, which an update writes anew) or a list (`enquiry:list:*`, which
`markStale` reads, asks the TTL of and writes back with `cachedAt = 0`). The
data is a version number. A GET is a pair of processes: `front` is answered,
`back` is the refresh started when a stale value was served. Ages and expiries
pass at any moment (there is no clock), which covers every choice of `staleTtl`,
`expireTtl`, `lockTtlMs` and `waitTimeoutMs`, and also an eviction by Redis or by
the LRU. The polls of `pollForCache` that find nothing leave the state as it is;
the action is the poll that ends it. An update of a record and of the lists
are two instances of the model rather than two steps of one: the entries have
no state in common but the health flag, which may change at any moment anyway.

An update commits, fails, or commits and fails: its connection is lost after the
COMMIT, the handler throws, and `onEnquiryUpdated` never runs (`Commit`). `Rewrite`
is a change by retention or an erasure, which never touch the cache. After its
answer a GET may be asked again (`AskAgain`).

`exposed` is a history variable, the proviso of the coherence property: the entry
lacks a commit that no update will bring it. It becomes so when a commit that nobody
announces meets it (`Unannounced`), when a fill or a write-through stores what a commit has overtaken
meanwhile, and when the update that should have replaced it fails to or dies
(`Missed`). It ends with the entry, by a later write or by its expiry. In each of
these cases the code does leave an old entry behind; `CoherentUnlessExposed` says that
nothing else does, and `EntryCatchesUp` that none of them lasts: after the last commit
the entry ends up as the last version or as none.

### 2.3 CrmPipeline

`row` is the status column, `job` BullMQ's record of a job (one list at a time,
attempts made, stalls). An event is a CRM webhook or a mail (`kind`). A post of a
webhook runs `FindByEventId`, `CreateEvent`, `Enqueue`; a mail of a committed enquiry
is queued by `EnqueueNotification` or lost there. A job is `StartJob`, then
`CallCrm` and `RecordProcessed`, or `SendEmail`, then `CompleteJob`; each may fail
where the code may. `WorkerDies` is BullMQ's stalled-job check, which puts the job
back `maxStalledCount` times and then fails it. `notices` are the failed jobs
whose `onFailed` is still to run. An admin's retry is `GetJob` (jobs of any
state: the code looks a job up by its id), `RetryDlqJob` (update, audit row and
`queue.add` in one transaction, which may roll back with the job added) or
`RetryMailJob` (no transaction), and `RemoveJob`. A retry's new job id contains
the time; here it contains the administrator. `unqueued`, `exhausted` and `crm`
are history variables.

BullMQ, Redis and the CRM are not in the repository; those definitions are
marked external in the map and follow from how the code uses them and from
BullMQ's documented lists. `sendEmail` is a placeholder in the code; the model
lets it fail, as `process` expects of it.

### 2.4 OfflineQueue

`flush[f]` is a flush in progress: what it has still to post, what failed, and
whether it is `current`, that is, not cancelled by the cleanup of the effect
that started it. `GoOnline` and `FinishFlush` include the effects that React
runs on the change of `isOnline` and `pendingCount`. A POST may succeed, be
refused, or succeed with its answer lost. `Reload` ends all flushes and runs the
effects of the first render.

### 2.5 ListPaging

All lists of the backend behind one client: `query`, chosen in the first state,
says which list, which sort column and direction, and of which entity an export
is. `Page` is the query for a cursor, `NextCursor` and `PreviousCursor` what the
answer carries; `PreviousPage` asks for rows after the cursor it was given, as the
code does. The dead-letter list is paged by position. Rows
are inserted, touched (they may enter or leave the filter), erased (`Erase`: an export loses
the records of the email, the audit records rewritten enter or leave a filter by
`performedBy`) and deleted between any two pages. `steady` is a history variable: the rows that were listed during the
whole walk.

### 2.6 PropertyCatalogue

The list (through `PropertyCacheService`) and the detail (directly) both call
`WordPressClient.fireWithFallback`. Data is named by its age, so the question is
how old an answer may be. The breaker counts fires and failures of its rolling
window, as opossum does: it trips on more than half of at least
`volumeThreshold` calls, or on a failed probe, and half-open lets one call
through. A failed call, or a rejected one while it is open, reads the copy.

### 2.7 RequestGate

`Arrive` reads the clock and sends the MULTI; `Exec` runs it in Redis at any
later moment until the timeout (the answer is taken) or after it (the entry
counts, nobody waits), or runs it and the client, which saw no answer before its connection
ended, sends it again; `Dropped` loses it. `FallBack` decides in the memory of the
worker. A `Worker` is one process: `Crash` ends it with its memory and its requests, and the
process PM2 starts in its place is another element, which begins with an empty memory. A request of the model is made once, so `req` is also the history the
properties read.

### 2.8 PersonalData

`row`, `audit`, `payload`, `cached` and `response` are the places that hold a
person's data: the row, its audit records in the order of their commits, the webhook
events, the cached record and the stored idempotency response. A creation and an
update are followed to their last cache write; `EraseData` is the Serializable
transaction of `GdprService`. `ArchiveOldEnquiries` and `DeleteOldWebhookEvents`
are the retention job, `Fetch` and `WriteFetched` a refresh of the cache.

### 2.9 Browser

The form: `Submit`, the attempts of `requestWithRetry` at the backend (each may
be lost, given up by the browser while the backend still runs it, or answered),
`onSuccess` and `onError` in a form that may have been left. The list: `Search`,
`LoadMore` and the answers that arrive in any order or fail (`SearchFails` shows the
error page, `MoreFails` leaves the list). The backend checks for a recent row
and inserts one in two steps. `crowded`, `mixed` and `outage` are history
variables, the provisos of its properties.

### 2.10 Console

One query of the pages, chosen in the first state, and the changes that show in
it. `Affects[kind]` says in which queries a change of a kind shows, and
`Invalidates[kind]` which of them its `onSuccess` invalidates. `OwnChangeShown` is
about the queries invalidated; the others are listed in section 4.3, and
`StatusChangeShown`, which the code violates, is about one of them. `Open`
includes `ProtectedRoute`. A change is clicked, lands at the server or not, is
repeated, and is answered; `LandLate` is an attempt given up that reaches the server after
all. The session is read from `localStorage` at `Reload`, where another tab may have
left anyone.

### 2.11 RequestPath and Sanitization

One call at a time, with its attempts: `Guard` (the guards in their order),
`Shed`, `Run` (pipe, validation, handler, filter), `Receive` and `Lose` at the client. A
lost attempt may be run late. The answer's status is what the exception filter
makes of the exception, and what the caller is told is what the client makes of
the status. `Sanitization` is the pipe's string function, over sequences of tokens
(`Token`, of which `Mark` are those the pipe looks for or writes). The rest of an entity
after its `&` is one token, so a tag that splits an entity further in (`&l<b>t;`) is
represented by one that splits it behind the `&` (`&<b>lt;`): the pipe joins
both alike.

## 3. Runs

| Run | Checks | Instance | Distinct states |
|---|---|---|---|
| `submission_posts` | `NoSequentialDuplicate`, `OneEnquiryPerKey`, `KeepsPromise`, `EveryRequestAnswered` | 2 requests, 2 workers, 1 key or none, 1 pair; window 2, idempotency 2, fallback 1, clock to 2 | 324,280 |
| `submission_race` (violated) | `ExactlyOneRecord` | as above, 1 worker | |
| `cache_updates` | `CoherentUnlessExposed`, `NoOldAnswer`, `EveryReaderServed`, `EntryCatchesUp` | 1 GET at a time, 2 updates, 1 worker, 3 versions, record and list | 516,710 |
| `crm_jobs` | `ProcessedAfterDelivery`, `NothingIsForgotten`, `QueuedJobSettles` | 1 webhook or mail, 2 posts, 2 attempts, 1 stall, 1 administrator | 75,860 |
| `lists_pages` | `TypeOK`, `NoRowTwice`, `NoRowMissed`, `JobsOff`, `ExportWithRoomIsComplete` | 3 rows, pages of 2, two instants; every list, column, direction and entity | 905,092 |
| `catalogue_outage` | `CatalogueTypeOK`, `ServedWithinTwiceExpire`, `OutageIsNotCached`, `BreakerRecovers` | 1 list and 1 detail request, stale 1, expiry 2, volume 2 | 564,078 |
| `gate_limits` | `RedisKeepsTheLimit`, `MemoryKeepsTwiceTheLimit`, `RefusedForCause` | 3 requests, 2 workers, limit 1, window 3, timeout 1, clock to 5 | 3,435,490 |
| `personal_erasure` | `ErasedForGood`, `NamedOnlyByOverlap`, `AuditTellsStatus`, `CachesForget` | 1 enquiry, 2 updates | 146,581 |
| `browser_tab` | `LostOnlyByOverlap`, `ReconnectFlushes`, `AssuredIsStored`, `WipedIsStored`, `OneRowUnlessCrowded`, `PagesInOrder` | 2 enquiries queued, 3 flushes at once, 2 rows per enquiry; 2 drafts, 2 submissions, 2 requests at a time, 3 attempts; 4 pages, a list of up to 5 | 190,890 |
| `console_pages` | `OwnChangeShown`, `AnswersGetNewer`, `PagesCatchUp` | 1 change here, 1 elsewhere, 2 attempts, every query and role | 814,023 |
| `console_detail` (violated) | `StatusChangeShown` | as above, 1 attempt, nothing elsewhere | |
| `path_calls` | `PathTypeOK`, `RefusedIsNotApplied`, `CopiedTextFinds`, `EveryCallEnds` | 2 calls, 2 attempts, 5 lags, 86 texts | 365,022 |

What they show, in the words of the code:

* `submission_posts`: a lost marker, a stale fallback, an expired idempotency entry, a
  second worker or a crash never lets a sequential resubmission through, nor
  gives one key two enquiries; and nobody is told anything the rows do not bear
  out.
* `cache_updates`: apart from the exposures of section 2.2, an entry that no update is about to
  write or mark is the database's version, and nobody is answered with a version older than one
  acknowledged before he asked. A GET never hangs on a lock whose owner died or never knew
  that it has it. An exposure ends: after the last commit Redis is left with the last
  version or with none, also when nothing announced the commit.
* `crm_jobs`: whatever fails, dies, is retried or paused, an unfinished event or mail is
  in a list somebody looks at, except where the add itself was lost
  (`unqueued`): such an event is re-queued by nobody.
* `lists_pages`: a cursor walk by `createdAt` shows every row that stays listed, and
  none twice. The dead-letter list and the export of all entities do not keep
  this; what they keep is `JobsOff` and `ExportWithRoomIsComplete`.
* `catalogue_outage`: an answer may be up to twice `expireTtl` old, since one cache
  is filled from the other, and no older; the breaker always finds its way back.
* `gate_limits`: the limit holds for any window shortened by the time a MULTI may be
  late, for one worker process twice the limit in memory; a refusal always has its cause,
  though MULTIs run late or twice and workers die. A restarted worker counts from nothing:
  twice the limit is a bound for each process, not for a series of them.
* `personal_erasure`: nothing under way brings an erased name back into the row; only
  an update that overlaps the erasure brings it back into the audit log; the caches
  forget, though they are not told.
* `browser_tab`: the only way to lose a queued enquiry is to queue it during a
  flush (`EnquiryFormPage.tsx:144` tells the user it will be sent). Toasts of success and of
  duplicates tell the truth; a reset of the form loses only what was typed over a pending
  submission; a second row needs two attempts at the backend at once. The list is the
  catalogue in order, but for a search that overtakes a `fetchMore` and a catalogue that is
  down for an answer.
* `console_pages`: own changes show in the queries their handlers invalidate, in spite
  of fetches and other changes crossing, unless the last fetch failed or was overtaken; what a
  page shows never gives way to an earlier answer; a polled page catches up.
* `path_calls`: a refusal that arrives without a lost attempt before it means that nothing
  was changed; the search finds a copied text unless a tag had split an entity.

**Why the bounds are enough.** Two requests suffice for every pairwise property
of `EnquirySubmission`; the fact that holds of each pair does not depend on a
third request, as the proof shows for any number. With windows 2, 2 and 1 and a
clock to 2 the marker, the fallback copy and the idempotency entry each expire
before or during a request. Two pairs would only keep two requests apart.
`cache_updates` has two updates and a GET that is asked again whenever it has ended, also by a
process that died, so that it meets locks of its predecessors; what needs two GETs at once (two
builders, a waiter beside a live owner) is covered by the theorems, for any number, and a waiter's
end depends on nobody else (`PollForCache`).
Three versions let an update be overtaken and its overtaker too. Two attempts have a
first and a last one, and one stall is BullMQ's default; the proofs hold for any number. Two flushes of two
enquiries are the least that can overwrite each other, and the third lets a
flush start while two overlap. Three rows and pages of two make a full page, a last
one and a row that moves between them. Two calls in the volume of the breaker
make it trip by rate, and a list and a detail request compete for its probe. Three requests
make one more than twice the limit; the clock's five instants are a window, its boundary and
the delay of a MULTI. With four pages the list has an inner one to lose or to repeat, and `MaxShown`
leaves room for one too many. One change is enough for `OwnChangeShown` to be broken by another's, and its proof
is for any number. The texts are all of up to three tokens and one that splits an entity by a
tag. `Flush`, `MaxRows`, `MaxFires`, `MaxShown`, `MaxElsewhere`, `MaxCalls`,
`MaxTime`, `MaxVersion` and the size of `Mutation` and `Attempt` in `Browser` are bounds of
the models and not of the code.

**Deadlock** is checked in every run. `RequestGate` and `RequestPath` end in
`Finished`, the end of the history the bounds allow; in the others something can
always change: Redis, the clock, the lock, the network, the user.

### 3.1 Fairness

* `EnquirySubmission`: weak fairness of `Handle(r)`. Every await is bounded:
  `commandTimeout` 2 s for Redis, 10 s for the transaction, a bounded number of
  reconnects for a queue's add. A request is not obliged to arrive, and neither
  a recovery of Redis nor a tick is assumed.
* `EnquiryCache`: weak fairness of `Serving(r)` for the same reason;
  `waitTimeoutMs` bounds the polling. The lock need not expire and a dead
  process's lock need not be released: the waiters give up on their own. Weak fairness
  of `EntryAges`, since `set` gives every key a TTL and a marked one keeps it
  (`cache.service.ts:175`, `:439`). No GET is obliged to be asked, and no update to go on.
* `CrmPipeline`: weak fairness of each post's, job's and started retry's steps.
  Nobody must resume the queue, which is why `QueuedJobSettles` assumes that it
  is not paused for ever or again and again.
* `PropertyCatalogue`: weak fairness of each request's next step (the client's timeout
  is 5 s) and of the breaker's timers. That WordPress answers and requests keep
  coming is the property's hypothesis.
* `PersonalData`: weak fairness of creations, updates and cache writes under
  way and of the expiry of a response, strong fairness of the expiry of a cache entry,
  which each later write may put off but which has a TTL every time.
* `Console`: weak fairness of `Poll`, strong fairness of `Answer` and `Arrive`:
  a query that is asked again and again gets through again and again. A user
  need not do anything.
* `RequestPath`: weak fairness of the server's step and of the client's, which
  takes an answer or runs into its timer.
* `OfflineQueue`, `ListPaging`, `RequestGate`, `Browser`: none. Their properties
  are safety properties.

### 3.2 What the violated runs show

`submission_race`: `findDuplicate` is outside the transaction that inserts, so
two concurrent POSTs of one email and property both insert
(`enquiry.service.ts:66`, `:80`). The regression test
`backend/test/regression/race-condition.spec.ts:24` promises one record.
Requests that follow each other are safe: `NoSequentialDuplicate`.

`console_detail`: somebody changes the status of an enquiry in the list, opens its record while
the change is under way, gets the record from before it, and is told of the success;
the record on the screen keeps its old status. The same happens when the record was opened
less than 30 s before. `useUpdateEnquiryStatus.ts:20-21` invalidates `['enquiries']` and
`['audit']`; the record's key is `['enquiry', id]` (`EnquiryDetailPage.tsx:65`), and it is not polled.
`docs/frontend-architecture.md:315` says that the hook "Invalidates affected queries" (and
has an optimistic UI, of which there is none). The queries that are invalidated do show the change:
`OwnChangeShown`.

## 4. Seen while modelling, without a run of its own

Each of these is what the models do because the code does it; where a property
has a proviso, this is usually why.

### 4.1 Submission, cache and queues

* A retry under the key of an answered enquiry gets a 409, not the original
  response, when the Redis entry is missing or unreadable
  (`enquiry.service.ts:44`; `docs/SECURITY_REPORT.md:181`).
* `markStale` writes `cachedAt = 0`, and `getWithSWR` takes an entry that old
  for expired, not for stale: after every write the list GETs miss and wait,
  where the comments (`cache.service.ts:422`, `enquiry-cache.service.ts:98`)
  promise a stale answer with a refresh behind it. `pollForCache` reads with
  `get()`, which ignores `cachedAt`: such a GET is answered with that very entry at
  its first poll (`cache.service.ts:508`, against `:366`).
* An event whose `queue.add` failed has a row, is answered as a duplicate when
  posted again, and is re-queued by nobody, though `webhook.service.ts:71` says it
  can be reprocessed.
* Two concurrent posts of one `eventId`: the second gets a 409 where
  `webhook.controller.ts:32` says 200 for duplicates.
* A job failed by a 4xx (`UnrecoverableError`) before its last attempt leaves
  its row RECEIVED: `onFailed` counts attempts (`crm-sync.worker.ts:192`,
  against `docs/deliverables.md:378`).
* `queue.add` inside the retry's transaction is not undone by its rollback
  (`admin-queue.controller.ts:78`, against `:48`), and the retry resets an event
  that is already PROCESSED (`:53`, against `:52`).
* `main.ts` enables no shutdown hooks, so `GracefulShutdownService` never runs
  on SIGTERM, and `tracing.ts:51` exits the process once the tracer is shut down
  (against `docs/SECURITY_REPORT.md:35`). Backoff "1s, 4s, 16s"
  (`docs/deliverables.md:222`) is 1 s and 2 s in BullMQ's exponential form.

### 4.2 Lists, catalogue, limiter, personal data

* "Previous" moves forward: the cursor it sends is the page's first row, and the
  query asks for what comes after (`enquiry-response.dto.ts:49`).
* Sorting by another column than `createdAt` with a cursor that names
  `createdAt` repeats and skips rows (`enquiry.repository.ts:183` says so;
  `docs/deliverables.md:491` claims stable pagination). An export of all entities
  ends without the audit records or starts again; the page shows only its first part.
* A half-open breaker rejects the second call with `opened` false, so that call
  fails although a copy exists. `invalidateCache` has no caller. Search and sort
  are never passed to WordPress.
* Requests of one millisecond share a member of the sorted set and count once;
  refused requests count too. The memory limit is per worker process, and `fallbackStore` is never purged.
* The erasure leaves the queues' job data (30 days, or for ever if failed), the
  email in `entityId` of its own audit record (`gdpr.service.ts:145`) and the
  audit names of updates that overlap it (`docs/deliverables.md:253`: "Complete
  data removal across tables"). The email path parameter of export and erasure is
  not lowercased by the pipe, while the stored emails are.

### 4.3 The API and the browser

* The client's retry carries a new `Idempotency-Key` (`client.ts:69`), so an
  enquiry whose answer was lost can make a second row
  (`docs/frontend-architecture.md:529`).
* The backend's code is `RATE_LIMITED`; the form waits for `RATE_LIMIT_EXCEEDED`
  (`EnquiryFormPage.tsx:161`), so its countdown never appears. Leaving the page loses the
  error's toast. Edits made during a pending submission are wiped.
* The exception filter puts `request_id` inside `error`, where the client does not
  look; refusals of guards carry none at all. Custom codes (`LOAD_SHEDDING`,
  `WEBHOOK_INVALID_SIGNATURE`) are replaced by those of the status. The client ignores
  `Retry-After`. A webhook's signature is checked over the re-serialised body, since no
  raw body is kept.
* The pipe is not idempotent where a tag splits an entity (`&<>lt;`), against
  `sanitization.pipe.ts:10`.
* Not invalidated by the change that shows in them: the record of an enquiry by a status
  update (`console_detail`), the audit list by a retry, the lists, the record and the audit list by an
  erasure. A
  failing change invalidates nothing, though it may have landed. A failing
  dead-letter query shows "No failed jobs". The dashboard shows zeros and fixed shares
  while it has no data.
* The select for the status is hidden from whom may not change one
  (`AdminDashboardPage.tsx:72`, `:266`, `:332`); the buttons of the queues and of the GDPR page ask
  for nothing beyond the permission of their page. `GDPR_ERASE` is unused, and
  whoever may export may erase. A logout leaves the query cache and other tabs as they are. The 401
  handler removes a key nobody sets.

## 5. Proofs

Eight modules hold 46 listed theorems, for any sets of requests, workers, keys,
events, readers, writers, updates, changes, attempts, rows and texts. Every
invariant and every safety property that a run checks is among them. The only
assumptions are those on the constants, which TLC evaluates in the runs: the "absent"
values are no members of the sets they complete; readers and writers, and list and
detail requests, are disjoint; limits, windows and bounds are natural numbers, positive
where the code has a page, an attempt or a limit; the limiter's timeout is less
than its window, and `Stale` at most `Expire`; row ids are finitely many numbers, the
browser's requests at a time finitely many; texts are sequences of tokens, and
`Mark` is among the tokens.

**EnquirySubmissionProofs.** `TypeInv` adds to `TypeOK` that the idempotency
steps are reached only with a key. `RowInv` makes `NoSequentialDuplicate` and
`OneRecordPerKey` inductive: a request has no row before its insert and has one behind
it (`InsertedAtInsert`), what it saw at its arrival stays committed and
no row is of the future (`HistoryOK`), and a request about to insert has
read that every row it saw is out of the window (`WindowPassed`). The last one
is the heart of the argument: it survives everything that happens between
`findDuplicate` and the insert, since rows seen at the arrival do not change and
time only takes them further away; it does not speak of rows committed since,
which is exactly the race of `submission_race`. `EffectInv` adds that answers
name committed rows of the request's key (`AnswersNameRows`); with the unique
index it gives `OneEnquiryPerKey`. `Implementation` is the refinement: under these
invariants and `Unanswered` every step of the handler is a step of
`Submission` or a stutter (`PromisedStep`).

**EnquiryCacheProofs.** `BuilderInv`: whoever rebuilds the entry holds the lock
or has overrun it; two cannot both hold it (`LockExcludes`). `CoherenceInv`: as
long as `exposed` is false, every version that an entry being served lacks was written by
an update still on its way to the cache (`LagIsPending`); a commit that no update will announce
(`Rewrite`, or a `Commit` that ends in an error) sets `exposed`, unless there is no
entry. `Coherence` follows, because with no update on its way nothing can be lacking.
`AnswerInv` relates versions to the newest update that
has returned (`acked`): an unexposed entry is at least that new (`HitsAreAcked`), and what a
request fetches after it asked is at least the `floor` it started from (`AnswersAreNew`).

**CrmPipelineProofs.** `OrderInv`: an event's first job is added once, a row comes
before its jobs, delivery before PROCESSED, a retry's job does not exist before
the retry, a failure's notice stands for an exhausted job. It gives
`DeliveredBeforeProcessed` and `DeadLettersExhausted`. `ListInv` strengthens
`NothingIsForgotten`: the live job of an event that is due is one that no
administrator is about to remove. Of several retries, the one that wrote
RECEIVED last has added a job that none of the others, which loaded theirs
before, can have loaded.

**BrowserProofs**, on the offline queue. `KeptInv`: an enquiry not queued during a
flush is, until the backend has it, in the queue and in every flush in progress (in what
it has still to post or has kept), so that whichever flush ends last stores it again.
`CurrentInv` gives `OneReports`; `ReconnectTries` is an action property.

On the form and the property list. `FormInv` says whose request is whose: a
submission that waits does so for one request about its draft (`AwaitedInv`), so an answer
that assures the user is an answer about his enquiry (`AssuredAreStored`,
`WipedAreStored`). `RowsInv` is the argument for one row: while no two requests about
a draft have been at the backend at once, a request whose check found nothing is
the only one, and there still is no row. `PagesInv` ties the cursor to the list
(`OrderInv`): each page awaited is the one after the last, until a search overtakes a
`fetchMore`; `EndInv` says that the list ends before the catalogue does only when that was
down (`PagesAreInOrder`).

**ListProofs**, on pagination. First what a page is, for any order and any rows: `Before`
is total, `RankOrder` and `FirstIsInitial` say that the first rows of a set are those
before all others, `FirstOfTwo` that a page of the export is one of the two entities
followed by one of the other. The counts need induction on finite sets, which the
library offers only with an operator parameter; `FirstExists` uses the well-founded
order of the finite sets instead. `WalkInv` is then the invariant on the cursor: what
has stayed in the list up to the cursor has been shown (`Complete`), and nothing
shown comes after it (`NoRepeat`). The dead-letter list has no such cursor, and `JobsInv`
counts: a job can be passed over only once for each job removed before the position,
and shown again once for each job added (`JobsOffByAsMany`).

On the catalogue. `CatalogueInv` bounds each age by where the data is: a copy is as old
as its entry (`CopyInv`), what is put into the list had not expired as a copy, so
the list is at most one expiry older than its entry (`ListInv`), and twice
`Expire` bounds every answer (`AnswerInv`). What is about to be put is never the answer
to an outage (`CallsInv`), which gives `NoOutageInCache`.

**PersonalDataProofs.** `Created` and `ReadsExist` tie the stages of creations and updates to
rows. `ErasureIsFinal` is an action property over them, `AuditFollowsRows` an invariant whose
last record survives the erasure's rewriting (`ClearedRecords`). `OverlapInv` counts: the
audit records that name an erased person are no more than the updates that read
before the erasure and committed after it, since each of those adds one record
and nothing else adds any (`NamedByOverlap`).

**RequestProofs**, on the limiter. `Remembered`: a request that was let through is in the
sorted set until it has left the window. So a MULTI counts every earlier instant
of a window it may belong to, and the limit holds after it (`LimitHolds`); a MULTI
that read the clock before others ran theirs is up to `Delay` late, which is
what the window is shortened by. In memory, `WindowsInv` counts per worker process: the
fixed windows do not overlap, the counter is the number of requests that fell into the
present one, and any span of a window's length meets at most two of them
(`TwiceTheLimitHolds`). The count ends with the process (`Crash`): the requests waiting in it
are gone, a process started in its place begins at nothing, and it is counted by itself, so a
restart may let up to twice the limit through again. `ReadingsInv` says that what Redis holds are clock readings
of requests, so a refusal has as many requests behind it as the limit
(`RefusedHaveCause`); `Settled` says that a later step takes none of them back.

On the path. `NotYetApplied`: until an attempt ended unclearly, only a handler that
answers 200 or 500 has changed anything (`RefusalIsFinal`). `PathTypes` adds to the types
that no more attempts are late than were made.

On the pipe, for texts of any length. The functions of `Sanitization` are recursive, and
the library's induction theorems take an operator; `Induction` is stated about a set of
numbers instead and proved from the well-foundedness of `<`, and `Recursion` derives
from it that the functions exist. `ReplaceIs`, `StripIs`, `EscapeIs` and `TrimIs` then give
each by its value at one position from the one before. `Pass` follows an escaped text
through one replacement; six of them undo the escaping (`UnescapeEscaped`), unless an
entity was put together in the text itself (`Whole`). `StripLeavesNone`: a text has no tag
after its tags were removed. Together, `SanitizeAgain`: the pipe leaves its own output
as it is unless a tag had split an entity, and with `CopyInv` a copied text is found
(`CopiedTextIsFound`).

**ConsoleProofs.** `OrderInv`: no answer is ahead of the server, and the one on its way is not
behind the one shown, so an answer gives way to a later one only (`AnswersInOrder`). `ToldInv`:
an answer that is kept or on its way is up to date with every change the tab was told of and that
invalidates its query, unless it was overtaken, its fetch failed, or its entry is marked and its page not
open (`OwnChangesShow`). `NotTold` is the frame of both: only `Succeed` tells the tab of a change.

**Only model-checked.** Liveness (`EveryRequestAnswered`, `EveryReaderServed`, `EntryCatchesUp`,
`QueuedJobSettles`, `BreakerRecovers`, `CachesForget`, `PagesCatchUp`,
`EveryCallEnds`), which is out of this prover's reach. The
type invariants that section 3 does not name are theorems (`TypeCorrect`, `BrowserTypeCorrect`) and in no run.

## 6. Not modelled, and why

* Response shaping (envelope, ETag, request ids, metrics): no state that anything
  reads back. Health checks, traces, loggers: pure I/O.
* `GracefulShutdownService`: no signal reaches it; a deploy is `WorkerCrash`,
  `WorkerDies` and `Crash` of the modules.
* `delete`, `invalidatePattern` and `pipeline` of `CacheService`,
  `OfflineQueue.clear`, `PropertyRepository`, the data loader and the property sync job,
  `usePersistedForm`, `useApiData`, `PermissionGate`: no caller. `PushWorker`: no producer.
* `AdminQueueController` repeats `retryDlqJob` of `AdminController`; one is modelled.
* Totals of lists, filters and free-text search: a filter is a predicate on rows,
  a total is a second query nothing depends on.
* Job data of the queues (for the erasure), the LRU's order (an entry may go at
  any time: `MemoryEvicts`, `FallbackExpires`), the deletion of finished jobs.
* A second browser tab of `OfflineQueue`: it would double the state, and what it
  can lose is what `LostOnlyByOverlap` names.
* Deployment and report scripts: one-shot; the deploy script starts containers
  before it migrates, which is no state of the program.

## 7. Plan

1. A second tab in `OfflineQueue`, with `NothingLost` for two tabs and its proof; it
   covers the hazard of two tabs, which no property is about.
2. Promises in the manner of `Submission` for `CrmPipeline` (an event is owed until it is
   delivered or dead-lettered) and `OfflineQueue` (an enquiry is kept until stored), and
   the refinements proved.
3. Action properties that follow from the invariants at hand: a PROCESSED row is reset by
   a retry only, the lock is released by its holder only.
4. `LruCache`: the map with its order, and the eviction at any time of
   the two cache modules shown to contain it.
