------------------------- MODULE EnquirySubmission -------------------------
(***************************************************************************)
(* POST /enquiry: EnquiryService.create and the cache calls it makes, run  *)
(* by several cluster workers against one PostgreSQL and one Redis.        *)
(*                                                                         *)
(* Every await of the handler ends a step, so other requests, a clock      *)
(* tick, a Redis failure or the death of the worker fall between any two   *)
(* of them.  An enquiry is named by the request that inserted it.          *)
(*                                                                         *)
(* The record and list entries that onEnquiryCreated writes are read by no *)
(* step of this handler and belong to EnquiryCache; here only the effect   *)
(* of those calls on the worker's belief about Redis is kept.              *)
(***************************************************************************)
EXTENDS Integers

CONSTANTS
    Request,      \* HTTP attempts; also the identities of the rows they insert
    Worker,       \* Node processes of the PM2 cluster
    Key,          \* Idempotency-Key header values
    NoKey,        \* the header is absent
    Pair,         \* (normalised email, propertyId)
    Mail,         \* the two mails of an enquiry
    NoEnquiry,    \* "no row"
    DupWindow,    \* 10 minutes, in ticks
    IdemTtl,      \* 24 hours
    FallbackTtl,  \* 60 seconds
    MaxTime       \* bound on the clock

ASSUME ConstantsOK ==
    /\ NoKey \notin Key
    /\ NoEnquiry \notin Request
    /\ DupWindow \in Nat /\ IdemTtl \in Nat /\ FallbackTtl \in Nat /\ MaxTime \in Nat

VARIABLES
    worker,     \* process serving each request (never changes)
    key,        \* its Idempotency-Key, or NoKey (never changes)
    pair,       \* what it asks about (never changes)
    pc,         \* the await it is at
    outcome,    \* the response the client gets
    answer,     \* the enquiry in that response
    seen,       \* history: rows committed when the request arrived
    stored,     \* rows of the enquiries table
    createdAt,  \* their createdAt
    idem,       \* Redis idempotency:<key>
    marker,     \* Redis enquiry:dup:<pair>, as its expiry time
    healthy,    \* CacheService.redisHealthy of each worker
    fallback,   \* in-memory copy of the markers in each worker
    jobs,       \* notifications added to email-queue
    now

inputs      == <<worker, key, pair>>
response    == <<outcome, answer>>
dbVars      == <<stored, createdAt>>
redisVars   == <<idem, marker>>
processVars == <<healthy, fallback>>
vars == <<inputs, pc, response, seen, dbVars, redisVars, processVars, jobs, now>>

Stage == {"checkKey", "checkMarker", "findDuplicate", "insert",
          "storeKey", "cacheRecord", "setMarker", "enqueue"}
Outcome == {"created", "replayed", "duplicate", "uniqueConflict", "error", "dropped"}
IdemEntry == [id : Request \cup {NoEnquiry}, exp : Nat]
NoIdemEntry == [id |-> NoEnquiry, exp |-> 0]

TypeOK ==
    /\ worker \in [Request -> Worker]
    /\ key \in [Request -> Key \cup {NoKey}]
    /\ pair \in [Request -> Pair]
    /\ pc \in [Request -> Stage \cup {"idle", "done"}]
    /\ outcome \in [Request -> Outcome \cup {"none"}]
    /\ answer \in [Request -> Request \cup {NoEnquiry}]
    /\ seen \in [Request -> SUBSET Request]
    /\ stored \in SUBSET Request
    /\ createdAt \in [Request -> Nat]
    /\ idem \in [Key -> IdemEntry]
    /\ marker \in [Pair -> Nat]
    /\ healthy \in [Worker -> BOOLEAN]
    /\ fallback \in [Worker -> [Pair -> Nat]]
    /\ jobs \in SUBSET (Request \X Mail)
    /\ now \in Nat

Init ==
    /\ worker \in [Request -> Worker]
    /\ key \in [Request -> Key \cup {NoKey}]
    /\ pair \in [Request -> Pair]
    /\ pc = [r \in Request |-> "idle"]
    /\ outcome = [r \in Request |-> "none"]
    /\ answer = [r \in Request |-> NoEnquiry]
    /\ seen = [r \in Request |-> {}]
    /\ stored = {}
    /\ createdAt = [r \in Request |-> 0]
    /\ idem = [k \in Key |-> NoIdemEntry]
    /\ marker = [p \in Pair |-> 0]
    /\ healthy \in [Worker -> BOOLEAN]
    /\ fallback = [w \in Worker |-> [p \in Pair |-> 0]]
    /\ jobs = {}
    /\ now = 0

-----------------------------------------------------------------------------
(* What the handler can observe. *)

Live(expiry) == now < expiry

MarkerInRedis(p) == Live(marker[p])
MarkerInMemory(w, p) == Live(fallback[w][p])

\* Faulty variant: the comparison is turned round.
OldRow(p) == \E e \in stored : pair[e] = p /\ createdAt[e] < now - DupWindow

\* EnquiryRepository.findDuplicate: a row of the pair younger than the window.
RecentRow(p) == \E e \in stored : pair[e] = p /\ createdAt[e] > now - DupWindow

\* Faulty variant: the index is missing.
KeyNeverTaken(k) == FALSE

\* The unique index on Enquiry.idempotencyKey; NULLs never collide.
KeyTaken(k) == k # NoKey /\ \E e \in stored : key[e] = k

Goto(r, stage) == pc' = [pc EXCEPT ![r] = stage]

Respond(r, result, enquiry) ==
    /\ Goto(r, "done")
    /\ outcome' = [outcome EXCEPT ![r] = result]
    /\ answer' = [answer EXCEPT ![r] = enquiry]

Continue(r, stage) == Goto(r, stage) /\ UNCHANGED response

-----------------------------------------------------------------------------
(* The handler, one action per await. *)

Arrive(r) ==
    /\ pc[r] = "idle"
    /\ seen' = [seen EXCEPT ![r] = stored]
    /\ Continue(r, IF key[r] = NoKey THEN "checkMarker" ELSE "checkKey")
    /\ UNCHANGED <<inputs, dbVars, redisVars, processVars, jobs, now>>

\* A GET that fails is read as a miss, so a miss is always possible.
GetIdempotencyResponse(r) ==
    /\ pc[r] = "checkKey"
    /\ \/ Live(idem[key[r]].exp) /\ Respond(r, "replayed", idem[key[r]].id)
       \/ Continue(r, "checkMarker")
    /\ UNCHANGED <<inputs, seen, dbVars, redisVars, processVars, jobs, now>>

AfterMarker(r, found) ==
    IF found THEN Respond(r, "duplicate", NoEnquiry) ELSE Continue(r, "findDuplicate")

\* Faulty variant: the check waits until Redis is back.
IsDuplicateInRedis(r) ==
    /\ pc[r] = "checkMarker"
    /\ healthy[worker[r]]
    /\ AfterMarker(r, MarkerInRedis(pair[r]))
    /\ UNCHANGED <<inputs, seen, dbVars, redisVars, processVars, jobs, now>>

\* The marker is read from Redis, or from this process's memory when the
\* process believes Redis is down or has just seen the read fail.
IsDuplicate(r) ==
    /\ pc[r] = "checkMarker"
    /\ LET w == worker[r]
       IN \/ /\ healthy[w]
             /\ AfterMarker(r, MarkerInRedis(pair[r]))
             /\ UNCHANGED healthy
          \/ /\ AfterMarker(r, MarkerInMemory(w, pair[r]))
             /\ healthy' = [healthy EXCEPT ![w] = FALSE]
    /\ UNCHANGED <<inputs, seen, dbVars, redisVars, fallback, jobs, now>>

FindDuplicate(r) ==
    /\ pc[r] = "findDuplicate"
    /\ \/ RecentRow(pair[r]) /\ Respond(r, "duplicate", NoEnquiry)
       \/ ~RecentRow(pair[r]) /\ Continue(r, "insert")
       \/ Respond(r, "error", NoEnquiry)
    /\ UNCHANGED <<inputs, seen, dbVars, redisVars, processVars, jobs, now>>

AfterInsert(r) == IF key[r] = NoKey THEN "cacheRecord" ELSE "storeKey"

InsertRow(r) ==
    /\ stored' = stored \cup {r}
    /\ createdAt' = [createdAt EXCEPT ![r] = now]

\* Faulty variant: a rolled-back transaction is swallowed like a cache failure.
CreateSwallowingRollback(r) ==
    /\ pc[r] = "insert"
    /\ (~KeyTaken(key[r]) /\ InsertRow(r)) \/ UNCHANGED dbVars
    /\ Continue(r, AfterInsert(r))
    /\ UNCHANGED <<inputs, seen, redisVars, processVars, jobs, now>>

\* Insert of the enquiry and its CREATE audit row in one transaction.  The
\* unique index refuses a taken key (P2002, sent as 409).  The connection may
\* fail with the transaction rolled back or, unknown to the handler, committed.
CreateInTransaction(r) ==
    /\ pc[r] = "insert"
    /\ \/ /\ ~KeyTaken(key[r])
          /\ InsertRow(r)
          /\ Continue(r, AfterInsert(r)) \/ Respond(r, "error", NoEnquiry)
       \/ /\ KeyTaken(key[r])
          /\ Respond(r, "uniqueConflict", NoEnquiry)
          /\ UNCHANGED dbVars
       \/ Respond(r, "error", NoEnquiry) /\ UNCHANGED dbVars
    /\ UNCHANGED <<inputs, seen, redisVars, processVars, jobs, now>>

\* The write may fail, or time out and still be applied; the handler goes on.
StoreIdempotencyResponse(r) ==
    /\ pc[r] = "storeKey"
    /\ \/ idem' = [idem EXCEPT ![key[r]] = [id |-> r, exp |-> now + IdemTtl]]
       \/ UNCHANGED idem
    /\ Continue(r, "cacheRecord")
    /\ UNCHANGED <<inputs, seen, dbVars, marker, processVars, jobs, now>>

\* onEnquiryCreated up to the marker: set of enquiry:id:<id> (a failure turns
\* the worker to its fallback) and markStaleByPattern (a failure is swallowed).
CacheRecord(r) ==
    /\ pc[r] = "cacheRecord"
    /\ healthy' \in {healthy, [healthy EXCEPT ![worker[r]] = FALSE]}
    /\ Continue(r, "setMarker")
    /\ UNCHANGED <<inputs, seen, dbVars, redisVars, fallback, jobs, now>>

MarkRedis(p) == marker' = [marker EXCEPT ![p] = now + DupWindow]
MarkMemory(w, p) == fallback' = [fallback EXCEPT ![w][p] = now + FallbackTtl]

\* A SET that fails may still have been applied by Redis.
SetDuplicateMarker(r) ==
    /\ pc[r] = "setMarker"
    /\ LET w == worker[r]
       IN \/ healthy[w] /\ MarkRedis(pair[r]) /\ UNCHANGED processVars
          \/ /\ (healthy[w] /\ MarkRedis(pair[r])) \/ UNCHANGED marker
             /\ MarkMemory(w, pair[r])
             /\ healthy' = [healthy EXCEPT ![w] = FALSE]
    /\ Continue(r, "enqueue")
    /\ UNCHANGED <<inputs, seen, dbVars, idem, jobs, now>>

\* Both adds start together; either may fail without failing the request.
EnqueueNotifications(r) ==
    /\ pc[r] = "enqueue"
    /\ \E added \in SUBSET Mail : jobs' = jobs \cup ({r} \X added)
    /\ Respond(r, "created", r)
    /\ UNCHANGED <<inputs, seen, dbVars, redisVars, processVars, now>>

-----------------------------------------------------------------------------
(* The environment. *)

\* 'connect', 'ready' or an answered PING; 'error', 'close' or a failed PING.
RedisHealthChanges(w) ==
    /\ healthy' = [healthy EXCEPT ![w] = ~@]
    /\ UNCHANGED <<inputs, pc, response, seen, dbVars, redisVars, fallback, jobs, now>>

\* Redis restarts from an append-only file that misses its newest writes.
RedisLosesWrites ==
    /\ \/ \E p \in Pair : marker' = [marker EXCEPT ![p] = 0] /\ UNCHANGED idem
       \/ \E k \in Key : idem' = [idem EXCEPT ![k] = NoIdemEntry] /\ UNCHANGED marker
    /\ UNCHANGED <<inputs, pc, response, seen, dbVars, processVars, jobs, now>>

\* The memory of a worker is full, and its least recently used entry, perhaps a
\* marker that is still live, makes room for another.
MemoryEvicts(w) ==
    /\ \E p \in Pair : fallback' = [fallback EXCEPT ![w][p] = 0]
    /\ UNCHANGED <<inputs, pc, response, seen, dbVars, redisVars, healthy, jobs, now>>

\* The process dies: its requests lose their connection, its memory is gone.
\* A new one starts in its place and takes Redis's status as it finds it.
WorkerCrash(w) ==
    /\ LET lost == {r \in Request : worker[r] = w /\ pc[r] \in Stage}
       IN /\ pc' = [r \in Request |-> IF r \in lost THEN "done" ELSE pc[r]]
          /\ outcome' = [r \in Request |-> IF r \in lost THEN "dropped" ELSE outcome[r]]
    /\ \E up \in BOOLEAN : healthy' = [healthy EXCEPT ![w] = up]
    /\ fallback' = [fallback EXCEPT ![w] = [p \in Pair |-> 0]]
    /\ UNCHANGED <<inputs, answer, seen, dbVars, redisVars, jobs, now>>

Tick ==
    /\ now < MaxTime
    /\ now' = now + 1
    /\ UNCHANGED <<inputs, pc, response, seen, dbVars, redisVars, processVars, jobs>>

-----------------------------------------------------------------------------
Handle(r) ==
    \/ GetIdempotencyResponse(r)
    \/ IsDuplicate(r)
    \/ FindDuplicate(r)
    \/ CreateInTransaction(r)
    \/ StoreIdempotencyResponse(r)
    \/ CacheRecord(r)
    \/ SetDuplicateMarker(r)
    \/ EnqueueNotifications(r)

Next ==
    \/ \E r \in Request : Arrive(r) \/ Handle(r)
    \/ \E w \in Worker : RedisHealthChanges(w) \/ MemoryEvicts(w) \/ WorkerCrash(w)
    \/ RedisLosesWrites
    \/ Tick

\* Every await of the handler is bounded (commandTimeout 2 s for Redis, 10 s for
\* the transaction, ioredis's default of 20 reconnects for a queue's add), so a
\* started request always takes its next step.
Spec == Init /\ [][Next]_vars /\ \A r \in Request : WF_vars(Handle(r))

-----------------------------------------------------------------------------
(* Properties. *)

\* Two enquiries about the same pair are at least the duplicate window apart
\* whenever the first was committed before the second request arrived: neither
\* a lost or evicted marker, a stale fallback, a crash nor a second worker lets a
\* sequential resubmission through (EnquiryService.create, steps 2 and 3).
NoSequentialDuplicate ==
    \A e, f \in stored :
        (pair[e] = pair[f] /\ e \in seen[f]) => createdAt[f] - createdAt[e] >= DupWindow

\* However many workers race on one Idempotency-Key, and although the Redis
\* entry may be missing, at most one row carries it.
OneRecordPerKey ==
    \A e, f \in stored : (key[e] = key[f] /\ key[e] # NoKey) => e = f

\* All 201 responses to one Idempotency-Key name the same enquiry, whether the
\* handler created it or replayed it from Redis.
OneEnquiryPerKey ==
    \A r, s \in Request :
        /\ key[r] = key[s] /\ key[r] # NoKey
        /\ outcome[r] \in {"created", "replayed"}
        /\ outcome[s] \in {"created", "replayed"}
        => answer[r] = answer[s]

\* No trace of an enquiry outside the database survives that the database does
\* not hold: idempotency entries, markers in Redis or in a worker's memory and
\* queued mail all follow a commit (the order of steps 3 to 7 of create).
EffectsFollowCommit ==
    /\ \A k \in Key : idem[k].exp > 0 => idem[k].id \in stored /\ key[idem[k].id] = k
    /\ \A p \in Pair :
        (marker[p] > 0 \/ \E w \in Worker : fallback[w][p] > 0) => \E e \in stored : pair[e] = p
    /\ \A job \in jobs : job[1] \in stored

\* Nobody is told "duplicate" about a pair the database has no row of.
RefusedMeansStored ==
    \A r \in Request :
        outcome[r] = "duplicate" => \E e \in stored : pair[e] = pair[r]

\* Every answer is one that the rows justify when it is given, whatever the checks
\* on the way there went by: the handler implements Submission.
Promise == INSTANCE Submission WITH rows <- stored
KeepsPromise == Promise!Spec

\* A started request is answered, or its connection is cut by a crash, whatever
\* Redis, the database and the queue do.
EveryRequestAnswered ==
    \A r \in Request : pc[r] \in Stage ~> pc[r] = "done"

\* backend/test/regression/race-condition.spec.ts:24, "should create exactly 1
\* record when 10 concurrent identical requests are sent": rows of one pair are
\* always a window apart, those of concurrent requests too.
ExactlyOneRecord ==
    \A e, f \in stored :
        (pair[e] = pair[f] /\ e # f /\ createdAt[e] <= createdAt[f])
            => createdAt[f] - createdAt[e] >= DupWindow
=============================================================================
