---------------------------- MODULE EnquiryCache ----------------------------
(***************************************************************************)
(* One entry of the enquiry cache: CacheService.getOrRefreshWithLock as    *)
(* getById and getList call it, against updates of the data it caches.     *)
(*                                                                         *)
(* With writeThrough the entry is enquiry:id:<id>, which an update writes  *)
(* anew; without it the entry is an enquiry:list:<hash>, which an update   *)
(* marks stale by a read and a later write.                                *)
(*                                                                         *)
(* The data is a version number, and a lock token is the name of the       *)
(* process that drew it.  A Redis command that times out has been applied  *)
(* or not.  Ages and expiries pass at any moment; there is no clock.       *)
(***************************************************************************)
EXTENDS Integers

CONSTANTS
    Reader,       \* GET requests under way at once; each may be followed by another
    Writer,       \* status updates (for a list, creations too)
    Worker,       \* Node processes
    NoLock,
    MaxVersion    \* bound on the versions committed

\* The part of a GET that is answered, and the background refresh it may start.
Proc == Reader \X {"front", "back"}

ASSUME ConstantsOK ==
    /\ NoLock \notin Proc
    /\ Reader \cap Writer = {}
    /\ MaxVersion \in Nat

VARIABLES
    writeThrough, \* which of the two entries this is (never changes)
    worker,    \* process serving each request (never changes)
    db,        \* version in PostgreSQL
    entry,     \* the Redis entry
    lock,      \* Redis lock:<key>
    healthy,   \* CacheService.redisHealthy
    fallback,  \* version in each worker's memory
    pc,        \* the await each process is at
    value,     \* the version it fetched
    answer,    \* what each GET was answered, from Redis or PostgreSQL or from memory
    writerPc,  \* the await each update is at
    written,   \* the version it committed, until it ends
    markGot,   \* the version markStale read
    acked,     \* history: newest version whose update has returned
    floor,     \* history: acked when the GET read the cache
    overran,   \* history: processes that lost the lock while they held it
    exposed    \* history: the entry lacks a commit that no update will bring it

NoVersion == -1
Version == Nat \cup {NoVersion}
NoEntry == [version |-> NoVersion, age |-> "absent"]
Entry == [version : Nat, age : {"fresh", "stale", "marked"}]
NoAnswer == [version |-> NoVersion, from |-> "none"]
Answer == [version : Nat, from : {"store", "exposed", "memory"}]
Building == {"fetch", "fill", "release"}

inputs  == <<writeThrough, worker>>
process == <<pc, value, answer>>
writer  == <<writerPc, written, markGot, acked>>
memory  == <<healthy, fallback>>
history == <<floor, overran, exposed>>
vars == <<inputs, db, entry, lock, memory, process, writer, history>>

TypeOK ==
    /\ writeThrough \in BOOLEAN
    /\ worker \in [Reader \cup Writer -> Worker]
    /\ db \in Nat
    /\ entry \in Entry \cup {NoEntry}
    /\ lock \in Proc \cup {NoLock}
    /\ healthy \in [Worker -> BOOLEAN]
    /\ fallback \in [Worker -> Version]
    /\ pc \in [Proc -> Building \cup {"idle", "lock", "poll", "direct", "done"}]
    /\ value \in [Proc -> Version]
    /\ answer \in [Reader -> Answer \cup {NoAnswer}]
    /\ writerPc \in [Writer -> {"idle", "cache", "markGet", "markTtl", "markSet", "done"}]
    /\ written \in [Writer -> Nat]
    /\ markGot \in [Writer -> Version]
    /\ acked \in Nat
    /\ floor \in [Reader -> Nat]
    /\ overran \in SUBSET Proc
    /\ exposed \in BOOLEAN

Init ==
    /\ writeThrough \in BOOLEAN
    /\ worker \in [Reader \cup Writer -> Worker]
    /\ db = 0
    /\ entry \in {NoEntry, [version |-> 0, age |-> "fresh"]}
    /\ lock = NoLock
    /\ healthy \in [Worker -> BOOLEAN]
    /\ fallback = [w \in Worker |-> NoVersion]
    /\ pc = [p \in Proc |-> "idle"]
    /\ value = [p \in Proc |-> NoVersion]
    /\ answer = [r \in Reader |-> NoAnswer]
    /\ writerPc = [x \in Writer |-> "idle"]
    /\ written = [x \in Writer |-> 0]
    /\ markGot = [x \in Writer |-> NoVersion]
    /\ acked = 0
    /\ floor = [r \in Reader |-> 0]
    /\ overran = {}
    /\ exposed = FALSE

-----------------------------------------------------------------------------
(* The pieces of CacheService. *)

Goto(p, stage) == pc' = [pc EXCEPT ![p] = stage]
Serve(r, version, from) == answer' = [answer EXCEPT ![r] = [version |-> version, from |-> from]]
RedisFails(w) == healthy' = [healthy EXCEPT ![w] = FALSE]

\* cachedAt = 0 is older than any expireTtl, so a marked entry is a miss.
Hit == entry.age \in {"fresh", "stale"}

FromRedis == IF exposed THEN "exposed" ELSE "store"

\* set() on worker w.
PutInRedis(version) == entry' = [version |-> version, age |-> "fresh"]

\* An entry stored is exposed if a commit has overtaken what it was made from, and
\* one that is not stored if the entry in its place then misses a commit.
CacheSet(w, version, overtaken, missed) ==
    LET Stored == healthy[w] /\ PutInRedis(version) /\ exposed' = overtaken
    IN \/ Stored /\ UNCHANGED memory
       \/ /\ Stored \/ (exposed' = (exposed \/ missed) /\ UNCHANGED entry)
          /\ fallback' = [fallback EXCEPT ![w] = version]
          /\ RedisFails(w)

-----------------------------------------------------------------------------
(* A GET: getOrRefreshWithLock and the refresh it leaves behind. *)

\* get() of an unhealthy worker, and of one whose GET fails.
FromMemory(r, p, otherwise) ==
    LET w == worker[r]
    IN /\ RedisFails(w)
       /\ IF fallback[w] # NoVersion
          THEN Serve(r, fallback[w], "memory") /\ Goto(p, "done")
          ELSE UNCHANGED answer /\ Goto(p, otherwise)

GetWithSWR(r) ==
    LET p == <<r, "front">>
    IN /\ pc[p] = "idle"
       /\ floor' = [floor EXCEPT ![r] = acked]
       /\ \/ /\ healthy[worker[r]]
             /\ IF Hit
                THEN /\ Serve(r, entry.version, FromRedis)
                     /\ pc' = IF entry.age = "fresh" THEN [pc EXCEPT ![p] = "done"]
                              ELSE [pc EXCEPT ![p] = "done", ![<<r, "back">>] = "lock"]
                ELSE Goto(p, "lock") /\ UNCHANGED answer
             /\ UNCHANGED healthy
          \/ FromMemory(r, p, "lock")
       /\ UNCHANGED <<inputs, db, entry, lock, fallback, value, writer, overran, exposed>>

\* The lock is taken, or Redis did not say: a GET polls, a refresh is dropped.
Contended(p) == Goto(p, IF p[2] = "front" THEN "poll" ELSE "done")

\* SET NX PX, whatever the health flag says.  An error counts as "held", though
\* Redis may have granted the lock.
AcquireLock(p) ==
    /\ pc[p] = "lock"
    /\ \/ lock = NoLock /\ lock' = p /\ Goto(p, "fetch")
       \/ /\ (lock = NoLock /\ lock' = p) \/ UNCHANGED lock
          /\ Contended(p)
    /\ UNCHANGED <<inputs, db, entry, memory, value, answer, writer, history>>

\* refreshFn; a database error goes straight to the release.
Fetch(p) ==
    /\ pc[p] = "fetch"
    /\ \/ value' = [value EXCEPT ![p] = db] /\ Goto(p, "fill")
       \/ Goto(p, "release") /\ UNCHANGED value
    /\ UNCHANGED <<inputs, db, entry, lock, memory, answer, writer, history>>

Fill(p) ==
    /\ pc[p] = "fill"
    /\ CacheSet(worker[p[1]], value[p], value[p] < db, FALSE)
    /\ Goto(p, "release")
    /\ UNCHANGED <<inputs, db, lock, value, answer, writer, floor, overran>>

\* DEL if the token is the process's own.
DeleteOwnLock(p) == lock' = IF lock = p THEN NoLock ELSE lock

ReleaseLock(p) ==
    /\ pc[p] = "release"
    /\ DeleteOwnLock(p) \/ UNCHANGED lock
    /\ IF p[2] = "front" /\ value[p] # NoVersion THEN Serve(p[1], value[p], "store") ELSE UNCHANGED answer
    /\ Goto(p, "done")
    /\ value' = [value EXCEPT ![p] = NoVersion]
    /\ overran' = overran \ {p}
    /\ UNCHANGED <<inputs, db, entry, memory, writer, floor, exposed>>

\* get() every 50 ms until it finds something, of whatever age, or time is up.
\* Faulty variant: it polls for ever.
PollForever(p) ==
    /\ pc[p] = "poll"
    /\ entry.age # "absent" /\ Serve(p[1], entry.version, FromRedis) /\ Goto(p, "done")
    /\ UNCHANGED <<inputs, db, entry, lock, memory, value, writer, history>>

PollForCache(p) ==
    /\ pc[p] = "poll"
    /\ \/ /\ healthy[worker[p[1]]]
          /\ IF entry.age # "absent"
             THEN Serve(p[1], entry.version, FromRedis) /\ Goto(p, "done")
             ELSE Goto(p, "direct") /\ UNCHANGED answer
          /\ UNCHANGED healthy
       \/ FromMemory(p[1], p, "direct")
    /\ UNCHANGED <<inputs, db, entry, lock, fallback, value, writer, history>>

\* Time is up: the database answers, the cache is left alone.
FetchDirectly(p) ==
    /\ pc[p] = "direct"
    /\ Serve(p[1], db, "store") \/ UNCHANGED answer
    /\ Goto(p, "done")
    /\ UNCHANGED <<inputs, db, entry, lock, memory, value, writer, history>>

\* Another GET, once the answer is given and the refresh has ended.
AskAgain(r) ==
    /\ pc[<<r, "front">>] = "done" /\ pc[<<r, "back">>] \in {"idle", "done"}
    /\ pc' = [pc EXCEPT ![<<r, "front">>] = "idle", ![<<r, "back">>] = "idle"]
    /\ answer' = [answer EXCEPT ![r] = NoAnswer]
    /\ floor' = [floor EXCEPT ![r] = 0]
    /\ UNCHANGED <<inputs, db, entry, lock, memory, value, writer, overran, exposed>>

-----------------------------------------------------------------------------
(* An update: updateStatus, then onEnquiryUpdated. *)

NextVersion == db < MaxVersion /\ db' = db + 1

\* The cache is not told of this version: an entry served is now behind it.
Unannounced == NextVersion /\ exposed' = (exposed \/ Hit)

\* The transaction commits; or it fails and the update throws, in which case it
\* may have committed all the same and onEnquiryUpdated does not run.
Commit(x) ==
    /\ writerPc[x] = "idle"
    /\ \/ /\ NextVersion
          /\ written' = [written EXCEPT ![x] = db + 1]
          /\ writerPc' = [writerPc EXCEPT ![x] = "cache"]
          /\ UNCHANGED exposed
       \/ /\ Unannounced \/ UNCHANGED <<db, exposed>>
          /\ writerPc' = [writerPc EXCEPT ![x] = "done"]
          /\ UNCHANGED written
    /\ UNCHANGED <<inputs, entry, lock, memory, process, markGot, acked, floor, overran>>

\* Retention archives the row, or an erasure overwrites it, and neither touches
\* the cache.
Rewrite ==
    /\ Unannounced
    /\ UNCHANGED <<inputs, entry, lock, memory, process, writer, floor, overran>>

\* What the handler knew ends with it.
Return(x) ==
    /\ writerPc' = [writerPc EXCEPT ![x] = "done"]
    /\ acked' = IF written[x] > acked THEN written[x] ELSE acked
    /\ written' = [written EXCEPT ![x] = 0]
    /\ markGot' = [markGot EXCEPT ![x] = NoVersion]

Pending(x) == writerPc[x] \notin {"idle", "done"}

\* Without this update's write the entry served is behind its version.
Missed(x) == Hit /\ entry.version < written[x]

\* Faulty variant: the record read before the transaction is cached.
CacheExisting(x) == CacheSet(worker[x], written[x] - 1, written[x] < db, Missed(x))
CacheUpdated(x) == CacheSet(worker[x], written[x], written[x] < db, Missed(x))

SetRecord(x) ==
    /\ writeThrough /\ writerPc[x] = "cache"
    /\ CacheUpdated(x)
    /\ Return(x)
    /\ UNCHANGED <<inputs, db, lock, process, floor, overran>>

\* markStaleByPattern is skipped by an unhealthy worker; any error ends it.
MarkFails(x) ==
    /\ ~writeThrough
    /\ writerPc[x] \in {"cache", "markGet", "markTtl", "markSet"}
    /\ Return(x)
    /\ exposed' = (exposed \/ Missed(x))
    /\ UNCHANGED <<inputs, db, entry, lock, memory, process, floor, overran>>

MarkGoto(x, stage, got) ==
    IF entry.age = "absent" THEN Return(x)
    ELSE /\ writerPc' = [writerPc EXCEPT ![x] = stage]
         /\ markGot' = [markGot EXCEPT ![x] = got]
         /\ UNCHANGED <<written, acked>>

\* SCAN, GET and TTL: each may find the key gone, and the update returns.
Scan(x) ==
    /\ ~writeThrough /\ writerPc[x] = "cache" /\ healthy[worker[x]]
    /\ MarkGoto(x, "markGet", NoVersion)
    /\ UNCHANGED <<inputs, db, entry, lock, memory, process, history>>

MarkGet(x) ==
    /\ writerPc[x] = "markGet"
    /\ MarkGoto(x, "markTtl", entry.version)
    /\ UNCHANGED <<inputs, db, entry, lock, memory, process, history>>

MarkTtl(x) ==
    /\ writerPc[x] = "markTtl"
    /\ MarkGoto(x, "markSet", markGot[x])
    /\ UNCHANGED <<inputs, db, entry, lock, memory, process, history>>

\* Writes back what GET returned, over whatever the key holds by now.
\* Faulty variant: cachedAt is set to now.
Refreshed(x) == [version |-> markGot[x], age |-> "fresh"]
Backdated(x) == [version |-> markGot[x], age |-> "marked"]

MarkSet(x) ==
    /\ writerPc[x] = "markSet"
    /\ entry' = Backdated(x)
    /\ exposed' = FALSE
    /\ Return(x)
    /\ UNCHANGED <<inputs, db, lock, memory, process, floor, overran>>

-----------------------------------------------------------------------------
(* The environment. *)

\* Faulty variant: the key is set without its expiry.
StaleForever ==
    /\ entry.age = "fresh"
    /\ entry' = [entry EXCEPT !.age = "stale"]
    /\ UNCHANGED <<inputs, db, lock, memory, process, writer, history>>

\* staleTtl, then the key's own expiry; a marked entry keeps its expiry.
EntryAges ==
    /\ entry.age # "absent"
    /\ \/ /\ entry.age = "fresh"
          /\ entry' = [entry EXCEPT !.age = "stale"]
          /\ UNCHANGED exposed
       \/ /\ entry.age # "fresh"
          /\ entry' = NoEntry
          /\ exposed' = FALSE
    /\ UNCHANGED <<inputs, db, lock, memory, process, writer, floor, overran>>

\* lockTtlMs after it was granted, wherever its holder is.
LockExpires ==
    /\ lock # NoLock
    /\ lock' = NoLock
    /\ overran' = overran \cup {p \in {lock} : pc[p] \in Building}
    /\ UNCHANGED <<inputs, db, entry, memory, process, writer, floor, exposed>>

FallbackExpires(w) ==
    /\ fallback[w] # NoVersion
    /\ fallback' = [fallback EXCEPT ![w] = NoVersion]
    /\ UNCHANGED <<inputs, db, entry, lock, healthy, process, writer, history>>

RedisHealthChanges(w) ==
    /\ healthy' = [healthy EXCEPT ![w] = ~@]
    /\ UNCHANGED <<inputs, db, entry, lock, fallback, process, writer, history>>

\* The process dies with its requests; its lock stays until it expires.
WorkerDies(w) ==
    LET Lost(x) == worker[x] = w
        Ends(stage) == IF stage = "idle" THEN "idle" ELSE "done"
    IN /\ pc' = [p \in Proc |-> IF Lost(p[1]) THEN Ends(pc[p]) ELSE pc[p]]
       /\ writerPc' = [x \in Writer |-> IF Lost(x) THEN Ends(writerPc[x]) ELSE writerPc[x]]
       /\ written' = [x \in Writer |-> IF Lost(x) THEN 0 ELSE written[x]]
       /\ markGot' = [x \in Writer |-> IF Lost(x) THEN NoVersion ELSE markGot[x]]
       /\ exposed' = (exposed \/ \E x \in Writer : Lost(x) /\ Pending(x) /\ Missed(x))
       /\ fallback' = [fallback EXCEPT ![w] = NoVersion]
       /\ \E up \in BOOLEAN : healthy' = [healthy EXCEPT ![w] = up]
       /\ value' = [p \in Proc |-> IF Lost(p[1]) THEN NoVersion ELSE value[p]]
       /\ overran' = {p \in overran : ~Lost(p[1])}
       /\ UNCHANGED <<inputs, db, entry, lock, answer, acked, floor>>

-----------------------------------------------------------------------------
Refresh(p) ==
    AcquireLock(p) \/ Fetch(p) \/ Fill(p) \/ ReleaseLock(p) \/ PollForCache(p) \/ FetchDirectly(p)

Update(x) ==
    Commit(x) \/ SetRecord(x) \/ MarkFails(x) \/ Scan(x) \/ MarkGet(x) \/ MarkTtl(x) \/ MarkSet(x)

Next ==
    \/ \E r \in Reader : GetWithSWR(r) \/ AskAgain(r)
    \/ \E p \in Proc : Refresh(p)
    \/ \E x \in Writer : Update(x)
    \/ \E w \in Worker : FallbackExpires(w) \/ RedisHealthChanges(w) \/ WorkerDies(w)
    \/ Rewrite
    \/ EntryAges
    \/ LockExpires

\* Every await of a GET is bounded (2 s for a Redis command, the pool's timeout
\* for a query, waitTimeoutMs for the polling), so its process goes on; the refresh
\* begins when the answer has been given.  A key of Redis expires.  Nothing else
\* need happen: neither another GET, nor the rest of an update.
Serving(r) == \E side \in {"front", "back"} : Refresh(<<r, side>>)

Spec ==
    /\ Init /\ [][Next]_vars
    /\ \A r \in Reader : WF_vars(Serving(r))
    /\ WF_vars(EntryAges)

-----------------------------------------------------------------------------
(* Properties. *)

\* Of two processes that rebuild the entry at once, one has outlived its lock: a
\* late release, a failed release and an answer lost by acquireLock never let a
\* third one in (the token comparison of releaseLock).
OneBuilderPerLock ==
    \A p, q \in Proc :
        (pc[p] \in Building /\ pc[q] \in Building /\ p # q) => {p, q} \cap overran # {}

\* An entry that is served as fresh or stale, with no update on its way to the
\* cache, is what the database holds -- unless the cache was not told of a commit
\* (retention, erasure, an update whose transaction failed after committing), the
\* fill or the write-through that made the entry was overtaken by a commit, or the
\* update that should have replaced the entry failed to or died.
CoherentUnlessExposed ==
    (~exposed /\ Hit /\ \A x \in Writer : ~Pending(x)) => entry.version = db

\* The exposure ends with the entry: once no more versions are committed, Redis
\* ends up holding, for good, either the last version or none, whatever crossed,
\* failed or went untold before.
EntryCatchesUp ==
    <>[][db' = db]_vars => <>[](entry.age # "absent" => entry.version = db)

\* Nobody who asks for a record is answered, from the database or from an entry
\* not exposed when it was read, a version older than the newest update that had
\* returned when he asked.
NoOldAnswer ==
    \A r \in Reader :
        (writeThrough /\ answer[r].from = "store") => answer[r].version >= floor[r]

\* A GET that missed is answered or fails, whoever holds the lock and however
\* its holder ends.
EveryReaderServed ==
    \A r \in Reader :
        LET Rests(side) == pc[<<r, side>>] \in {"idle", "done"}
        IN ~(Rests("front") /\ Rests("back")) ~> Rests("front") /\ Rests("back")
=============================================================================
