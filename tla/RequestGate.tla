---------------------------- MODULE RequestGate ----------------------------
(***************************************************************************)
(* The rate limiter every request passes first: the requests of one client *)
(* to one route, on the worker processes of the cluster.  Redis counts     *)
(* them in a sorted set; a worker that gets no answer counts in memory.    *)
(*                                                                         *)
(* A request of the model is made once, so that the requests are also the  *)
(* history.  What a request passes after the limiter (the other guards and *)
(* load shedding) refuses more but changes nothing here.  A worker is one  *)
(* process: when it dies, PM2 starts another, whose memory is empty.       *)
(***************************************************************************)
EXTENDS Integers, FiniteSets

CONSTANTS
    Request,
    Worker,         \* the processes of the cluster, those started later included
    Limit, Window,  \* config.limit and config.window
    Delay,          \* REDIS_TIMEOUT_MS, less than the window
    MaxTime         \* bound of the model: the last instant

ASSUME ConstantsOK ==
    /\ Limit \in Nat \ {0} /\ Window \in Nat /\ Delay \in Nat
    /\ Delay < Window /\ MaxTime \in Nat

VARIABLES
    now,     \* Date.now, which the workers share
    zset,    \* the scores of ratelimit:*, each its own member
    expiry,  \* when Redis removes the key
    memory,  \* fallbackStore of each worker
    dead,    \* the workers that have ended; another may not have begun
    req      \* what each request is at

vars == <<now, zset, expiry, memory, dead, req>>

Time == 0..MaxTime
NoTime == -1
NoWindow == [count |-> 0, start |-> -Window - 1]
Unsent == [stage |-> "unsent", worker |-> "none",
           at |-> NoTime, decided |-> NoTime, queued |-> FALSE]

RequestRecord ==
    [stage : {"unsent", "waiting", "allowed", "limited", "allowedLocally", "limitedLocally", "lost"},
     worker : Worker \cup {"none"}, at : Time \cup {NoTime}, decided : Time \cup {NoTime},
     queued : BOOLEAN]

TypeOK ==
    /\ now \in Time
    /\ zset \subseteq Time
    /\ expiry \in 0..MaxTime + Window
    /\ memory \in [Worker -> [count : Nat, start : Time \cup {NoWindow.start}]]
    /\ dead \subseteq Worker
    /\ req \in [Request -> RequestRecord]
    /\ \A s \in zset : s <= now /\ s < expiry

Init ==
    /\ now = 0
    /\ zset = {}
    /\ expiry = 0
    /\ memory = [w \in Worker |-> NoWindow]
    /\ dead = {}
    /\ req = [r \in Request |-> Unsent]

-----------------------------------------------------------------------------
\* The guard reads the clock and sends the MULTI.
Arrive(r, w) ==
    /\ req[r].stage = "unsent" /\ w \notin dead
    /\ req' = [req EXCEPT ![r] =
                 [stage |-> "waiting", worker |-> w, at |-> now, decided |-> NoTime, queued |-> TRUE]]
    /\ UNCHANGED <<now, zset, expiry, memory, dead>>

\* The set once the key has expired, if it has.
Kept == IF expiry <= now THEN {} ELSE zset

\* Faulty variant: an entry is counted at the instant it leaves the window.
CountedInclusive(t) == {s \in Kept : s >= t - Window} \cup {t}

\* zremrangebyscore and zadd for a request that read the clock at t.
Counted(t) == {s \in Kept : s > t - Window} \cup {t}

\* Faulty variant: the request itself does not count.
TooManyOthers(set) == Cardinality(set) - 1 > Limit

TooMany(set) == Cardinality(set) > Limit

Expiry == now + Window

Decide(r, stage, queued) ==
    req' = [req EXCEPT ![r] = [stage |-> stage, worker |-> req[r].worker, at |-> req[r].at,
                               decided |-> now, queued |-> queued]]

\* The MULTI runs and its answer arrives in time; or its answer is lost, or the
\* request has stopped waiting; or the connection ends before the answer and the
\* client sends the MULTI again, to run once more.
Exec(r) ==
    /\ req[r].queued
    /\ zset' = Counted(req[r].at)
    /\ expiry' = Expiry
    /\ \/ /\ req[r].stage = "waiting"
          /\ Decide(r, IF TooMany(zset') THEN "limited" ELSE "allowed", FALSE)
       \/ req' = [req EXCEPT ![r].queued = FALSE]
       \/ req[r].worker \notin dead /\ UNCHANGED req
    /\ UNCHANGED <<now, memory, dead>>

\* The connection fails: what was sent is not run.
Dropped(r) ==
    /\ req[r].queued
    /\ req' = [req EXCEPT ![r].queued = FALSE]
    /\ UNCHANGED <<now, zset, expiry, memory, dead>>

\* Faulty variant: the window is taken for milliseconds.
NextWindowTooSoon(window) ==
    IF now > window.start THEN [count |-> 1, start |-> now]
    ELSE [window EXCEPT !.count = @ + 1]

\* checkRateLimitInMemory: a fixed window, which a request may still fall in
\* at the instant it ends.
NextWindow(window) ==
    IF now - window.start > Window THEN [count |-> 1, start |-> now]
    ELSE [window EXCEPT !.count = @ + 1]

\* Redis has failed, or has not answered within the timeout.
FallBack(r) ==
    /\ req[r].stage = "waiting"
    /\ LET w == req[r].worker
           window == NextWindow(memory[w])
       IN /\ memory' = [memory EXCEPT ![w] = window]
          /\ Decide(r, IF window.count > Limit THEN "limitedLocally" ELSE "allowedLocally",
                    req[r].queued)
    /\ UNCHANGED <<now, zset, expiry, dead>>

\* A worker dies with its fallbackStore.  Its requests get no answer, but what
\* they sent to Redis may still run.
Crash(w) ==
    /\ w \notin dead
    /\ dead' = dead \cup {w}
    /\ memory' = [memory EXCEPT ![w] = NoWindow]
    /\ req' = [r \in Request |->
                 IF req[r].worker = w /\ req[r].stage = "waiting"
                 THEN [req[r] EXCEPT !.stage = "lost"] ELSE req[r]]
    /\ UNCHANGED <<now, zset, expiry>>

\* Timers are on time: nothing waits longer than the timeout.
Tick ==
    /\ now < MaxTime
    /\ \A r \in Request : req[r].stage = "waiting" => now < req[r].at + Delay
    /\ now' = now + 1
    /\ UNCHANGED <<zset, expiry, memory, dead, req>>

\* The end of the history the bounds allow.
Finished ==
    /\ now = MaxTime
    /\ \A r \in Request : req[r].stage # "waiting" /\ ~req[r].queued
    /\ UNCHANGED vars

Next ==
    \/ \E r \in Request, w \in Worker : Arrive(r, w)
    \/ \E r \in Request : Exec(r) \/ Dropped(r) \/ FallBack(r)
    \/ \E w \in Worker : Crash(w)
    \/ Tick \/ Finished

Spec == Init /\ [][Next]_vars

-----------------------------------------------------------------------------
At(stage) == {r \in Request : req[r].stage = stage}

(* While Redis answers, the limit holds across the workers, though they run *)
(* their MULTIs out of order: the instants of the requests it let through   *)
(* in a window, less the time a MULTI may be under way, are at most Limit.  *)
(* Requests of one millisecond share a member of the set and count as one.  *)
RedisKeepsTheLimit ==
    \A t \in Time :
        Cardinality({req[r].at : r \in At("allowed")} \cap t..t + Window - Delay - 1) <= Limit

(* Without Redis a worker process lets through at most twice the limit in   *)
(* any window, the end of one fixed window and the start of the next.  A    *)
(* process started in its place begins anew, with twice the limit of its    *)
(* own: the bound is that of the processes that lived in the window.        *)
MemoryKeepsTwiceTheLimit ==
    \A w \in Worker, t \in Time :
        Cardinality({r \in At("allowedLocally") :
                       req[r].worker = w /\ req[r].decided \in t..t + Window}) <= 2 * Limit

(* Whoever is refused made Limit other requests: by Redis, within the       *)
(* window before or while the refusal was under way; in memory, to the same *)
(* worker process and counted there too.  No refusal comes from old         *)
(* entries, whatever runs late, twice or not at all, and none from a        *)
(* process that has died.                                                   *)
CountedWith(r) ==
    IF req[r].stage = "limited"
    THEN {q \in Request : req[q].at \in Time \cap req[r].at - Window + 1..req[r].decided}
    ELSE {q \in Request : /\ req[q].worker = req[r].worker
                          /\ req[q].stage \in {"allowedLocally", "limitedLocally"}
                          /\ req[q].decided \in req[r].decided - Window..req[r].decided}

RefusedForCause ==
    \A r \in At("limited") \cup At("limitedLocally") :
        Cardinality(CountedWith(r) \ {r}) >= Limit
=============================================================================
