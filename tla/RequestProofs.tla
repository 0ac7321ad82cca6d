--------------------------- MODULE RequestProofs ---------------------------
(***************************************************************************)
(* What the limiter promises, for any number of requests and of workers,   *)
(* and any limit, window and timeout; and what the caller of a request may *)
(* conclude from a refusal, for any texts, any number of calls and of      *)
(* attempts.  RequestGate and RequestPath have no state in common.         *)
(***************************************************************************)
EXTENDS RequestGate, RequestPath, FiniteSetTheorems, SequenceTheorems, WellFoundedInduction, TLAPS

-----------------------------------------------------------------------------
(* Types, and what the clock says of the requests. *)

\* The guard waits no longer than the timeout, and no clock reading is to come.
OnTime ==
  \A r \in Request :
    /\ req[r].stage = "waiting" => /\ req[r].worker \in Worker /\ req[r].worker \notin dead
                                   /\ req[r].at \in Time /\ now <= req[r].at + Delay
    /\ req[r].queued => req[r].at \in Time
    /\ req[r].at <= now

\* An entry is no younger than the clock and lives for a window at least.
EntriesLive == \A s \in zset : s <= now /\ s + Window <= expiry

TypeInv == TypeOK /\ OnTime /\ EntriesLive

\* Every initial state has the types.
LEMMA TypeInit == Init => TypeInv
BY ConstantsOK DEF Init, TypeInv, TypeOK, OnTime, EntriesLive, Unsent, NoWindow, Time, NoTime, RequestRecord

\* A MULTI that runs unheard or is dropped changes nothing else of its request.
LEMMA Unqueued ==
  ASSUME TypeInv, NEW r \in Request, req' = [req EXCEPT ![r].queued = FALSE]
  PROVE  /\ req' \in [Request -> RequestRecord]
         /\ \A q \in Request : /\ req'[q].at = req[q].at /\ req'[q].worker = req[q].worker
                               /\ req'[q].stage = req[q].stage /\ req'[q].decided = req[q].decided
                               /\ req'[q].queued => req[q].queued
<1>1. req \in [Request -> RequestRecord]
  BY DEF TypeInv, TypeOK
<1>2. \A x \in RequestRecord : LET y == [x EXCEPT !.queued = FALSE]
                              IN  /\ y \in RequestRecord /\ ~y.queued /\ y.decided = x.decided
                                  /\ y.at = x.at /\ y.worker = x.worker /\ y.stage = x.stage
  BY DEF RequestRecord
<1>3. req' = [req EXCEPT ![r] = [req[r] EXCEPT !.queued = FALSE]]
  OBVIOUS
<1>4. QED
  BY <1>1, <1>2, <1>3

\* A process that ends takes its waiting requests with it, and nothing else.
LEMMA Lost ==
  ASSUME TypeInv, NEW w \in Worker, Crash(w)
  PROVE  /\ req' \in [Request -> RequestRecord]
         /\ \A q \in Request :
              /\ req'[q].at = req[q].at /\ req'[q].worker = req[q].worker
              /\ req'[q].decided = req[q].decided /\ req'[q].queued = req[q].queued
              /\ \/ req'[q].stage = req[q].stage /\ ~(req[q].stage = "waiting" /\ req[q].worker = w)
                 \/ req[q].stage = "waiting" /\ req'[q].stage = "lost"
<1>1. req \in [Request -> RequestRecord]
  BY DEF TypeInv, TypeOK
<1>2. \A x \in RequestRecord : LET y == [x EXCEPT !.stage = "lost"]
                              IN  /\ y \in RequestRecord /\ y.stage = "lost" /\ y.queued = x.queued
                                  /\ y.at = x.at /\ y.worker = x.worker /\ y.decided = x.decided
  BY DEF RequestRecord
<1>3. \A q \in Request : req'[q] = IF req[q].worker = w /\ req[q].stage = "waiting"
                                  THEN [req[q] EXCEPT !.stage = "lost"] ELSE req[q]
  BY DEF Crash
<1>4. req' = [q \in Request |-> req'[q]]
  BY <1>3 DEF Crash
<1>5. \A q \in Request : req[q] \in RequestRecord /\ req'[q] \in RequestRecord
  BY <1>1, <1>2, <1>3
<1>6. req' \in [Request -> RequestRecord]
  BY <1>4, <1>5
<1>7. ASSUME NEW q \in Request
      PROVE  /\ req'[q].at = req[q].at /\ req'[q].worker = req[q].worker
             /\ req'[q].decided = req[q].decided /\ req'[q].queued = req[q].queued
             /\ \/ req'[q].stage = req[q].stage /\ ~(req[q].stage = "waiting" /\ req[q].worker = w)
                \/ req[q].stage = "waiting" /\ req'[q].stage = "lost"
  <2> DEFINE y == [req[q] EXCEPT !.stage = "lost"]
  <2>1. /\ y.stage = "lost" /\ y.queued = req[q].queued /\ y.at = req[q].at
        /\ y.worker = req[q].worker /\ y.decided = req[q].decided
    BY <1>1, <1>2
  <2>2. CASE req[q].worker = w /\ req[q].stage = "waiting"
    <3>1. req'[q] = y
      BY <1>3, <2>2
    <3> HIDE DEF y
    <3>2. QED
      BY <2>1, <2>2, <3>1
  <2>3. CASE ~(req[q].worker = w /\ req[q].stage = "waiting")
    <3>1. req'[q] = req[q]
      BY <1>3, <2>3
    <3>2. QED
      BY <2>3, <3>1
  <2>4. QED
    BY <2>2, <2>3
<1>8. QED
  BY <1>6, <1>7

\* No step leaves the types.
LEMMA TypeStep == TypeInv /\ [Next]_vars => TypeInv'
<1> SUFFICES ASSUME TypeInv, [Next]_vars PROVE TypeInv'
  OBVIOUS
<1> USE ConstantsOK DEF TypeInv, TypeOK, OnTime, EntriesLive, Time
<1>1. ASSUME NEW r \in Request, NEW w \in Worker, Arrive(r, w) PROVE TypeInv'
  BY <1>1 DEF Arrive, NoTime, RequestRecord
<1>2. ASSUME NEW r \in Request, Exec(r) PROVE TypeInv'
  <2>1. zset' \subseteq Time /\ expiry' \in 0..MaxTime + Window
    BY <1>2 DEF Exec, Counted, Kept, Expiry
  <2>2. \A s \in zset' : s <= now /\ s + Window <= expiry' /\ s < expiry'
    BY <1>2 DEF Exec, Counted, Kept, Expiry
  <2>3. UNCHANGED <<now, memory, dead>>
    BY <1>2 DEF Exec
  <2>4. CASE req' = [req EXCEPT ![r].queued = FALSE]
    <3> HIDE DEF TypeInv, TypeOK, OnTime, EntriesLive
    <3>1. /\ req' \in [Request -> RequestRecord]
          /\ \A q \in Request : /\ req'[q].at = req[q].at /\ req'[q].worker = req[q].worker
                                /\ req'[q].stage = req[q].stage /\ (req'[q].queued => req[q].queued)
      BY Unqueued, <2>4
    <3>2. TypeOK' /\ EntriesLive'
      BY <2>1, <2>2, <2>3, <3>1 DEF TypeInv, TypeOK, EntriesLive
    <3>3. OnTime'
      BY <2>3, <3>1 DEF TypeInv, OnTime
    <3>4. QED
      BY <3>2, <3>3 DEF TypeInv
  <2>5. CASE Decide(r, "limited", FALSE) \/ Decide(r, "allowed", FALSE)
    <3>1. PICK s \in {"limited", "allowed"} : Decide(r, s, FALSE)
      BY <2>5
    <3>2. QED
      BY <2>1, <2>2, <2>3, <3>1 DEF Decide, RequestRecord
  <2> HIDE DEF TypeInv, TypeOK, OnTime, EntriesLive
  <2>6. \/ req' = [req EXCEPT ![r].queued = FALSE]
        \/ Decide(r, IF TooMany(zset') THEN "limited" ELSE "allowed", FALSE)
        \/ UNCHANGED req
    BY <1>2 DEF Exec
  <2>7. CASE UNCHANGED req
    BY <2>1, <2>2, <2>3, <2>7 DEF TypeInv, TypeOK, OnTime, EntriesLive
  <2>8. QED
    BY <2>4, <2>5, <2>6, <2>7
<1>3. ASSUME NEW r \in Request, Dropped(r) PROVE TypeInv'
  <2> HIDE DEF TypeInv, TypeOK, OnTime, EntriesLive
  <2>1. /\ req' \in [Request -> RequestRecord]
        /\ \A q \in Request : /\ req'[q].at = req[q].at /\ req'[q].worker = req[q].worker
                              /\ req'[q].stage = req[q].stage /\ (req'[q].queued => req[q].queued)
    BY Unqueued, <1>3 DEF Dropped
  <2>2. UNCHANGED <<now, zset, expiry, memory, dead>>
    BY <1>3 DEF Dropped
  <2>3. TypeOK' /\ EntriesLive'
    BY <2>1, <2>2 DEF TypeInv, TypeOK, EntriesLive
  <2>4. OnTime'
    BY <2>1, <2>2 DEF TypeInv, OnTime
  <2>5. QED
    BY <2>3, <2>4 DEF TypeInv
<1>4. ASSUME NEW r \in Request, FallBack(r) PROVE TypeInv'
  <2>1. PICK s \in {"limitedLocally", "allowedLocally"} : Decide(r, s, req[r].queued)
    BY <1>4 DEF FallBack
  <2>2. NextWindow(memory[req[r].worker]) \in [count : Nat, start : Time \cup {NoWindow.start}]
    BY <1>4 DEF FallBack, NextWindow
  <2>3. memory' \in [Worker -> [count : Nat, start : Time \cup {NoWindow.start}]]
    BY <1>4, <2>2 DEF FallBack
  <2>4. UNCHANGED <<now, zset, expiry, dead>> /\ req[r].stage = "waiting"
    BY <1>4 DEF FallBack
  <2>5. /\ req' \in [Request -> RequestRecord]
        /\ \A q \in Request : /\ req'[q].at = req[q].at /\ req'[q].worker = req[q].worker
                              /\ req'[q].queued = req[q].queued
                              /\ req'[q].stage = "waiting" => req[q].stage = "waiting"
    BY <2>1 DEF Decide, RequestRecord
  <2>6. QED
    BY <2>3, <2>4, <2>5
<1>5. CASE Tick
  BY <1>5 DEF Tick, NoTime, RequestRecord
<1>6. ASSUME NEW w \in Worker, Crash(w) PROVE TypeInv'
  <2> HIDE DEF TypeInv, TypeOK, OnTime, EntriesLive
  <2>1. /\ req' \in [Request -> RequestRecord]
        /\ \A q \in Request :
             /\ req'[q].at = req[q].at /\ req'[q].worker = req[q].worker /\ req'[q].queued = req[q].queued
             /\ req'[q].stage = "waiting" => req[q].stage = "waiting" /\ req[q].worker # w
    BY <1>6, Lost
  <2>2. NoWindow \in [count : Nat, start : Time \cup {NoWindow.start}]
    BY DEF NoWindow
  <2>3. /\ UNCHANGED <<now, zset, expiry>> /\ dead' = dead \cup {w}
        /\ memory' = [memory EXCEPT ![w] = NoWindow]
    BY <1>6 DEF Crash
  <2>4. memory' \in [Worker -> [count : Nat, start : Time \cup {NoWindow.start}]]
    BY <2>2, <2>3 DEF TypeInv, TypeOK
  <2>5. TypeOK' /\ EntriesLive'
    BY <2>1, <2>3, <2>4 DEF TypeInv, TypeOK, EntriesLive
  <2>6. OnTime'
    BY <2>1, <2>3 DEF TypeInv, OnTime
  <2>7. QED
    BY <2>5, <2>6 DEF TypeInv
<1>7. CASE UNCHANGED vars
  BY <1>7 DEF vars
<1>8. QED
  BY <1>1, <1>2, <1>3, <1>4, <1>5, <1>6, <1>7 DEF Next, Finished

\* The types are an invariant.
LEMMA TypeInvariant == Spec => []TypeInv
BY TypeInit, TypeStep, PTL DEF Spec

\* Type correctness of the limiter; no entry of the sorted set is from the
\* future or outlives its key.
THEOREM TypeCorrect == Spec => []TypeOK
BY TypeInvariant, PTL DEF TypeInv

-----------------------------------------------------------------------------
(* The limit. *)

\* A request that was let through is in the set until it has left the window.
Remembered ==
  \A r \in Request : req[r].stage = "allowed" =>
    req[r].at \in Time /\ (req[r].at \in zset \/ req[r].at <= now - Window)

\* The instants of the requests let through from t on, in a window less the
\* time a MULTI may be under way.
LetThrough(t) == {req[r].at : r \in At("allowed")} \cap t..t + Window - Delay - 1

LimitInv == Remembered /\ RedisKeepsTheLimit

\* A set of instants is finite, and none of its subsets has more members.
LEMMA Instants ==
  ASSUME NEW S \in SUBSET Time, NEW T \in SUBSET S
  PROVE  /\ IsFiniteSet(S) /\ Cardinality(S) \in Nat /\ Cardinality(T) \in Nat
         /\ Cardinality(T) <= Cardinality(S)
<1>1. MaxTime \in Int /\ 0 \in Int
  BY ConstantsOK
<1>2. IsFiniteSet(Time)
  BY <1>1, FS_Interval DEF Time
<1>3. IsFiniteSet(S)
  BY <1>2, FS_Subset
<1>4. IsFiniteSet(T) /\ Cardinality(T) <= Cardinality(S)
  BY <1>3, FS_Subset
<1>5. QED
  BY <1>3, <1>4, FS_CardinalityType

\* Initially nothing was let through.
LEMMA LimitInit == Init => LimitInv
<1> SUFFICES ASSUME Init PROVE LimitInv
  OBVIOUS
<1>1. At("allowed") = {} /\ Remembered
  BY DEF Init, At, Unsent, Remembered
<1>2. \A t \in Time : {req[r].at : r \in At("allowed")} \cap t..t + Window - Delay - 1 = {}
  BY <1>1
<1>3. Cardinality({}) = 0 /\ 0 <= Limit
  BY ConstantsOK, FS_EmptySet
<1>4. RedisKeepsTheLimit
  BY <1>2, <1>3 DEF RedisKeepsTheLimit
<1>5. QED
  BY <1>1, <1>4 DEF LimitInv

\* No step forgets a request that was let through, or lets one through too many.
LEMMA LimitStep == TypeInv /\ LimitInv /\ [Next]_vars => LimitInv'
<1> SUFFICES ASSUME TypeInv, LimitInv, [Next]_vars PROVE LimitInv'
  OBVIOUS
<1>1. ASSUME zset' = zset, now' \in {now, now + 1}, DOMAIN req' = Request,
             \A r \in Request : req'[r].stage = "allowed" => req[r].stage = "allowed" /\ req'[r].at = req[r].at
      PROVE  LimitInv'
  <2>1. Remembered'
    BY <1>1, ConstantsOK DEF LimitInv, Remembered, TypeInv, TypeOK, Time
  <2>2. ASSUME NEW t \in Time PROVE Cardinality(LetThrough(t)') <= Limit
    <3>1. LetThrough(t)' \subseteq LetThrough(t) /\ LetThrough(t) \subseteq Time
      BY <1>1 DEF LetThrough, At, LimitInv, Remembered
    <3>2. Cardinality(LetThrough(t)) <= Limit
      BY DEF LimitInv, RedisKeepsTheLimit, LetThrough
    <3>3. QED
      BY <3>1, <3>2, Instants, ConstantsOK
  <2>3. QED
    BY <2>1, <2>2 DEF LimitInv, RedisKeepsTheLimit, LetThrough
<1>2. ASSUME NEW r \in Request, Exec(r) PROVE LimitInv'
  <2>1. /\ zset' = Counted(req[r].at) /\ now' = now /\ now \in Nat
        /\ req[r].at \in Time /\ req[r].at <= now
    BY <1>2 DEF Exec, TypeInv, TypeOK, OnTime, Time
  <2>2. \A q \in Request : req[q].stage = "allowed" =>
          /\ req[q].at \in Time
          /\ req[q].at \in zset' \/ req[q].at <= now - Window
    BY <2>1, ConstantsOK DEF Counted, Kept, LimitInv, Remembered, TypeInv, TypeOK, EntriesLive, Time
  <2>3. /\ DOMAIN req' = Request
        /\ \A q \in Request : req'[q].at = req[q].at
        /\ \A q \in Request \ {r} : req'[q] = req[q]
    BY <1>2 DEF Exec, Decide, TypeInv, TypeOK, RequestRecord
  <2>4. CASE req'[r].stage = "allowed" => req[r].stage = "allowed"
    <3>1. \A q \in Request : req'[q].stage = "allowed" => req[q].stage = "allowed"
      BY <2>3, <2>4
    <3>2. Remembered'
      BY <2>1, <2>2, <2>3, <3>1 DEF Remembered
    <3>3. ASSUME NEW t \in Time PROVE Cardinality(LetThrough(t)') <= Limit
      <4>1. LetThrough(t)' \subseteq LetThrough(t) /\ LetThrough(t) \subseteq Time
        BY <2>3, <3>1 DEF LetThrough, At, LimitInv, Remembered
      <4>2. Cardinality(LetThrough(t)) <= Limit
        BY DEF LimitInv, RedisKeepsTheLimit, LetThrough
      <4>3. QED
        BY <4>1, <4>2, Instants, ConstantsOK
    <3>4. QED
      BY <3>2, <3>3 DEF LimitInv, RedisKeepsTheLimit, LetThrough
  <2>5. CASE req'[r].stage = "allowed" /\ req[r].stage # "allowed"
    <3>1. req[r].stage = "waiting" /\ ~TooMany(zset')
      BY <1>2, <2>5 DEF Exec, Decide, TypeInv, TypeOK, RequestRecord
    <3>2. /\ now <= req[r].at + Delay /\ req[r].at \in zset' /\ zset' \subseteq Time
          /\ Cardinality(zset') <= Limit
      <4>1. now <= req[r].at + Delay
        BY <3>1 DEF TypeInv, OnTime
      <4>2. req[r].at \in zset' /\ zset' \subseteq Time
        BY <2>1 DEF Counted, Kept, TypeInv, TypeOK
      <4>3. Cardinality(zset') \in Nat
        BY <4>2, Instants
      <4>4. QED
        BY <3>1, <4>1, <4>2, <4>3, ConstantsOK DEF TooMany
    <3>3. Remembered'
      BY <2>1, <2>2, <2>3, <3>2 DEF Remembered
    <3>4. ASSUME NEW t \in Time PROVE Cardinality(LetThrough(t)') <= Limit
      <4>1. CASE req[r].at \in t..t + Window - Delay - 1
        <5>1. LetThrough(t)' \subseteq zset'
          <6> SUFFICES ASSUME NEW q \in Request, req'[q].stage = "allowed",
                              req'[q].at \in t..t + Window - Delay - 1
                       PROVE  req'[q].at \in zset'
            BY <2>3 DEF LetThrough, At
          <6>1. req[q].at > now - Window
            BY <2>1, <2>3, <3>2, <4>1, ConstantsOK DEF Time
          <6>2. QED
            BY <2>1, <2>2, <2>3, <3>2, <6>1, ConstantsOK DEF Time
        <5>2. QED
          BY <3>2, <5>1, Instants, ConstantsOK
      <4>2. CASE req[r].at \notin t..t + Window - Delay - 1
        <5>1. LetThrough(t)' \subseteq LetThrough(t) /\ LetThrough(t) \subseteq Time
          BY <2>3, <4>2 DEF LetThrough, At, LimitInv, Remembered
        <5>2. Cardinality(LetThrough(t)) <= Limit
          BY DEF LimitInv, RedisKeepsTheLimit, LetThrough
        <5>3. QED
          BY <5>1, <5>2, Instants, ConstantsOK
      <4>3. QED
        BY <4>1, <4>2
    <3>5. QED
      BY <3>3, <3>4 DEF LimitInv, RedisKeepsTheLimit, LetThrough
  <2>6. QED
    BY <2>4, <2>5
<1>3. ASSUME NEW r \in Request, NEW w \in Worker, Arrive(r, w) PROVE LimitInv'
  BY <1>1, <1>3 DEF Arrive, TypeInv, TypeOK
<1>4. ASSUME NEW r \in Request, Dropped(r) PROVE LimitInv'
  BY <1>1, <1>4 DEF Dropped, TypeInv, TypeOK
<1>5. ASSUME NEW r \in Request, FallBack(r) PROVE LimitInv'
  BY <1>1, <1>5 DEF FallBack, Decide, TypeInv, TypeOK
<1>6. CASE Tick
  BY <1>1, <1>6 DEF Tick, TypeInv, TypeOK
<1>7. ASSUME NEW w \in Worker, Crash(w) PROVE LimitInv'
  <2>1. DOMAIN req' = Request /\ zset' = zset /\ now' = now
    BY <1>7 DEF Crash
  <2>2. \A q \in Request : req'[q].stage = "allowed" => req[q].stage = "allowed" /\ req'[q].at = req[q].at
    BY <1>7, Lost
  <2>3. QED
    BY <1>1, <2>1, <2>2
<1>8. CASE UNCHANGED vars
  BY <1>1, <1>8 DEF vars, TypeInv, TypeOK
<1>9. QED
  BY <1>2, <1>3, <1>4, <1>5, <1>6, <1>7, <1>8 DEF Next, Finished

\* While Redis answers, the limit holds in every window, less the timeout, on
\* all workers together, in whatever order their MULTIs run.
THEOREM LimitHolds == Spec => []RedisKeepsTheLimit
BY TypeInvariant, LimitInit, LimitStep, PTL DEF Spec, LimitInv


-----------------------------------------------------------------------------
(* Without Redis. *)

Local == {"allowedLocally", "limitedLocally"}

\* The requests made so far are finitely many, however many there may be.
Sent == {r \in Request : req[r].stage # "unsent"}

\* What a worker let through in its present fixed window, and in the time
\* before it in which a window that reaches into it may begin.
InWindow(w) == {r \in Request : /\ req[r].worker = w /\ req[r].stage \in Local
                                /\ req[r].decided >= memory[w].start}
PassedIn(w) == {r \in InWindow(w) : req[r].stage = "allowedLocally"}
PassedBefore(w) == {r \in At("allowedLocally") :
                      /\ req[r].worker = w
                      /\ memory[w].start - Window <= req[r].decided
                      /\ req[r].decided < memory[w].start}

\* The fixed windows of a process follow one another without overlapping, and
\* each counts the requests that fell in it, as long as the process lives.
WindowsInv ==
  /\ IsFiniteSet(Sent)
  /\ \A w \in Worker : memory[w].start <= now
  /\ \A r \in Request : req[r].stage \in Local =>
       /\ req[r].worker \in Worker /\ req[r].decided \in Time
       /\ req[r].decided <= now
       /\ req[r].worker \notin dead => req[r].decided <= memory[req[r].worker].start + Window
  /\ \A w \in Worker \ dead : /\ memory[w].count = Cardinality(InWindow(w))
                              /\ Cardinality(PassedIn(w)) <= Limit
                              /\ Cardinality(PassedBefore(w)) <= Limit

\* Requests that were sent are finite sets, and their sizes compare as they do.
LEMMA SentSizes ==
  ASSUME IsFiniteSet(Sent)
  PROVE  /\ \A S \in SUBSET Sent : IsFiniteSet(S) /\ Cardinality(S) \in Nat
         /\ \A S \in SUBSET Sent : \A T \in SUBSET S : Cardinality(T) <= Cardinality(S)
         /\ \A S, T \in SUBSET Sent : Cardinality(S \cup T) <= Cardinality(S) + Cardinality(T)
         /\ \A S \in SUBSET Sent : \A r \in Sent \ S : Cardinality(S \cup {r}) = Cardinality(S) + 1
         /\ \A S \in SUBSET Sent : \A r \in S : Cardinality(S \ {r}) = Cardinality(S) - 1
         /\ \A r \in Sent : Cardinality({r}) = 1
         /\ Cardinality({}) = 0
<1>1. \A S \in SUBSET Sent : IsFiniteSet(S) /\ Cardinality(S) \in Nat
  BY FS_Subset, FS_CardinalityType
<1>2. \A S \in SUBSET Sent : \A T \in SUBSET S : Cardinality(T) <= Cardinality(S)
  BY <1>1, FS_Subset
<1>3. ASSUME NEW S \in SUBSET Sent, NEW T \in SUBSET Sent
      PROVE  Cardinality(S \cup T) <= Cardinality(S) + Cardinality(T)
  <2>1. S \cap T \in SUBSET Sent
    OBVIOUS
  <2>2. Cardinality(S \cup T) = Cardinality(S) + Cardinality(T) - Cardinality(S \cap T)
    BY <1>1, FS_Union
  <2>3. Cardinality(S \cap T) \in Nat /\ Cardinality(S) \in Nat /\ Cardinality(T) \in Nat
    BY <1>1, <2>1
  <2>4. QED
    BY <2>2, <2>3
<1>4. \A S \in SUBSET Sent : \A r \in Sent \ S : Cardinality(S \cup {r}) = Cardinality(S) + 1
  BY <1>1, FS_AddElement
<1>5. \A S \in SUBSET Sent : \A r \in S : Cardinality(S \ {r}) = Cardinality(S) - 1
  BY <1>1, FS_RemoveElement
<1>6. QED
  BY <1>1, <1>2, <1>3, <1>4, <1>5, FS_EmptySet, FS_Singleton

\* Initially no window was opened.
LEMMA WindowsInit == Init => WindowsInv /\ MemoryKeepsTwiceTheLimit
<1> SUFFICES ASSUME Init PROVE WindowsInv /\ MemoryKeepsTwiceTheLimit
  OBVIOUS
<1>1. Sent = {} /\ \A r \in Request : req[r].stage = "unsent"
  BY DEF Init, Unsent, Sent
<1>2. /\ \A w \in Worker : InWindow(w) = {} /\ PassedIn(w) = {} /\ PassedBefore(w) = {}
      /\ \A w \in Worker, t \in Time :
           {r \in At("allowedLocally") : req[r].worker = w /\ req[r].decided \in t..t + Window} = {}
  BY <1>1 DEF InWindow, PassedIn, PassedBefore, Local, At
<1>3. \A w \in Worker : memory[w].start <= now /\ memory[w].count = 0
  BY ConstantsOK DEF Init, NoWindow
<1>4. Cardinality({}) = 0 /\ IsFiniteSet({})
  BY FS_EmptySet
<1>5. 0 <= Limit /\ 0 <= 2 * Limit
  BY ConstantsOK
<1>6. WindowsInv
  <2>1. \A r \in Request : req[r].stage \notin Local
    BY <1>1 DEF Local
  <2>2. \A w \in Worker : /\ Cardinality(InWindow(w)) = 0 /\ Cardinality(PassedIn(w)) = 0
                          /\ Cardinality(PassedBefore(w)) = 0
    BY <1>2, <1>4
  <2>3. QED
    BY <1>1, <1>3, <1>4, <1>5, <2>1, <2>2 DEF WindowsInv
<1>7. MemoryKeepsTwiceTheLimit
  <2>1. ASSUME NEW w \in Worker, NEW t \in Time
        PROVE  Cardinality({r \in At("allowedLocally") :
                              req[r].worker = w /\ req[r].decided \in t..t + Window}) <= 2 * Limit
    BY <1>2, <1>4, <1>5
  <2>2. QED
    BY <2>1 DEF MemoryKeepsTwiceTheLimit
<1>8. QED
  BY <1>6, <1>7

\* What a step that decides nothing in memory leaves as it is.
LEMMA WindowsKept ==
  ASSUME TypeInv, WindowsInv, MemoryKeepsTwiceTheLimit, now <= now', now' \in Time,
         dead \subseteq dead', \A w \in Worker \ dead' : memory'[w] = memory[w],
         \A w \in Worker : memory'[w].start <= now',
         IsFiniteSet(Sent)',
         \A r \in Request : req'[r].stage \in Local \/ req[r].stage \in Local =>
           /\ req'[r].stage = req[r].stage /\ req'[r].worker = req[r].worker
           /\ req'[r].decided = req[r].decided
  PROVE  WindowsInv' /\ MemoryKeepsTwiceTheLimit'
<1>1. \A w \in Worker \ dead' : InWindow(w)' = InWindow(w)
  BY DEF InWindow, Local
<1>2. \A w \in Worker \ dead' : PassedIn(w)' = PassedIn(w)
  BY <1>1 DEF PassedIn, InWindow, Local
<1>3. At("allowedLocally")' = At("allowedLocally") /\ \A r \in At("allowedLocally") : /\ req'[r].worker = req[r].worker
                                         /\ req'[r].decided = req[r].decided
  BY DEF At, Local
<1>4. \A w \in Worker \ dead' : PassedBefore(w)' = PassedBefore(w)
  BY <1>3 DEF PassedBefore
<1>5. MemoryKeepsTwiceTheLimit'
  BY <1>3 DEF MemoryKeepsTwiceTheLimit
<1>6. now \in Nat /\ now' \in Nat
  BY ConstantsOK DEF TypeInv, TypeOK, Time
<1>7. \A r \in Request : req'[r].stage \in Local =>
        /\ req'[r].worker \in Worker /\ req'[r].decided \in Time
        /\ req'[r].decided <= now'
        /\ req'[r].worker \notin dead' => req'[r].decided <= memory'[req'[r].worker].start + Window
  BY <1>6 DEF WindowsInv, Time
<1>8. QED
  BY <1>1, <1>2, <1>4, <1>5, <1>7 DEF WindowsInv

\* A worker's memory has not begun a window yet to come.
LEMMA StartsPast ==
  ASSUME TypeInv, WindowsInv, now <= now', now' \in Time
  PROVE  \A w \in Worker : memory[w].start <= now' /\ NoWindow.start <= now'
<1>1. now \in Nat /\ now' \in Nat /\ \A w \in Worker : memory[w].start \in Int /\ memory[w].start <= now
  BY ConstantsOK DEF TypeInv, TypeOK, Time, NoWindow, WindowsInv
<1>2. QED
  BY <1>1, ConstantsOK DEF NoWindow

\* A decision in memory: the request falls in the window, or begins the next one
\* when nothing later than its end was decided.
LEMMA WindowsFallBack ==
  ASSUME TypeInv, WindowsInv, MemoryKeepsTwiceTheLimit, NEW r \in Request, FallBack(r),
         NEW w \in Worker, w = req[r].worker
  PROVE  WindowsInv' /\ MemoryKeepsTwiceTheLimit'
<1> DEFINE old == memory[w]
           new == NextWindow(old)
<1>1. /\ req[r].stage = "waiting" /\ now' = now /\ now \in Nat /\ now \in Time
      /\ dead' = dead /\ w \notin dead
      /\ memory' = [memory EXCEPT ![w] = new]
      /\ Decide(r, IF new.count > Limit THEN "limitedLocally" ELSE "allowedLocally", req[r].queued)
  BY DEF FallBack, TypeInv, OnTime, TypeOK, Time
<1>2. /\ old.count \in Nat /\ old.start \in Int /\ new.count \in Nat /\ new.start \in Int
      /\ Limit \in Nat /\ Limit > 0 /\ Window \in Nat /\ old.start <= now
  BY <1>1, ConstantsOK DEF TypeInv, TypeOK, Time, NoWindow, NextWindow, WindowsInv
<1>3. /\ req'[r].stage = (IF new.count > Limit THEN "limitedLocally" ELSE "allowedLocally")
      /\ req'[r].worker = w /\ req'[r].decided = now
      /\ \A q \in Request \ {r} : req'[q] = req[q]
  BY <1>1 DEF Decide, TypeInv, TypeOK
<1>4. memory'[w] = new /\ \A v \in Worker \ {w} : memory'[v] = memory[v]
  BY <1>1 DEF TypeInv, TypeOK
<1>5. Sent' = Sent /\ IsFiniteSet(Sent) /\ r \in Sent
  BY <1>1, <1>3 DEF Sent, WindowsInv
<1>6. \A q \in Request : req[q].stage \in Local =>
        /\ req[q].worker \in Worker /\ req[q].decided \in Nat /\ req[q].decided \in Time /\ req[q].decided <= now
        /\ req[q].worker \notin dead => req[q].decided <= memory[req[q].worker].start + Window
  BY DEF WindowsInv, Time
<1>7. /\ InWindow(w) \in SUBSET Sent /\ PassedIn(w) \in SUBSET InWindow(w) /\ PassedBefore(w) \in SUBSET Sent
      /\ r \notin InWindow(w) /\ r \notin PassedBefore(w)
      /\ old.count = Cardinality(InWindow(w))
      /\ Cardinality(PassedIn(w)) <= Limit /\ Cardinality(PassedBefore(w)) <= Limit
  BY <1>1 DEF InWindow, PassedIn, PassedBefore, Local, At, Sent, WindowsInv
<1>8. ASSUME NEW v \in Worker, v # w
      PROVE  InWindow(v)' = InWindow(v) /\ PassedIn(v)' = PassedIn(v) /\ PassedBefore(v)' = PassedBefore(v)
  <2>1. memory'[v] = memory[v]
    BY <1>4, <1>8
  <2>2. InWindow(v)' = InWindow(v)
    BY <1>1, <1>3, <1>8, <2>1 DEF InWindow, Local
  <2>3. PassedIn(v)' = PassedIn(v)
    BY <1>3, <1>8, <2>2 DEF PassedIn, InWindow
  <2>4. PassedBefore(v)' = PassedBefore(v)
    BY <1>1, <1>3, <1>8, <2>1 DEF PassedBefore, At
  <2>5. QED
    BY <2>2, <2>3, <2>4
<1>9. /\ new.start <= now /\ now <= new.start + Window
      /\ new.count = Cardinality(InWindow(w)')
      /\ Cardinality(PassedIn(w)') <= Limit /\ Cardinality(PassedBefore(w)') <= Limit
      /\ PassedIn(w)' \in SUBSET Sent /\ PassedBefore(w)' \in SUBSET Sent
      /\ \A q \in Request : req[q].stage \in Local /\ req[q].worker = w => req[q].decided <= new.start + Window
  <2>1. /\ PassedIn(w)' \in SUBSET Sent /\ PassedBefore(w)' \in SUBSET Sent
    BY <1>5 DEF PassedIn, PassedBefore, InWindow, Local, At, Sent
  <2>2. CASE now - old.start > Window
    <3>1. new = [count |-> 1, start |-> now]
      BY <2>2 DEF NextWindow
    <3>2. \A q \in Request : req[q].stage \in Local /\ req[q].worker = w => req[q].decided < now
      BY <1>1, <1>2, <1>6, <2>2
    <3>3. InWindow(w)' = {r}
      <4>1. r \in InWindow(w)'
        BY <1>1, <1>3, <1>4, <3>1 DEF InWindow, Local
      <4>2. ASSUME NEW q \in Request \ {r} PROVE q \notin InWindow(w)'
        BY <1>1, <1>3, <1>4, <1>6, <3>1, <3>2 DEF InWindow
      <4>3. QED
        BY <4>1, <4>2 DEF InWindow
    <3>4. PassedIn(w)' \in SUBSET {r}
      BY <3>3 DEF PassedIn
    <3>5. Cardinality(InWindow(w)') = 1 /\ Cardinality(PassedIn(w)') <= 1 /\ Cardinality(PassedIn(w)') \in Nat
      BY <1>5, <2>1, <3>3, <3>4, SentSizes
    <3>6. PassedBefore(w)' \in SUBSET PassedIn(w)
      <4> SUFFICES ASSUME NEW q \in PassedBefore(w)' PROVE q \in PassedIn(w)
        OBVIOUS
      <4>1. /\ q \in Request /\ req'[q].stage = "allowedLocally" /\ req'[q].worker = w
            /\ now - Window <= req'[q].decided /\ req'[q].decided < now
        BY <1>4, <3>1 DEF PassedBefore, At
      <4>2. q # r /\ req'[q] = req[q]
        BY <1>1, <1>3, <4>1
      <4>3. req[q].decided >= old.start
        BY <1>1, <1>2, <1>6, <2>2, <4>1, <4>2 DEF Local
      <4>4. QED
        BY <4>1, <4>2, <4>3 DEF PassedIn, InWindow, Local
    <3>7. Cardinality(PassedBefore(w)') <= Limit
      <4>1. /\ Cardinality(PassedBefore(w)') <= Cardinality(PassedIn(w))
            /\ Cardinality(PassedBefore(w)') \in Nat /\ Cardinality(PassedIn(w)) \in Nat
        BY <1>5, <1>7, <2>1, <3>6, SentSizes
      <4>2. QED
        BY <1>2, <1>7, <4>1
    <3>8. QED
      BY <1>1, <1>2, <1>6, <2>1, <3>1, <3>2, <3>5, <3>7
  <2>3. CASE ~(now - old.start > Window)
    <3>1. new.start = old.start /\ new.count = old.count + 1
      BY <2>3, <1>1 DEF NextWindow, TypeInv, TypeOK
    <3>2. InWindow(w)' = InWindow(w) \cup {r}
      BY <1>1, <1>2, <1>3, <1>4, <3>1 DEF InWindow, Local
    <3>3. /\ new.count > Limit => PassedIn(w)' = PassedIn(w)
          /\ ~(new.count > Limit) => PassedIn(w)' = PassedIn(w) \cup {r}
      <4>1. PassedIn(w)' = {q \in InWindow(w) \cup {r} : req'[q].stage = "allowedLocally"}
        BY <3>2 DEF PassedIn
      <4>2. \A q \in InWindow(w) : req'[q] = req[q]
        BY <1>3, <1>7 DEF InWindow
      <4>3. PassedIn(w)' = {q \in {r} : req'[r].stage = "allowedLocally"} \cup PassedIn(w)
        BY <4>1, <4>2 DEF PassedIn
      <4>4. QED
        BY <1>3, <4>3
    <3>4. PassedBefore(w)' = PassedBefore(w)
      BY <1>1, <1>2, <1>3, <1>4, <3>1 DEF PassedBefore, At
    <3>5. /\ Cardinality(InWindow(w)') = Cardinality(InWindow(w)) + 1
          /\ Cardinality(PassedIn(w)') \in Nat /\ Cardinality(PassedIn(w)') <= Cardinality(InWindow(w)')
          /\ Cardinality(InWindow(w)') \in Nat
      <4>1. InWindow(w)' \in SUBSET Sent /\ PassedIn(w)' \in SUBSET InWindow(w)'
        BY <1>5, <1>7, <3>2 DEF PassedIn
      <4>2. QED
        BY <1>5, <1>7, <3>2, <4>1, SentSizes
    <3>6. Cardinality(PassedIn(w)') <= Limit
      BY <1>2, <1>7, <3>1, <3>3, <3>5
    <3>7. QED
      BY <1>1, <1>2, <1>6, <1>7, <2>1, <2>3, <3>1, <3>4, <3>5, <3>6
  <2>4. QED
    BY <2>2, <2>3
<1>10. WindowsInv'
  <2>1. \A v \in Worker : memory'[v].start <= now'
    BY <1>1, <1>4, <1>9 DEF WindowsInv
  <2>2. \A q \in Request : req'[q].stage \in Local =>
          /\ req'[q].worker \in Worker /\ req'[q].decided \in Time
          /\ req'[q].decided <= now'
          /\ req'[q].worker \notin dead => req'[q].decided <= memory'[req'[q].worker].start + Window
    BY <1>1, <1>3, <1>4, <1>6, <1>9
  <2>3. \A v \in Worker \ dead : /\ memory'[v].count = Cardinality(InWindow(v)')
                                 /\ Cardinality(PassedIn(v)') <= Limit
                                 /\ Cardinality(PassedBefore(v)') <= Limit
    BY <1>4, <1>8, <1>9 DEF WindowsInv
  <2>4. QED
    BY <1>1, <1>5, <2>1, <2>2, <2>3 DEF WindowsInv
<1>11. ASSUME NEW v \in Worker, NEW t \in Time
       PROVE  Cardinality({q \in At("allowedLocally") : req[q].worker = v /\ req[q].decided \in t..t + Window}') <= 2 * Limit
  <2> DEFINE A == {q \in At("allowedLocally") : req[q].worker = v /\ req[q].decided \in t..t + Window}
  <2>1. Cardinality(A) <= 2 * Limit
    BY DEF MemoryKeepsTwiceTheLimit
  <2>2. A' = {q \in Request : /\ req'[q].stage = "allowedLocally" /\ req'[q].worker = v
                              /\ req'[q].decided \in t..t + Window}
    BY DEF At
  <2>3. A \in SUBSET Sent
    BY DEF At, Sent
  <2>4. CASE r \notin A'
    <3>1. A' \in SUBSET A
      BY <1>3, <2>2, <2>4 DEF At
    <3>2. Cardinality(A') <= Cardinality(A) /\ Cardinality(A) \in Nat /\ Cardinality(A') \in Nat
      BY <1>5, <2>3, <3>1, SentSizes
    <3>3. QED
      BY <1>2, <2>1, <3>2
  <2>5. CASE r \in A'
    <3>1. v = w /\ now \in t..t + Window
      BY <1>3, <2>2, <2>5
    <3>2. A' \in SUBSET (PassedIn(w)' \cup PassedBefore(w)')
      <4> SUFFICES ASSUME NEW q \in A' PROVE q \in PassedIn(w)' \cup PassedBefore(w)'
        OBVIOUS
      <4>1. /\ q \in Request /\ req'[q].stage = "allowedLocally" /\ req'[q].worker = w
            /\ req'[q].decided \in Int /\ t \in Int
            /\ t <= req'[q].decided
        BY <2>2, <3>1 DEF Time
      <4>2. req'[q].decided >= new.start - Window
        BY <1>1, <1>2, <1>9, <3>1, <4>1
      <4>3. CASE req'[q].decided >= new.start
        BY <1>4, <4>1, <4>3 DEF PassedIn, InWindow, Local
      <4>4. CASE req'[q].decided < new.start
        BY <1>4, <4>1, <4>2, <4>4 DEF PassedBefore, At
      <4>5. QED
        BY <1>2, <4>1, <4>3, <4>4
    <3> HIDE DEF A
    <3> DEFINE P == PassedIn(w)'
               B == PassedBefore(w)'
    <3>3. P \cup B \in SUBSET Sent /\ P \in SUBSET Sent /\ B \in SUBSET Sent
      BY <1>9
    <3>4. Cardinality(P) <= Limit /\ Cardinality(B) <= Limit
      BY <1>9
    <3>5. A' \in SUBSET (P \cup B)
      BY <3>2
    <3> HIDE DEF P, B
    <3>6. /\ Cardinality(A') <= Cardinality(P \cup B)
          /\ Cardinality(P \cup B) <= Cardinality(P) + Cardinality(B)
      BY <1>5, <3>3, <3>5, SentSizes
    <3>7. /\ Cardinality(P) \in Nat /\ Cardinality(B) \in Nat
          /\ Cardinality(A') \in Nat /\ Cardinality(P \cup B) \in Nat
      BY <1>5, <3>3, <3>5, SentSizes
    <3>8. Cardinality(A') <= 2 * Limit
      BY <1>2, <3>4, <3>6, <3>7
    <3>9. QED
      BY <3>8 DEF A
  <2>6. QED
    BY <2>4, <2>5
<1>12. MemoryKeepsTwiceTheLimit'
  BY <1>11 DEF MemoryKeepsTwiceTheLimit
<1>13. QED
  BY <1>10, <1>12

\* No step lets a worker pass more than two windows' worth.
LEMMA WindowsStep ==
  TypeInv /\ TypeInv' /\ WindowsInv /\ MemoryKeepsTwiceTheLimit /\ [Next]_vars
    => WindowsInv' /\ MemoryKeepsTwiceTheLimit'
<1> SUFFICES ASSUME TypeInv, TypeInv', WindowsInv, MemoryKeepsTwiceTheLimit, [Next]_vars
             PROVE  WindowsInv' /\ MemoryKeepsTwiceTheLimit'
  OBVIOUS
<1>1. now \in Nat /\ now' \in Time /\ IsFiniteSet(Sent) /\ req \in [Request -> RequestRecord]
  BY DEF TypeInv, TypeOK, Time, WindowsInv
<1>0. now <= now' => \A w \in Worker : memory[w].start <= now' /\ NoWindow.start <= now'
  BY <1>1, StartsPast
<1>2. ASSUME NEW r \in Request, NEW w \in Worker, Arrive(r, w) PROVE WindowsInv' /\ MemoryKeepsTwiceTheLimit'
  <2>1. /\ memory' = memory /\ now' = now /\ dead' = dead /\ req[r].stage = "unsent" /\ req'[r].stage = "waiting"
        /\ \A q \in Request \ {r} : req'[q] = req[q]
    BY <1>0, <1>1, <1>2 DEF Arrive
  <2>2. Sent' = Sent \cup {r}
    BY <2>1 DEF Sent
  <2>3. IsFiniteSet(Sent')
    BY <1>0, <1>1, <2>2, FS_AddElement
  <2>4. QED
    BY <1>0, <1>1, <2>1, <2>3, WindowsKept DEF Local
<1>3. ASSUME NEW r \in Request, req' = [req EXCEPT ![r].queued = FALSE], memory' = memory, now' = now, dead' = dead
      PROVE  WindowsInv' /\ MemoryKeepsTwiceTheLimit'
  <2>1. \A q \in Request : /\ req'[q].stage = req[q].stage /\ req'[q].worker = req[q].worker
                           /\ req'[q].decided = req[q].decided
    BY <1>3, Unqueued
  <2>2. Sent' = Sent
    BY <2>1 DEF Sent
  <2>3. QED
    BY <1>0, <1>1, <1>3, <2>1, <2>2, WindowsKept
<1>4. ASSUME NEW r \in Request, Exec(r) PROVE WindowsInv' /\ MemoryKeepsTwiceTheLimit'
  <2>1. memory' = memory /\ now' = now /\ dead' = dead
    BY <1>4 DEF Exec
  <2>2. CASE req[r].stage = "waiting" /\ (Decide(r, "limited", FALSE) \/ Decide(r, "allowed", FALSE))
    <3>1. req'[r].stage \in {"limited", "allowed"} /\ \A q \in Request \ {r} : req'[q] = req[q]
      BY <1>0, <1>1, <2>2 DEF Decide
    <3>2. Sent' = Sent
      BY <2>2, <3>1 DEF Sent
    <3>3. QED
      BY <1>0, <1>1, <2>1, <2>2, <3>1, <3>2, WindowsKept DEF Local
  <2>3. CASE req' = [req EXCEPT ![r].queued = FALSE]
    BY <1>3, <2>1, <2>3
  <2>4. CASE UNCHANGED req
    <3>1. Sent' = Sent
      BY <2>4 DEF Sent
    <3>2. QED
      BY <1>0, <1>1, <2>1, <2>4, <3>1, WindowsKept
  <2>5. QED
    BY <1>4, <2>2, <2>3, <2>4 DEF Exec
<1>5. ASSUME NEW r \in Request, Dropped(r) PROVE WindowsInv' /\ MemoryKeepsTwiceTheLimit'
  BY <1>3, <1>5 DEF Dropped
<1>6. ASSUME NEW r \in Request, FallBack(r) PROVE WindowsInv' /\ MemoryKeepsTwiceTheLimit'
  <2>1. req[r].worker \in Worker
    BY <1>6 DEF FallBack, TypeInv, OnTime
  <2>2. QED
    BY <1>6, <2>1, WindowsFallBack
<1>7. CASE Tick
  <2>1. req' = req /\ memory' = memory /\ dead' = dead /\ now <= now'
    BY <1>0, <1>1, <1>7 DEF Tick
  <2>2. Sent' = Sent
    BY <2>1 DEF Sent
  <2>3. QED
    BY <1>0, <1>1, <2>1, <2>2, WindowsKept
<1>8. CASE UNCHANGED vars
  <2>1. req' = req /\ memory' = memory /\ dead' = dead /\ now' = now
    BY <1>8 DEF vars
  <2>2. Sent' = Sent
    BY <2>1 DEF Sent
  <2>3. QED
    BY <1>0, <1>1, <2>1, <2>2, WindowsKept
<1>9. ASSUME NEW w \in Worker, Crash(w) PROVE WindowsInv' /\ MemoryKeepsTwiceTheLimit'
  <2>1. /\ now' = now /\ dead' = dead \cup {w} /\ memory' = [memory EXCEPT ![w] = NoWindow]
    BY <1>9 DEF Crash
  <2>2. \A v \in Worker : memory'[v] = IF v = w THEN NoWindow ELSE memory[v]
    BY <2>1 DEF TypeInv, TypeOK
  <2>3. \A q \in Request : /\ req'[q].worker = req[q].worker /\ req'[q].decided = req[q].decided
                           /\ \/ req'[q].stage = req[q].stage
                              \/ req[q].stage = "waiting" /\ req'[q].stage = "lost"
    BY <1>9, Lost
  <2>4. Sent' = Sent
    BY <2>3 DEF Sent
  <2>5. QED
    BY <1>0, <1>1, <2>1, <2>2, <2>3, <2>4, WindowsKept DEF Local
<1>10. QED
  BY <1>2, <1>4, <1>5, <1>6, <1>7, <1>8, <1>9 DEF Next, Finished

\* The windows of the workers are an invariant.
LEMMA WindowsInvariant == Spec => [](WindowsInv /\ MemoryKeepsTwiceTheLimit)
BY TypeInvariant, WindowsInit, WindowsStep, PTL DEF Spec

\* Without Redis, one worker process lets through at most twice the limit in any
\* window, whatever its requests and whenever it falls back; a process that is
\* started in the place of another is counted by itself.
THEOREM TwiceTheLimitHolds == Spec => []MemoryKeepsTwiceTheLimit
BY WindowsInvariant, PTL

-----------------------------------------------------------------------------
(* Refusals. *)

\* A request has read no clock before it is made, and what Redis holds are
\* clock readings of requests.
ReadingsInv ==
  /\ \A r \in Request : req[r].stage = "unsent" => req[r].at = NoTime
  /\ \A s \in zset : \E r \in Request : req[r].at = s

Refused == At("limited") \cup At("limitedLocally")

\* What a step never takes back of a request.
Settled ==
  \A q \in Request :
    /\ req[q].at \in Time => req'[q].at = req[q].at
    /\ req[q].stage \in Local \cup {"limited"} =>
         /\ req'[q].stage = req[q].stage /\ req'[q].worker = req[q].worker
         /\ req'[q].at = req[q].at /\ req'[q].decided = req[q].decided

\* What counts against a request was sent.
LEMMA CountedWasSent ==
  ASSUME WindowsInv, ReadingsInv, NEW r \in Refused
  PROVE  CountedWith(r) \ {r} \in SUBSET Sent
BY DEF CountedWith, ReadingsInv, Sent, Local, Refused, At, NoTime, Time

\* A cause once given remains.
LEMMA CauseKept ==
  ASSUME TypeInv, TypeInv', WindowsInv, WindowsInv', ReadingsInv, ReadingsInv', Settled,
         NEW r \in Refused, Cardinality(CountedWith(r) \ {r}) >= Limit
  PROVE  r \in Refused' /\ Cardinality(CountedWith(r)' \ {r}) >= Limit
<1>1. /\ r \in Request /\ req[r].stage \in {"limited", "limitedLocally"}
      /\ req'[r].stage = req[r].stage /\ req'[r].worker = req[r].worker
      /\ req'[r].at = req[r].at /\ req'[r].decided = req[r].decided
  BY DEF Refused, At, Settled, Local
<1>2. r \in Refused'
  BY <1>1 DEF Refused, At
<1>3. CountedWith(r) \subseteq CountedWith(r)'
  BY <1>1 DEF CountedWith, Settled, Local
<1>4. CountedWith(r)' \ {r} \in SUBSET Sent'
  <2>1. (r \in Refused)' => (CountedWith(r) \ {r} \in SUBSET Sent)'
    BY CountedWasSent, PTL
  <2>2. QED
    BY <1>2, <2>1
<1>5. IsFiniteSet(Sent')
  BY DEF WindowsInv
<1>6. CountedWith(r)' \ {r} \in SUBSET Sent' /\ CountedWith(r) \ {r} \in SUBSET (CountedWith(r)' \ {r})
  BY <1>3, <1>4
<1>7. IsFiniteSet(CountedWith(r)' \ {r})
  BY <1>4, <1>5, FS_Subset
<1>8. /\ Cardinality(CountedWith(r) \ {r}) <= Cardinality(CountedWith(r)' \ {r})
      /\ Cardinality(CountedWith(r) \ {r}) \in Nat /\ Cardinality(CountedWith(r)' \ {r}) \in Nat
  BY <1>6, <1>7, FS_Subset, FS_CardinalityType
<1>9. QED
  BY <1>2, <1>8, ConstantsOK

\* A set with more instants than the limit names as many other requests.
LEMMA RefusedByRedis ==
  ASSUME TypeInv, WindowsInv', ReadingsInv, ReadingsInv', NEW r \in Request, Exec(r),
         Decide(r, "limited", FALSE), TooMany(zset')
  PROVE  Cardinality(CountedWith(r)' \ {r}) >= Limit
<1> DEFINE t == req[r].at
           T == zset' \ {t}
           D == CountedWith(r)' \ {r}
           S == {q \in D : req[q].at \in T}
           f == [q \in S |-> req[q].at]
<1>1. /\ zset' = Counted(t) /\ t \in Time /\ now \in Time /\ now' = now /\ t <= now
      /\ zset \subseteq Time /\ Window \in Nat /\ Limit \in Nat
  BY ConstantsOK DEF Exec, TypeInv, TypeOK, OnTime
<1>2. /\ req'[r].stage = "limited" /\ req'[r].at = t /\ req'[r].decided = now
      /\ \A q \in Request \ {r} : req'[q] = req[q]
  BY DEF Decide, TypeInv, TypeOK
<1>3. \A s \in T : s \in zset /\ s \in Time /\ t - Window < s /\ s <= now
  BY <1>1 DEF Counted, Kept, TypeInv, TypeOK
<1>4. D = {q \in Request \ {r} : req[q].at \in Time \cap t - Window + 1..now}
  BY <1>2 DEF CountedWith
<1>5. \A s \in T : \E q \in S : req[q].at = s
  <2> SUFFICES ASSUME NEW s \in T PROVE \E q \in S : req[q].at = s
    OBVIOUS
  <2>1. PICK q \in Request : req[q].at = s
    BY <1>3 DEF ReadingsInv
  <2>2. q # r
    BY <2>1
  <2>3. s \in Time \cap t - Window + 1..now
    BY <1>1, <1>3 DEF Time
  <2>4. QED
    BY <1>4, <2>1, <2>2, <2>3
<1>6. S \in SUBSET D /\ IsFiniteSet(D)
  <2>1. D \in SUBSET Sent'
    BY <1>2, <1>4 DEF ReadingsInv, Sent, NoTime, Time
  <2>2. IsFiniteSet(Sent')
    BY DEF WindowsInv
  <2>3. QED
    BY <2>1, <2>2, FS_Subset
<1>7. Cardinality(T) >= Limit
  <2>1. IsFiniteSet(zset') /\ Cardinality(zset') \in Nat
    <3>1. zset' \in SUBSET Time
      BY <1>1 DEF Counted, Kept
    <3>2. QED
      BY <3>1, Instants
  <2>2. t \in zset'
    BY <1>1 DEF Counted
  <2>3. Cardinality(T) = Cardinality(zset') - 1
    BY <2>1, <2>2, FS_RemoveElement
  <2>4. QED
    BY <1>1, <2>1, <2>3 DEF TooMany
<1>8. f \in Surjection(S, T)
  BY <1>5 DEF Surjection
<1> HIDE DEF t, T, D, S, f
<1>9. IsFiniteSet(S) /\ Cardinality(S) <= Cardinality(D)
  BY <1>6, FS_Subset
<1>10. IsFiniteSet(T) /\ Cardinality(T) <= Cardinality(S)
  BY <1>8, <1>9, FS_Surjection
<1>11. Cardinality(T) \in Nat /\ Cardinality(S) \in Nat /\ Cardinality(D) \in Nat
  BY <1>6, <1>9, <1>10, FS_CardinalityType
<1>12. Cardinality(D) >= Limit
  BY <1>1, <1>7, <1>9, <1>10, <1>11
<1>13. QED
  BY <1>12 DEF D

\* A window with more requests than the limit has as many others in it.
LEMMA RefusedInMemory ==
  ASSUME TypeInv, WindowsInv', NEW r \in Request, FallBack(r), Decide(r, "limitedLocally", req[r].queued),
         NextWindow(memory[req[r].worker]).count > Limit, NEW w \in Worker, w = req[r].worker
  PROVE  Cardinality(CountedWith(r)' \ {r}) >= Limit
<1> DEFINE I == InWindow(w)'
           D == CountedWith(r)' \ {r}
<1>1. /\ req'[r].stage = "limitedLocally" /\ req'[r].worker = w /\ req'[r].decided = now
      /\ \A q \in Request \ {r} : req'[q] = req[q]
  BY DEF Decide, TypeInv, TypeOK
<1>2. /\ memory'[w].count > Limit /\ Limit \in Nat /\ Window \in Nat /\ now \in Nat /\ now' = now
  BY ConstantsOK DEF FallBack, TypeInv, TypeOK, Time
<1>3. /\ IsFiniteSet(Sent') /\ memory'[w].count = Cardinality(I)
      /\ memory'[w].start <= now /\ now <= memory'[w].start + Window
      /\ \A q \in Request : req'[q].stage \in Local => req'[q].decided \in Nat /\ req'[q].decided <= now
  <2>1. w \notin dead' /\ w \in Worker
    BY DEF FallBack, TypeInv, OnTime
  <2>2. QED
    BY <1>1, <1>2, <2>1 DEF WindowsInv, Local, Time
<1>4. memory'[w].start \in Int
  BY ConstantsOK DEF FallBack, TypeInv, TypeOK, NextWindow, Time, NoWindow
<1>5. r \in I
  BY <1>1, <1>2, <1>3, <1>4 DEF InWindow, Local
<1>6. D = {q \in Request \ {r} : /\ req'[q].worker = w /\ req'[q].stage \in Local
                                 /\ req'[q].decided \in now - Window..now}
  BY <1>1 DEF CountedWith, Local
<1>7. I \ {r} \in SUBSET D /\ I \in SUBSET Sent' /\ D \in SUBSET Sent'
  <2>1. ASSUME NEW q \in I \ {r} PROVE q \in D
    <3>1. /\ q \in Request \ {r} /\ req'[q].worker = w /\ req'[q].stage \in Local
          /\ req'[q].decided >= memory'[w].start
      BY <2>1 DEF InWindow
    <3>2. req'[q].decided \in now - Window..now
      BY <1>2, <1>3, <1>4, <3>1
    <3>3. QED
      BY <1>6, <3>1, <3>2
  <2>2. I \in SUBSET Sent' /\ D \in SUBSET Sent'
    BY <1>6 DEF InWindow, Sent, Local
  <2>3. QED
    BY <2>1, <2>2
<1> HIDE DEF I, D
<1>8. IsFiniteSet(I) /\ IsFiniteSet(D)
  BY <1>3, <1>7, FS_Subset
<1>9. Cardinality(I \ {r}) = Cardinality(I) - 1 /\ Cardinality(I) \in Nat
  BY <1>5, <1>8, FS_RemoveElement, FS_CardinalityType
<1>10. Cardinality(I \ {r}) <= Cardinality(D) /\ Cardinality(D) \in Nat
  BY <1>7, <1>8, FS_Subset, FS_CardinalityType
<1>11. Cardinality(D) >= Limit
  BY <1>2, <1>3, <1>9, <1>10
<1>12. QED
  BY <1>11 DEF D

\* Initially nobody was refused.
LEMMA RefusedInit == Init => ReadingsInv /\ RefusedForCause
BY DEF Init, ReadingsInv, RefusedForCause, At, Unsent

\* Readings are neither forgotten nor made up.
LEMMA ReadingsStep == TypeInv /\ ReadingsInv /\ [Next]_vars => ReadingsInv' /\ Settled
<1> SUFFICES ASSUME TypeInv, ReadingsInv, [Next]_vars PROVE ReadingsInv' /\ Settled
  OBVIOUS
<1>1. req \in [Request -> RequestRecord]
  BY DEF TypeInv, TypeOK
<1>2. ASSUME \A q \in Request : /\ req'[q].at = req[q].at
                                /\ req'[q].stage = "unsent" => req[q].stage = "unsent"
                                /\ req[q].stage \in Local \cup {"limited"} =>
                                     /\ req'[q].stage = req[q].stage /\ req'[q].worker = req[q].worker
                                     /\ req'[q].decided = req[q].decided,
             \A s \in zset' : s \in zset \/ \E q \in Request : s = req[q].at
      PROVE  ReadingsInv' /\ Settled
  BY <1>2 DEF ReadingsInv, Settled
<1>3. ASSUME NEW r \in Request, NEW w \in Worker, Arrive(r, w) PROVE ReadingsInv' /\ Settled
  <2>1. /\ zset' = zset /\ req[r].stage = "unsent" /\ req[r].at = NoTime
        /\ req'[r].stage = "waiting" /\ \A q \in Request \ {r} : req'[q] = req[q]
    BY <1>1, <1>3 DEF Arrive, ReadingsInv
  <2>2. NoTime \notin Time /\ \A s \in zset : s \in Time
    BY DEF NoTime, Time, TypeInv, TypeOK
  <2>3. QED
    BY <2>1, <2>2 DEF ReadingsInv, Settled, Local
<1>4. ASSUME NEW r \in Request, NEW s, NEW b, req[r].stage = "waiting", Decide(r, s, b), s # "unsent",
             \A u \in zset' : u \in zset \/ \E q \in Request : u = req[q].at
      PROVE  ReadingsInv' /\ Settled
  <2>1. /\ req'[r].stage = s /\ req'[r].at = req[r].at
        /\ \A q \in Request \ {r} : req'[q] = req[q]
    BY <1>1, <1>4 DEF Decide
  <2>2. QED
    BY <1>2, <1>4, <2>1 DEF Local
<1>5. ASSUME NEW r \in Request, req' = [req EXCEPT ![r].queued = FALSE],
             \A u \in zset' : u \in zset \/ \E q \in Request : u = req[q].at
      PROVE  ReadingsInv' /\ Settled
  BY <1>2, <1>5, Unqueued
<1>6. ASSUME NEW r \in Request, Exec(r) PROVE ReadingsInv' /\ Settled
  <2>1. \A u \in zset' : u \in zset \/ \E q \in Request : u = req[q].at
    BY <1>6 DEF Exec, Counted, Kept
  <2>2. CASE req[r].stage = "waiting" /\ (Decide(r, "limited", FALSE) \/ Decide(r, "allowed", FALSE))
    BY <1>4, <2>1, <2>2
  <2>3. CASE req' = [req EXCEPT ![r].queued = FALSE]
    BY <1>5, <2>1, <2>3
  <2>4. CASE UNCHANGED req
    BY <1>2, <2>1, <2>4
  <2>5. QED
    BY <1>6, <2>2, <2>3, <2>4 DEF Exec
<1>7. ASSUME NEW r \in Request, Dropped(r) PROVE ReadingsInv' /\ Settled
  BY <1>5, <1>7 DEF Dropped
<1>8. ASSUME NEW r \in Request, FallBack(r) PROVE ReadingsInv' /\ Settled
  <2>1. zset' = zset /\ req[r].stage = "waiting"
        /\ (Decide(r, "limitedLocally", req[r].queued) \/ Decide(r, "allowedLocally", req[r].queued))
    BY <1>8 DEF FallBack
  <2>2. QED
    BY <1>4, <2>1
<1>9. CASE Tick \/ UNCHANGED vars
  BY <1>2, <1>9 DEF Tick, vars
<1>10. ASSUME NEW w \in Worker, Crash(w) PROVE ReadingsInv' /\ Settled
  <2>1. zset' = zset /\ \A q \in Request :
          /\ req'[q].at = req[q].at /\ req'[q].worker = req[q].worker /\ req'[q].decided = req[q].decided
          /\ \/ req'[q].stage = req[q].stage
             \/ req[q].stage = "waiting" /\ req'[q].stage = "lost"
    BY <1>10, Lost DEF Crash
  <2>2. QED
    BY <1>2, <2>1 DEF Local
<1>11. QED
  BY <1>3, <1>6, <1>7, <1>8, <1>9, <1>10 DEF Next, Finished

\* No step refuses a request without cause.
LEMMA RefusedStep ==
  TypeInv /\ TypeInv' /\ WindowsInv /\ WindowsInv' /\ ReadingsInv /\ RefusedForCause /\ [Next]_vars
    => ReadingsInv' /\ RefusedForCause'
<1> SUFFICES ASSUME TypeInv, TypeInv', WindowsInv, WindowsInv', ReadingsInv, RefusedForCause, [Next]_vars
             PROVE  ReadingsInv' /\ RefusedForCause'
  OBVIOUS
<1>1. ReadingsInv' /\ Settled
  BY ReadingsStep
<1>2. ASSUME NEW r \in Refused PROVE Cardinality(CountedWith(r)' \ {r}) >= Limit
  <2>1. Cardinality(CountedWith(r) \ {r}) >= Limit
    BY DEF RefusedForCause, Refused
  <2>2. QED
    BY <1>1, <2>1, CauseKept
<1>3. ASSUME NEW r \in Refused', r \notin Refused PROVE Cardinality(CountedWith(r)' \ {r}) >= Limit
  <2>1. /\ r \in Request /\ req'[r].stage \in {"limited", "limitedLocally"}
        /\ req[r].stage \notin {"limited", "limitedLocally"} /\ req \in [Request -> RequestRecord]
    BY <1>3 DEF Refused, At, TypeInv, TypeOK
  <2>2. ASSUME NEW q \in Request, Exec(q) PROVE Cardinality(CountedWith(r)' \ {r}) >= Limit
    <3>1. req' # [req EXCEPT ![q].queued = FALSE]
      BY <2>1, Unqueued
    <3>2. Decide(q, IF TooMany(zset') THEN "limited" ELSE "allowed", FALSE)
      BY <2>1, <2>2, <3>1 DEF Exec
    <3>3. q = r /\ TooMany(zset')
      BY <2>1, <3>2 DEF Decide
    <3>4. Decide(r, "limited", FALSE) /\ Exec(r)
      BY <2>2, <3>2, <3>3
    <3>5. QED
      BY <1>1, <2>1, <3>3, <3>4, RefusedByRedis
  <2>3. ASSUME NEW q \in Request, FallBack(q) PROVE Cardinality(CountedWith(r)' \ {r}) >= Limit
    <3>1. Decide(q, IF NextWindow(memory[req[q].worker]).count > Limit THEN "limitedLocally" ELSE "allowedLocally",
                 req[q].queued)
      BY <2>3 DEF FallBack
    <3>2. q = r /\ NextWindow(memory[req[q].worker]).count > Limit
      BY <2>1, <3>1 DEF Decide
    <3>3. Decide(r, "limitedLocally", req[r].queued) /\ FallBack(r) /\ NextWindow(memory[req[r].worker]).count > Limit
      BY <2>3, <3>1, <3>2
    <3>4. req[r].worker \in Worker
      BY <2>1, <3>3 DEF FallBack, TypeInv, OnTime
    <3>5. QED
      BY <2>1, <3>3, <3>4, RefusedInMemory
  <2>4. ASSUME NEW q \in Request, NEW w \in Worker, Arrive(q, w) PROVE FALSE
    BY <2>1, <2>4 DEF Arrive
  <2>5. ASSUME NEW q \in Request, Dropped(q) PROVE FALSE
    BY <2>1, <2>5, Unqueued DEF Dropped
  <2>6. CASE Tick \/ UNCHANGED vars
    BY <2>1, <2>6 DEF Tick, vars
  <2>7. ASSUME NEW w \in Worker, Crash(w) PROVE FALSE
    BY <2>1, <2>7, Lost
  <2>8. QED
    BY <2>2, <2>3, <2>4, <2>5, <2>6, <2>7 DEF Next, Finished
<1>4. RefusedForCause'
  BY <1>2, <1>3 DEF RefusedForCause, Refused
<1>5. QED
  BY <1>1, <1>4

\* Whoever is refused made Limit other requests, whatever runs late, twice or not at all.
THEOREM RefusedHaveCause == Spec => []RefusedForCause
BY TypeInvariant, WindowsInvariant, RefusedInit, RefusedStep, PTL DEF Spec

-----------------------------------------------------------------------------
(* What the pipe's functions of a text compute (Sanitization).  Induction is *)
(* stated about sets of numbers, and functions are given by their values at *)
(* one position from those at the position before.                          *)

\* A set of numbers with 0 and the successor of each of its members has them all.
LEMMA Induction ==
  ASSUME NEW T \in SUBSET Nat, 0 \in T, \A k \in T : k + 1 \in T
  PROVE  T = Nat
<1> SUFFICES ASSUME Nat \ T # {} PROVE FALSE
  OBVIOUS
<1>1. PICK x \in Nat \ T : \A y \in Nat \ T : <<y, x>> \notin OpToRel(<, Nat)
  BY NatLessThanWellFounded, WFMin
<1>2. \A y \in Nat \ T : ~(y < x)
  BY <1>1 DEF OpToRel
<1>3. x # 0
  OBVIOUS
<1>4. x - 1 \in Nat /\ x - 1 < x /\ (x - 1) + 1 = x
  BY <1>3
<1>5. QED
  BY <1>2, <1>4

\* What holds at 0 and is kept by a step holds up to n.
LEMMA InductionUpTo ==
  ASSUME NEW n \in Nat, NEW T, 0 \in T, \A k \in 0..n - 1 : k \in T => k + 1 \in T
  PROVE  \A k \in 0..n : k \in T
<1> DEFINE U == {k \in Nat : k <= n => k \in T}
<1>1. 0 \in U /\ \A k \in U : k + 1 \in U
  <2>1. ASSUME NEW k \in U PROVE k + 1 \in U
    <3> SUFFICES ASSUME k + 1 <= n PROVE k + 1 \in T
      OBVIOUS
    <3>1. k \in 0..n - 1 /\ k \in T
      OBVIOUS
    <3>2. QED
      BY <3>1
  <2>2. 0 \in U
    OBVIOUS
  <2>3. QED
    BY <2>1, <2>2
<1>2. U = Nat
  <2>1. U \in SUBSET Nat
    OBVIOUS
  <2> HIDE DEF U
  <2>2. QED
    BY <1>1, <2>1, Induction
<1>3. QED
  BY <1>2

\* A function that is defined from its value at the number before exists.
Iterates(f, n, S, zero, step) ==
  f \in [0..n -> S] /\ f[0] = zero /\ \A i \in 1..n : f[i] = step[i][f[i - 1]]

\* There is a function that has a first value, and makes each further one of the one before.
LEMMA Recursion ==
  ASSUME NEW n \in Nat, NEW S, NEW zero \in S, NEW step \in [1..n -> [S -> S]]
  PROVE  \E f : Iterates(f, n, S, zero, step)
<1> DEFINE Def(f, k) == f[0] = zero /\ \A i \in 1..k : f[i] = step[i][f[i - 1]]
           T == {k \in 0..n : \E f \in [0..k -> S] : Def(f, k)}
<1>1. 0 \in T
  <2> DEFINE f == [i \in 0..0 |-> zero]
  <2>1. f \in [0..0 -> S] /\ Def(f, 0)
    OBVIOUS
  <2> HIDE DEF f
  <2>2. \E h \in [0..0 -> S] : Def(h, 0)
    BY <2>1
  <2>3. QED
    BY <2>2
<1>2. ASSUME NEW k \in 0..n - 1, k \in T PROVE k + 1 \in T
  <2>1. PICK g \in [0..k -> S] : Def(g, k)
    BY <1>2
  <2> DEFINE f == [i \in 0..k + 1 |-> IF i = k + 1 THEN step[k + 1][g[k]] ELSE g[i]]
  <2>2. step[k + 1][g[k]] \in S /\ k \in Nat /\ k + 1 \in 0..n
    <3>1. k + 1 \in 1..n /\ k \in 0..k
      OBVIOUS
    <3>2. step[k + 1] \in [S -> S] /\ g[k] \in S
      BY <3>1
    <3>3. QED
      BY <3>1, <3>2
  <2>3. f \in [0..k + 1 -> S]
    BY <2>2
  <2>4. \A i \in 0..k : f[i] = g[i]
    BY <2>2
  <2>5. f[k + 1] = step[k + 1][g[k]]
    BY <2>2
  <2> HIDE DEF f
  <2>6. ASSUME NEW i \in 1..k + 1 PROVE f[i] = step[i][f[i - 1]]
    <3>1. CASE i = k + 1
      <4>1. k \in 0..k /\ i - 1 = k
        BY <2>2, <3>1
      <4>2. QED
        BY <2>4, <2>5, <3>1, <4>1
    <3>2. CASE i # k + 1
      <4>1. i \in 0..k /\ i - 1 \in 0..k /\ i \in 1..k
        BY <2>2, <3>2
      <4>2. QED
        BY <2>1, <2>4, <4>1
    <3>3. QED
      BY <3>1, <3>2
  <2>7. f[0] = zero
    BY <2>1, <2>2, <2>4
  <2>8. QED
    BY <2>2, <2>3, <2>6, <2>7
<1>3. n \in T
  <2> HIDE DEF T
  <2>1. \A k \in 0..n : k \in T
    BY <1>1, <1>2, InductionUpTo
  <2>2. QED
    BY <2>1
<1>4. PICK f \in [0..n -> S] : Def(f, n)
  BY <1>3
<1>5. QED
  BY <1>4 DEF Iterates

\* What is built token by token is a text.
LEMMA ScanType ==
  ASSUME NEW n \in Nat, NEW g, g[0] = <<>>,
         \A i \in 1..n : g[i - 1] \in Seq(Token) => g[i] \in Seq(Token)
  PROVE  \A i \in 0..n : g[i] \in Seq(Token)
<1> DEFINE T == {i \in 0..n : g[i] \in Seq(Token)}
<1>1. 0 \in 0..n /\ g[0] \in Seq(Token)
  OBVIOUS
<1>2. ASSUME NEW k \in 0..n - 1, k \in T PROVE k + 1 \in T
  <2>1. k + 1 \in 1..n /\ (k + 1) - 1 = k
    OBVIOUS
  <2>2. QED
    BY <1>2, <2>1
<1> HIDE DEF T
<1>3. \A i \in 0..n : i \in T
  BY <1>1, <1>2, InductionUpTo DEF T
<1>4. QED
  BY <1>3 DEF T

\* Replace, at one position: what it makes of what it has done so far.
Begins(text, entity, i) == i \in 1..Len(text) - 1 /\ text[i] = "&" /\ text[i + 1] = entity
ReplaceStep(text, entity, char, i, done) ==
  IF Begins(text, entity, i) THEN Append(done, char)
  ELSE IF Begins(text, entity, i - 1) THEN done
  ELSE Append(done, text[i])

Replaces(f, text, entity, char) ==
  /\ f \in [0..Len(text) -> Seq(Token)] /\ f[0] = <<>>
  /\ \A i \in 1..Len(text) : f[i] = ReplaceStep(text, entity, char, i, f[i - 1])
  /\ Replace(text, entity, char) = f[Len(text)]

\* Replace reads a text from its first token to its last.
LEMMA ReplaceIs ==
  ASSUME NEW text \in Seq(Token), NEW entity, NEW char \in Token
  PROVE  \E f : Replaces(f, text, entity, char)
<1> DEFINE n == Len(text)
           Body(f) == [i \in 0..n |-> IF i = 0 THEN <<>> ELSE ReplaceStep(text, entity, char, i, f[i - 1])]
           step == [i \in 1..n |-> [s \in Seq(Token) |-> ReplaceStep(text, entity, char, i, s)]]
           g == CHOOSE g : g = Body(g)
<1>1. n \in Nat /\ <<>> \in Seq(Token)
  OBVIOUS
<1>2. \A i \in 1..n, s \in Seq(Token) : ReplaceStep(text, entity, char, i, s) \in Seq(Token)
  <2>1. \A i \in 1..n : text[i] \in Token
    OBVIOUS
  <2>2. \A s \in Seq(Token), c \in Token : Append(s, c) \in Seq(Token)
    OBVIOUS
  <2>3. QED
    BY <2>1, <2>2 DEF ReplaceStep
<1>3. step \in [1..n -> [Seq(Token) -> Seq(Token)]]
  BY <1>2
<1>4. PICK f \in [0..n -> Seq(Token)] : f[0] = <<>> /\ \A i \in 1..n : f[i] = step[i][f[i - 1]]
  <2> DEFINE S == Seq(Token)
             zero == <<>>
  <2>1. zero \in S /\ step \in [1..n -> [S -> S]]
    BY <1>1, <1>3
  <2> HIDE DEF step, n, S, zero
  <2>2. \E f : Iterates(f, n, S, zero, step)
    BY <1>1, <2>1, Recursion
  <2>3. QED
    BY <2>2 DEF S, zero, Iterates
<1>5. f = Body(f)
  <2>1. ASSUME NEW i \in 1..n PROVE step[i][f[i - 1]] = ReplaceStep(text, entity, char, i, f[i - 1])
    <3>1. i - 1 \in 0..n
      BY <1>1
    <3> HIDE DEF n
    <3>2. f[i - 1] \in Seq(Token)
      BY <1>4, <3>1
    <3>3. QED
      BY <3>2 DEF n
  <2> HIDE DEF step
  <2>2. QED
    BY <1>1, <1>4, <2>1
<1>6. g = Body(g)
  <2> HIDE DEF Body
  <2>1. QED
    BY <1>5
<1>7. Replace(text, entity, char) = g[n]
  BY DEF Replace, ReplaceStep, Begins
<1> HIDE DEF g
<1>8. g[0] = <<>> /\ \A i \in 1..n : g[i] = ReplaceStep(text, entity, char, i, g[i - 1])
  <2>1. \A i \in 0..n : g[i] = IF i = 0 THEN <<>> ELSE ReplaceStep(text, entity, char, i, g[i - 1])
    BY <1>6, Zenon
  <2>2. QED
    BY <1>1, <2>1
<1>9. \A i \in 0..n : g[i] \in Seq(Token)
  <2>1. \A i \in 1..n : g[i - 1] \in Seq(Token) => g[i] \in Seq(Token)
    BY <1>2, <1>8
  <2>2. QED
    BY <1>1, <1>8, <2>1, ScanType
<1>10. g \in [0..n -> Seq(Token)]
  BY <1>6, <1>9
<1>11. QED
  BY <1>7, <1>8, <1>10 DEF Replaces

\* What lies in a tag, up to a position.
InTag(text, i) ==
  \E a \in 1..i, b \in i..Len(text) :
     a < b /\ text[a] = "<" /\ text[b] = ">" /\ \A k \in a..i - 1 : text[k] # ">"
StripStep(text, i, done) == IF InTag(text, i) THEN done ELSE Append(done, text[i])

Strips(f, text) ==
  /\ f \in [0..Len(text) -> Seq(Token)] /\ f[0] = <<>>
  /\ \A i \in 1..Len(text) : f[i] = StripStep(text, i, f[i - 1])
  /\ StripHtmlTags(text) = f[Len(text)]

\* So does StripHtmlTags,
LEMMA StripIs ==
  ASSUME NEW text \in Seq(Token)
  PROVE  \E f : Strips(f, text)
<1> DEFINE n == Len(text)
           Body(f) == [i \in 0..n |-> IF i = 0 THEN <<>> ELSE StripStep(text, i, f[i - 1])]
           step == [i \in 1..n |-> [s \in Seq(Token) |-> StripStep(text, i, s)]]
           g == CHOOSE g : g = Body(g)
<1>1. n \in Nat /\ <<>> \in Seq(Token)
  OBVIOUS
<1>2. \A i \in 1..n, s \in Seq(Token) : StripStep(text, i, s) \in Seq(Token)
  <2>1. \A i \in 1..n : text[i] \in Token
    OBVIOUS
  <2>2. \A s \in Seq(Token), c \in Token : Append(s, c) \in Seq(Token)
    OBVIOUS
  <2>3. QED
    BY <2>1, <2>2 DEF StripStep
<1>3. step \in [1..n -> [Seq(Token) -> Seq(Token)]]
  BY <1>2
<1>4. PICK f \in [0..n -> Seq(Token)] : f[0] = <<>> /\ \A i \in 1..n : f[i] = step[i][f[i - 1]]
  <2> DEFINE S == Seq(Token)
             zero == <<>>
  <2>1. zero \in S /\ step \in [1..n -> [S -> S]]
    BY <1>1, <1>3
  <2> HIDE DEF step, n, S, zero
  <2>2. \E f : Iterates(f, n, S, zero, step)
    BY <1>1, <2>1, Recursion
  <2>3. QED
    BY <2>2 DEF S, zero, Iterates
<1>5. f = Body(f)
  <2>1. ASSUME NEW i \in 1..n PROVE step[i][f[i - 1]] = StripStep(text, i, f[i - 1])
    <3>1. i - 1 \in 0..n
      BY <1>1
    <3> HIDE DEF n
    <3>2. f[i - 1] \in Seq(Token)
      BY <1>4, <3>1
    <3>3. QED
      BY <3>2 DEF n
  <2> HIDE DEF step
  <2>2. QED
    BY <1>1, <1>4, <2>1
<1>6. g = Body(g)
  <2> HIDE DEF Body
  <2>1. QED
    BY <1>5
<1>7. StripHtmlTags(text) = g[n]
  BY DEF StripHtmlTags, StripStep, InTag
<1> HIDE DEF g
<1>8. g[0] = <<>> /\ \A i \in 1..n : g[i] = StripStep(text, i, g[i - 1])
  <2>1. \A i \in 0..n : g[i] = IF i = 0 THEN <<>> ELSE StripStep(text, i, g[i - 1])
    BY <1>6, Zenon
  <2>2. QED
    BY <1>1, <2>1
<1>9. \A i \in 0..n : g[i] \in Seq(Token)
  <2>1. \A i \in 1..n : g[i - 1] \in Seq(Token) => g[i] \in Seq(Token)
    BY <1>2, <1>8
  <2>2. QED
    BY <1>1, <1>8, <2>1, ScanType
<1>10. g \in [0..n -> Seq(Token)]
  BY <1>6, <1>9
<1>11. QED
  BY <1>7, <1>8, <1>10 DEF Strips

EscapeStep(text, i, done) == done \o Escaped(text[i])

\* A token is escaped to a text.
LEMMA EscapedType ==
  ASSUME NEW c \in Token
  PROVE  Escaped(c) \in Seq(Token)
<1>1. \A x, y \in Token : <<x, y>> \in Seq(Token) /\ <<x>> \in Seq(Token)
  OBVIOUS
<1>2. \/ Escaped(c) = <<c>>
      \/ \E e \in Mark : Escaped(c) = <<"&", e>>
  BY DEF Escaped, Mark
<1>3. QED
  BY <1>1, <1>2, TokensOK DEF Mark

Escapes(f, text) ==
  /\ f \in [0..Len(text) -> Seq(Token)] /\ f[0] = <<>>
  /\ \A i \in 1..Len(text) : f[i] = EscapeStep(text, i, f[i - 1])
  /\ EscapeSpecialChars(text) = f[Len(text)]

\* and so does EscapeSpecialChars.
LEMMA EscapeIs ==
  ASSUME NEW text \in Seq(Token)
  PROVE  \E f : Escapes(f, text)
<1> DEFINE n == Len(text)
           Body(f) == [i \in 0..n |-> IF i = 0 THEN <<>> ELSE EscapeStep(text, i, f[i - 1])]
           step == [i \in 1..n |-> [s \in Seq(Token) |-> EscapeStep(text, i, s)]]
           g == CHOOSE g : g = Body(g)
<1>1. n \in Nat /\ <<>> \in Seq(Token)
  OBVIOUS
<1>2. \A i \in 1..n, s \in Seq(Token) : EscapeStep(text, i, s) \in Seq(Token)
  <2>1. \A i \in 1..n : text[i] \in Token
    OBVIOUS
  <2>2. \A c \in Token : Escaped(c) \in Seq(Token)
    BY EscapedType
  <2>3. \A s, t \in Seq(Token) : s \o t \in Seq(Token)
    OBVIOUS
  <2>4. QED
    BY <2>1, <2>2, <2>3 DEF EscapeStep
<1>3. step \in [1..n -> [Seq(Token) -> Seq(Token)]]
  BY <1>2
<1>4. PICK f \in [0..n -> Seq(Token)] : f[0] = <<>> /\ \A i \in 1..n : f[i] = step[i][f[i - 1]]
  <2> DEFINE S == Seq(Token)
             zero == <<>>
  <2>1. zero \in S /\ step \in [1..n -> [S -> S]]
    BY <1>1, <1>3
  <2> HIDE DEF step, n, S, zero
  <2>2. \E f : Iterates(f, n, S, zero, step)
    BY <1>1, <2>1, Recursion
  <2>3. QED
    BY <2>2 DEF S, zero, Iterates
<1>5. f = Body(f)
  <2>1. ASSUME NEW i \in 1..n PROVE step[i][f[i - 1]] = EscapeStep(text, i, f[i - 1])
    <3>1. i - 1 \in 0..n
      BY <1>1
    <3> HIDE DEF n
    <3>2. f[i - 1] \in Seq(Token)
      BY <1>4, <3>1
    <3>3. QED
      BY <3>2 DEF n
  <2> HIDE DEF step
  <2>2. QED
    BY <1>1, <1>4, <2>1
<1>6. g = Body(g)
  <2> HIDE DEF Body
  <2>1. QED
    BY <1>5
<1>7. EscapeSpecialChars(text) = g[n]
  BY DEF EscapeSpecialChars, EscapeStep
<1> HIDE DEF g
<1>8. g[0] = <<>> /\ \A i \in 1..n : g[i] = EscapeStep(text, i, g[i - 1])
  <2>1. \A i \in 0..n : g[i] = IF i = 0 THEN <<>> ELSE EscapeStep(text, i, g[i - 1])
    BY <1>6, Zenon
  <2>2. QED
    BY <1>1, <2>1
<1>9. \A i \in 0..n : g[i] \in Seq(Token)
  <2>1. \A i \in 1..n : g[i - 1] \in Seq(Token) => g[i] \in Seq(Token)
    BY <1>2, <1>8
  <2>2. QED
    BY <1>1, <1>8, <2>1, ScanType
<1>10. g \in [0..n -> Seq(Token)]
  BY <1>6, <1>9
<1>11. QED
  BY <1>7, <1>8, <1>10 DEF Escapes

\* A set of numbers up to n has a least and a greatest.
LEMMA Least ==
  ASSUME NEW S \in SUBSET Nat, S # {}
  PROVE  \E x \in S : \A y \in S : x <= y
<1>1. PICK x \in S : \A y \in S : <<y, x>> \notin OpToRel(<, Nat)
  BY NatLessThanWellFounded, WFMin
<1>2. \A y \in S : ~(y < x)
  BY <1>1 DEF OpToRel
<1>3. QED
  BY <1>2

\* Min and Max of a set of positions are in it and bound it.
LEMMA MinMax ==
  ASSUME NEW n \in Nat, NEW S \in SUBSET (1..n), S # {}
  PROVE  /\ Min(S) \in S /\ \A y \in S : Min(S) <= y
         /\ Max(S) \in S /\ \A y \in S : y <= Max(S)
<1>1. S \in SUBSET Nat
  OBVIOUS
<1>2. PICK x \in S : \A y \in S : x =< y
  BY <1>1, Least
<1>3. Min(S) \in S /\ \A y \in S : Min(S) =< y
  BY <1>2 DEF Min
<1> DEFINE R == {n - y : y \in S}
<1>4. PICK r \in R : \A q \in R : r <= q
  <2>1. R \in SUBSET Nat /\ R # {}
    OBVIOUS
  <2> HIDE DEF R
  <2>2. QED
    BY <2>1, Least
<1>5. PICK z \in S : r = n - z
  OBVIOUS
<1>6. \A y \in S : z >= y
  <2>1. \A y \in S : n - z <= n - y
    BY <1>4, <1>5
  <2>2. QED
    BY <1>1, <2>1
<1>7. Max(S) \in S /\ \A y \in S : Max(S) >= y
  BY <1>6 DEF Max
<1>8. \A y \in S : y <= Max(S)
  BY <1>1, <1>7
<1>9. QED
  BY <1>3, <1>8, <1>7

\* What Trim leaves begins and ends with a token that is not white space.
LEMMA TrimIs ==
  ASSUME NEW text \in Seq(Token)
  PROVE  \/ Trim(text) = <<>>
         \/ \E m \in 1..Len(text) : \E k \in m..Len(text) :
               Trim(text) = SubSeq(text, m, k) /\ text[m] # " " /\ text[k] # " "
<1> DEFINE inside == {i \in 1..Len(text) : text[i] # " "}
<1>1. Len(text) \in Nat /\ inside \in SUBSET (1..Len(text))
  <2>1. Len(text) \in Nat
    OBVIOUS
  <2>2. inside \in SUBSET (1..Len(text))
    OBVIOUS
  <2>3. QED
    BY <2>1, <2>2
<1>2. Trim(text) = IF inside = {} THEN <<>> ELSE SubSeq(text, Min(inside), Max(inside))
  BY DEF Trim
<1>3. ASSUME inside # {}
      PROVE  /\ Min(inside) \in inside /\ Max(inside) \in inside /\ Min(inside) <= Max(inside)
  <2> HIDE DEF inside
  <2>1. QED
    BY <1>1, <1>3, MinMax
<1>4. CASE inside # {}
  <2>1. /\ Min(inside) \in 1..Len(text) /\ text[Min(inside)] # " "
        /\ Max(inside) \in 1..Len(text) /\ text[Max(inside)] # " "
    BY <1>3, <1>4
  <2> HIDE DEF inside
  <2>2. Max(inside) \in Min(inside)..Len(text)
    <3>1. \A x, y \in 1..Len(text) : x <= y => y \in x..Len(text)
      BY <1>1
    <3>2. QED
      BY <1>3, <1>4, <2>1, <3>1
  <2>3. QED
    BY <1>2, <1>4, <2>1, <2>2
<1>5. QED
  BY <1>2, <1>4

\* The tokens between two positions.
LEMMA SubSeqIs ==
  ASSUME NEW text \in Seq(Token), NEW m \in 1..Len(text), NEW k \in m..Len(text)
  PROVE  /\ SubSeq(text, m, k) \in Seq(Token) /\ Len(SubSeq(text, m, k)) = k - m + 1
         /\ \A i \in 1..k - m + 1 : SubSeq(text, m, k)[i] = text[m + i - 1]
OBVIOUS

\* Trimming a text leaves a text.
LEMMA TrimType ==
  ASSUME NEW text \in Seq(Token)
  PROVE  Trim(text) \in Seq(Token)
<1>1. <<>> \in Seq(Token)
  OBVIOUS
<1>2. ASSUME NEW m \in 1..Len(text), NEW k \in m..Len(text) PROVE SubSeq(text, m, k) \in Seq(Token)
  BY SubSeqIs
<1>3. QED
  BY <1>1, <1>2, TrimIs

\* Trimming twice is trimming once.
LEMMA TrimTwice ==
  ASSUME NEW text \in Seq(Token)
  PROVE  text = <<>> \/ (text[1] # " " /\ text[Len(text)] # " ") => Trim(text) = text
<1>1. CASE text = <<>>
  <2>1. Len(text) = 0 /\ 1..Len(text) = {}
    BY <1>1
  <2>2. {i \in 1..Len(text) : text[i] # " "} = {}
    BY <2>1
  <2>3. QED
    BY <1>1, <2>2 DEF Trim
<1>2. CASE text # <<>> /\ text[1] # " " /\ text[Len(text)] # " "
  <2> DEFINE inside == {i \in 1..Len(text) : text[i] # " "}
  <2>1. Len(text) \in Nat /\ 1 \in 1..Len(text) /\ Len(text) \in 1..Len(text)
    <3>1. text # <<>>
      BY <1>2
    <3>2. Len(text) \in Nat \ {0}
      BY <3>1, EmptySeq
    <3>3. QED
      BY <3>2
  <2>2. 1 \in inside /\ Len(text) \in inside /\ inside \in SUBSET (1..Len(text))
    <3>1. 1 \in inside /\ Len(text) \in inside
      BY <1>2, <2>1
    <3>2. inside \in SUBSET (1..Len(text))
      OBVIOUS
    <3>3. QED
      BY <3>1, <3>2
  <2>3. Trim(text) = SubSeq(text, Min(inside), Max(inside))
    BY <2>2 DEF Trim
  <2> HIDE DEF inside
  <2>4. Min(inside) \in 1..Len(text) /\ Max(inside) \in 1..Len(text)
        /\ Min(inside) <= 1 /\ Len(text) <= Max(inside)
    BY <2>1, <2>2, MinMax
  <2>5. \A x \in 1..Len(text) : (x <= 1 => x = 1) /\ (Len(text) <= x => x = Len(text))
    BY <2>1
  <2>6. Min(inside) = 1 /\ Max(inside) = Len(text)
    BY <2>4, <2>5
  <2>7. QED
    BY <2>3, <2>6, SubSeqFull
<1>3. QED
  BY <1>1, <1>2

-----------------------------------------------------------------------------
(* The steps of the pipe. *)

\* The six replacements in a row.
Unescaped(text) ==
  Replace(Replace(Replace(Replace(Replace(Replace(text, "amp;", "&"), "lt;", "<"), "gt;", ">"),
          "quot;", "\""), "#x27;", "'"), "#39;", "'")

\* Stripped unescapes, strips and trims, in this order.
LEMMA StrippedIs ==
  ASSUME NEW text
  PROVE  Stripped(text) = Trim(StripHtmlTags(Unescaped(text)))
<1>1. UnescapeHtmlEntities({text}) = {Unescaped(text)}
  <2> DEFINE amp == Replace(text, "amp;", "&")
             lt == Replace(amp, "lt;", "<")
             gt == Replace(lt, "gt;", ">")
             quot == Replace(gt, "quot;", "\"")
             hex == Replace(quot, "#x27;", "'")
  <2>1. {Replace(t, "amp;", "&") : t \in {text}} = {amp}
    OBVIOUS
  <2>2. {Replace(t, "lt;", "<") : t \in {amp}} = {lt}
    OBVIOUS
  <2>3. {Replace(t, "gt;", ">") : t \in {lt}} = {gt}
    OBVIOUS
  <2>4. {Replace(t, "quot;", "\"") : t \in {gt}} = {quot}
    OBVIOUS
  <2>5. {Replace(t, "#x27;", "'") : t \in {quot}} = {hex}
    OBVIOUS
  <2>6. {Replace(t, "#39;", "'") : t \in {hex}} = {Replace(hex, "#39;", "'")}
    OBVIOUS
  <2>7. Unescaped(text) = Replace(hex, "#39;", "'")
    BY DEF Unescaped
  <2> HIDE DEF amp, lt, gt, quot, hex
  <2>8. QED
    BY <2>1, <2>2, <2>3, <2>4, <2>5, <2>6, <2>7 DEF UnescapeHtmlEntities
<1>2. {Trim(p) : p \in {StripHtmlTags(t) : t \in {Unescaped(text)}}} = {Trim(StripHtmlTags(Unescaped(text)))}
  OBVIOUS
<1>3. \A x : (CHOOSE t \in {x} : TRUE) = x
  OBVIOUS
<1>4. QED
  BY <1>1, <1>2, <1>3 DEF Stripped

\* Sanitize escapes what is stripped.
LEMMA SanitizeIs ==
  ASSUME NEW text
  PROVE  Sanitize(text, FALSE) = EscapeSpecialChars(Stripped(text))
<1>1. {EscapeSpecialChars(IF FALSE THEN Lower(t) ELSE t) : t \in {Stripped(text)}}
        = {EscapeSpecialChars(Stripped(text))}
  OBVIOUS
<1>2. \A x : (CHOOSE t \in {x} : TRUE) = x
  OBVIOUS
<1>3. QED
  BY <1>1, <1>2 DEF Sanitize

\* A replacement in a text makes a text.
LEMMA ReplaceType ==
  ASSUME NEW text \in Seq(Token), NEW entity, NEW char \in Token
  PROVE  Replace(text, entity, char) \in Seq(Token)
<1>1. Len(text) \in 0..Len(text)
  OBVIOUS
<1>2. QED
  BY <1>1, ReplaceIs DEF Replaces

\* So does stripping its tags,
LEMMA StripType ==
  ASSUME NEW text \in Seq(Token)
  PROVE  StripHtmlTags(text) \in Seq(Token)
<1>1. Len(text) \in 0..Len(text)
  OBVIOUS
<1>2. QED
  BY <1>1, StripIs DEF Strips

\* escaping it,
LEMMA EscapeType ==
  ASSUME NEW text \in Seq(Token)
  PROVE  EscapeSpecialChars(text) \in Seq(Token)
<1>1. Len(text) \in 0..Len(text)
  OBVIOUS
<1>2. QED
  BY <1>1, EscapeIs DEF Escapes

\* unescaping it,
LEMMA UnescapedType ==
  ASSUME NEW text \in Seq(Token)
  PROVE  Unescaped(text) \in Seq(Token)
<1>1. "&" \in Token /\ "<" \in Token /\ ">" \in Token /\ "\"" \in Token /\ "'" \in Token
  BY TokensOK DEF Mark
<1>2. Replace(text, "amp;", "&") \in Seq(Token)
  BY <1>1, ReplaceType
<1>3. \A t \in Seq(Token) : /\ Replace(t, "lt;", "<") \in Seq(Token) /\ Replace(t, "gt;", ">") \in Seq(Token)
                          /\ Replace(t, "quot;", "\"") \in Seq(Token) /\ Replace(t, "#x27;", "'") \in Seq(Token)
                          /\ Replace(t, "#39;", "'") \in Seq(Token)
  BY <1>1, ReplaceType
<1>4. QED
  BY <1>2, <1>3 DEF Unescaped

\* and all up to the escaping.
LEMMA StrippedType ==
  ASSUME NEW text \in Seq(Token)
  PROVE  Stripped(text) \in Seq(Token)
BY StrippedIs, UnescapedType, StripType, TrimType

\* What the pipe makes of a text is a text.
LEMMA SanitizeType ==
  ASSUME NEW text \in Seq(Token)
  PROVE  Sanitize(text, FALSE) \in Seq(Token)
BY SanitizeIs, StrippedType, EscapeType

-----------------------------------------------------------------------------
(* A text that went through the pipe, and goes through it again. *)

\* Replacing in two texts apart is replacing in both at once, unless an entity
\* lies across.
Crosses(s, t, entity) == s # <<>> /\ t # <<>> /\ s[Len(s)] = "&" /\ t[1] = entity

\* The tokens of two texts in a row.
LEMMA Positions ==
  ASSUME NEW s \in Seq(Token), NEW t \in Seq(Token)
  PROVE  /\ Len(s) \in Nat /\ Len(t) \in Nat
         /\ s \o t \in Seq(Token) /\ Len(s \o t) = Len(s) + Len(t)
         /\ \A i \in 1..Len(s) : (s \o t)[i] = s[i]
         /\ \A i \in 1..Len(t) : (s \o t)[Len(s) + i] = t[i]
<1>1. Len(s) \in Nat /\ Len(t) \in Nat
  BY LenProperties
<1>2. \A i \in 1..Len(s) : i \in 1..Len(s) + Len(t) /\ i <= Len(s)
  BY <1>1
<1>3. \A i \in 1..Len(t) : Len(s) + i \in 1..Len(s) + Len(t) /\ ~(Len(s) + i <= Len(s)) /\ (Len(s) + i) - Len(s) = i
  BY <1>1
<1>4. QED
  BY <1>1, <1>2, <1>3, ConcatProperties

\* No entity begins in two texts in a row that begins in neither, but for one across.
LEMMA BeginsApart ==
  ASSUME NEW s \in Seq(Token), NEW t \in Seq(Token), NEW entity, ~Crosses(s, t, entity)
  PROVE  /\ \A i \in 0..Len(s) : Begins(s \o t, entity, i) <=> Begins(s, entity, i)
         /\ \A i \in 0..Len(t) : Begins(s \o t, entity, Len(s) + i) <=> Begins(t, entity, i)
<1>1. /\ Len(s) \in Nat /\ Len(t) \in Nat /\ Len(s \o t) = Len(s) + Len(t)
      /\ \A i \in 1..Len(s) : (s \o t)[i] = s[i]
      /\ \A i \in 1..Len(t) : (s \o t)[Len(s) + i] = t[i]
  BY Positions
<1>2. ~Begins(s \o t, entity, Len(s))
  <2> SUFFICES ASSUME Begins(s \o t, entity, Len(s)) PROVE FALSE
    OBVIOUS
  <2>1. /\ Len(s) \in 1..Len(s) + Len(t) - 1 /\ (s \o t)[Len(s)] = "&" /\ (s \o t)[Len(s) + 1] = entity
    BY <1>1 DEF Begins
  <2>2. Len(s) \in 1..Len(s) /\ 1 \in 1..Len(t)
    BY <1>1, <2>1
  <2>3. s[Len(s)] = "&" /\ t[1] = entity
    BY <1>1, <2>1, <2>2
  <2>4. s # <<>> /\ t # <<>>
    BY <2>2, EmptySeq
  <2>5. QED
    BY <2>3, <2>4 DEF Crosses
<1>3. ASSUME NEW i \in 0..Len(s) PROVE Begins(s \o t, entity, i) <=> Begins(s, entity, i)
  <2>1. CASE i = Len(s)
    <3>1. i \notin 1..Len(s) - 1
      BY <1>1, <2>1
    <3>2. QED
      BY <1>2, <2>1, <3>1 DEF Begins
  <2>2. CASE i \in 1..Len(s) - 1
    <3>1. /\ i \in 1..Len(s \o t) - 1 /\ i \in 1..Len(s) /\ i + 1 \in 1..Len(s)
      BY <1>1, <2>2
    <3>2. QED
      BY <1>1, <2>2, <3>1 DEF Begins
  <2>3. CASE i = 0
    <3>1. i \notin 1..Len(s) - 1 /\ i \notin 1..Len(s \o t) - 1
      BY <2>3
    <3>2. QED
      BY <3>1 DEF Begins
  <2>4. QED
    BY <1>1, <2>1, <2>2, <2>3
<1>4. ASSUME NEW i \in 0..Len(t) PROVE Begins(s \o t, entity, Len(s) + i) <=> Begins(t, entity, i)
  <2>1. CASE i = 0
    <3>1. i \notin 1..Len(t) - 1 /\ Len(s) + i = Len(s)
      BY <1>1, <2>1
    <3>2. QED
      BY <1>2, <3>1 DEF Begins
  <2>2. CASE i \in 1..Len(t)
    <3>1. Len(s) + i \in 1..Len(s \o t) - 1 <=> i \in 1..Len(t) - 1
      BY <1>1, <2>2
    <3>2. i \in 1..Len(t) - 1 => i + 1 \in 1..Len(t) /\ (Len(s) + i) + 1 = Len(s) + (i + 1)
      BY <1>1, <2>2
    <3>3. i \in 1..Len(t) - 1 => (s \o t)[Len(s) + i] = t[i] /\ (s \o t)[(Len(s) + i) + 1] = t[i + 1]
      BY <1>1, <2>2, <3>2
    <3>4. QED
      BY <3>1, <3>3 DEF Begins
  <2>3. QED
    BY <1>1, <2>1, <2>2
<1>5. QED
  BY <1>3, <1>4

\* A token behind two texts is one behind the second.
LEMMA AppendApart ==
  \A s, t \in Seq(Token), c \in Token : Append(s \o t, c) = s \o Append(t, c)
<1> SUFFICES ASSUME NEW s \in Seq(Token), NEW t \in Seq(Token), NEW c \in Token
             PROVE  Append(s \o t, c) = s \o Append(t, c)
  OBVIOUS
<1>1. s \o t \in Seq(Token) /\ <<c>> \in Seq(Token)
  BY ConcatProperties
<1>2. Append(s \o t, c) = (s \o t) \o <<c>>
  BY <1>1, AppendIsConcat
<1>3. Append(t, c) = t \o <<c>>
  BY AppendIsConcat
<1>4. (s \o t) \o <<c>> = s \o (t \o <<c>>)
  BY <1>1, ConcatAssociative
<1>5. QED
  BY <1>2, <1>3, <1>4

\* A replacement in two texts in a row is one in each, unless an entity lies across.
LEMMA ReplaceApart ==
  ASSUME NEW s \in Seq(Token), NEW t \in Seq(Token), NEW entity, NEW char \in Token,
         ~Crosses(s, t, entity)
  PROVE  Replace(s \o t, entity, char) = Replace(s, entity, char) \o Replace(t, entity, char)
<1> DEFINE st == s \o t
<1>1. /\ st \in Seq(Token) /\ Len(s) \in Nat /\ Len(t) \in Nat /\ Len(st) = Len(s) + Len(t)
      /\ \A i \in 1..Len(s) : st[i] = s[i]
      /\ \A i \in 1..Len(t) : st[Len(s) + i] = t[i]
  BY Positions
<1>2. /\ \A i \in 0..Len(s) : Begins(st, entity, i) <=> Begins(s, entity, i)
      /\ \A i \in 0..Len(t) : Begins(st, entity, Len(s) + i) <=> Begins(t, entity, i)
  BY BeginsApart
<1> HIDE DEF st
<1>3. \A u \in Seq(Token) : \E f : Replaces(f, u, entity, char)
  BY ReplaceIs
<1>4. PICK f : Replaces(f, st, entity, char)
  BY <1>1, <1>3
<1>5. PICK g : Replaces(g, s, entity, char)
  BY <1>3
<1>6. PICK h : Replaces(h, t, entity, char)
  BY <1>3
<1> USE DEF Replaces
<1>7. f[Len(s)] = g[Len(s)]
  <2> DEFINE T == {i \in 0..Len(s) : f[i] = g[i]}
  <2>1. 0 \in T
    BY <1>1, <1>4, <1>5
  <2>2. ASSUME NEW k \in 0..Len(s) - 1, k \in T PROVE k + 1 \in T
    <3>1. /\ k + 1 \in 1..Len(s) /\ k + 1 \in 1..Len(st) /\ k + 1 \in 0..Len(s) /\ k \in 0..Len(s)
          /\ (k + 1) - 1 = k
      BY <1>1
    <3>2. f[k + 1] = ReplaceStep(st, entity, char, k + 1, f[k]) /\ g[k + 1] = ReplaceStep(s, entity, char, k + 1, g[k])
      BY <1>4, <1>5, <3>1
    <3>3. f[k] = g[k] /\ st[k + 1] = s[k + 1]
      BY <1>1, <2>2, <3>1
    <3>4. (Begins(st, entity, k + 1) <=> Begins(s, entity, k + 1)) /\ (Begins(st, entity, k) <=> Begins(s, entity, k))
      BY <1>2, <3>1
    <3>5. f[k + 1] = g[k + 1]
      BY <3>1, <3>2, <3>3, <3>4 DEF ReplaceStep
    <3>6. QED
      BY <3>1, <3>5
  <2> HIDE DEF T
  <2>3. \A i \in 0..Len(s) : i \in T
    BY <1>1, <2>1, <2>2, InductionUpTo
  <2>4. QED
    BY <1>1, <2>3 DEF T
<1>8. f[Len(s) + Len(t)] = g[Len(s)] \o h[Len(t)]
  <2> DEFINE T == {i \in 0..Len(t) : f[Len(s) + i] = g[Len(s)] \o h[i]}
  <2>1. g[Len(s)] \in Seq(Token)
    BY <1>1, <1>5
  <2>2. 0 \in T
    <3>1. Len(s) + 0 = Len(s) /\ 0 \in 0..Len(t)
      BY <1>1
    <3>2. g[Len(s)] \o <<>> = g[Len(s)]
      BY <2>1, ConcatEmptySeq
    <3>3. QED
      BY <1>6, <1>7, <3>1, <3>2
  <2>3. ASSUME NEW k \in 0..Len(t) - 1, k \in T PROVE k + 1 \in T
    <3>1. /\ k + 1 \in 1..Len(t) /\ Len(s) + (k + 1) \in 1..Len(st) /\ k + 1 \in 0..Len(t) /\ k \in 0..Len(t)
          /\ (k + 1) - 1 = k /\ (Len(s) + (k + 1)) - 1 = Len(s) + k
      BY <1>1
    <3>2. /\ f[Len(s) + (k + 1)] = ReplaceStep(st, entity, char, Len(s) + (k + 1), f[Len(s) + k])
          /\ h[k + 1] = ReplaceStep(t, entity, char, k + 1, h[k])
      BY <1>4, <1>6, <3>1
    <3>3. f[Len(s) + k] = g[Len(s)] \o h[k] /\ st[Len(s) + (k + 1)] = t[k + 1]
      BY <1>1, <2>3, <3>1
    <3>4. /\ Begins(st, entity, Len(s) + (k + 1)) <=> Begins(t, entity, k + 1)
          /\ Begins(st, entity, Len(s) + k) <=> Begins(t, entity, k)
      BY <1>2, <3>1
    <3>5. h[k] \in Seq(Token) /\ t[k + 1] \in Token
      BY <1>6, <3>1, ElementOfSeq
    <3>6. \A c \in Token : Append(g[Len(s)] \o h[k], c) = g[Len(s)] \o Append(h[k], c)
      BY <2>1, <3>5, AppendApart, Zenon
    <3>7. f[Len(s) + (k + 1)] = g[Len(s)] \o h[k + 1]
      <4>1. CASE Begins(t, entity, k + 1)
        <5>1. f[Len(s) + (k + 1)] = Append(f[Len(s) + k], char) /\ h[k + 1] = Append(h[k], char)
          BY <3>2, <3>4, <4>1 DEF ReplaceStep
        <5>2. QED
          BY <3>3, <3>6, <5>1
      <4>2. CASE ~Begins(t, entity, k + 1) /\ Begins(t, entity, k)
        <5>1. f[Len(s) + (k + 1)] = f[Len(s) + k] /\ h[k + 1] = h[k]
          BY <3>1, <3>2, <3>4, <4>2 DEF ReplaceStep
        <5>2. QED
          BY <3>3, <5>1
      <4>3. CASE ~Begins(t, entity, k + 1) /\ ~Begins(t, entity, k)
        <5>1. f[Len(s) + (k + 1)] = Append(f[Len(s) + k], t[k + 1]) /\ h[k + 1] = Append(h[k], t[k + 1])
          BY <3>1, <3>2, <3>3, <3>4, <4>3 DEF ReplaceStep
        <5>2. QED
          BY <3>3, <3>5, <3>6, <5>1
      <4>4. QED
        BY <4>1, <4>2, <4>3
    <3>8. QED
      BY <3>1, <3>7
  <2> HIDE DEF T
  <2>4. \A i \in 0..Len(t) : i \in T
    BY <1>1, <2>2, <2>3, InductionUpTo
  <2>5. Len(t) \in 0..Len(t)
    BY <1>1
  <2>6. QED
    BY <2>4, <2>5 DEF T
<1>9. QED
  BY <1>1, <1>4, <1>5, <1>6, <1>8 DEF st

\* Replacing in texts of no, one and two tokens.
LEMMA ReplaceShort ==
  ASSUME NEW entity, NEW char \in Token
  PROVE  /\ Replace(<<>>, entity, char) = <<>>
         /\ \A x \in Token : Replace(<<x>>, entity, char) = <<x>>
         /\ entity # "&" => \A x, y \in Token :
              Replace(<<x, y>>, entity, char) = IF x = "&" /\ y = entity THEN <<char>> ELSE <<x, y>>
<1>1. Replace(<<>>, entity, char) = <<>>
  <2>1. <<>> \in Seq(Token) /\ Len(<<>>) = 0
    BY EmptySeq
  <2> DEFINE s == <<>>
  <2> HIDE DEF s
  <2>2. PICK f : Replaces(f, s, entity, char)
    BY <2>1, ReplaceIs DEF s
  <2>3. Replace(s, entity, char) = <<>>
    BY <2>1, <2>2 DEF Replaces, s
  <2>4. QED
    BY <2>3 DEF s
<1>2. ASSUME NEW x \in Token PROVE Replace(<<x>>, entity, char) = <<x>>
  <2> DEFINE s == <<x>>
  <2>1. s \in Seq(Token) /\ Len(s) = 1 /\ s[1] = x
    OBVIOUS
  <2>2. ~Begins(s, entity, 1) /\ ~Begins(s, entity, 0)
    BY <2>1 DEF Begins
  <2> HIDE DEF s
  <2>3. PICK f : Replaces(f, s, entity, char)
    BY <2>1, ReplaceIs
  <2>4. f[0] = <<>> /\ f[1] = ReplaceStep(s, entity, char, 1, f[0]) /\ Replace(s, entity, char) = f[1]
    <3>1. 1 \in 1..Len(s) /\ 1 - 1 = 0
      BY <2>1
    <3>2. QED
      BY <2>1, <2>3, <3>1 DEF Replaces
  <2>5. f[1] = Append(<<>>, x)
    BY <2>1, <2>2, <2>4 DEF ReplaceStep
  <2>6. QED
    BY <2>4, <2>5 DEF s
<1>3. ASSUME entity # "&", NEW x \in Token, NEW y \in Token
      PROVE  Replace(<<x, y>>, entity, char) = IF x = "&" /\ y = entity THEN <<char>> ELSE <<x, y>>
  <2> DEFINE s == <<x, y>>
  <2>1. s \in Seq(Token) /\ Len(s) = 2 /\ s[1] = x /\ s[2] = y
    OBVIOUS
  <2>2. ~Begins(s, entity, 2) /\ ~Begins(s, entity, 0) /\ (Begins(s, entity, 1) <=> x = "&" /\ y = entity)
    BY <2>1 DEF Begins
  <2> HIDE DEF s
  <2>3. PICK f : Replaces(f, s, entity, char)
    BY <2>1, ReplaceIs
  <2>4. /\ f[0] = <<>> /\ f[1] = ReplaceStep(s, entity, char, 1, f[0])
        /\ f[2] = ReplaceStep(s, entity, char, 2, f[1]) /\ Replace(s, entity, char) = f[2]
    <3>1. 1 \in 1..Len(s) /\ 2 \in 1..Len(s) /\ 1 - 1 = 0 /\ 2 - 1 = 1
      BY <2>1
    <3>2. QED
      BY <2>1, <2>3, <3>1 DEF Replaces
  <2>5. CASE Begins(s, entity, 1)
    <3>1. f[1] = Append(<<>>, char)
      BY <2>4, <2>5 DEF ReplaceStep
    <3>2. f[2] = f[1]
      BY <2>2, <2>4, <2>5 DEF ReplaceStep
    <3>3. QED
      BY <2>2, <2>4, <2>5, <3>1, <3>2 DEF s
  <2>6. CASE ~Begins(s, entity, 1)
    <3>1. f[1] = Append(<<>>, x)
      BY <2>1, <2>2, <2>4, <2>6 DEF ReplaceStep
    <3>2. f[2] = Append(f[1], y)
      BY <2>1, <2>2, <2>4, <2>6 DEF ReplaceStep
    <3>3. Append(Append(<<>>, x), y) = <<x, y>>
      <4>1. Append(<<>>, x) = <<x>>
        OBVIOUS
      <4>2. Append(<<x>>, y) = <<x, y>>
        <5> DEFINE l == Append(<<x>>, y)
                   r == <<x, y>>
        <5>1. l \in Seq(Token) /\ Len(l) = 2 /\ l[1] = x /\ l[2] = y
          BY AppendProperties
        <5>2. r \in Seq(Token) /\ Len(r) = 2 /\ r[1] = x /\ r[2] = y
          OBVIOUS
        <5> HIDE DEF l, r
        <5>3. \A i \in 1..Len(l) : i = 1 \/ i = 2
          BY <5>1
        <5>4. l = r
          BY <5>1, <5>2, <5>3, SeqEqual
        <5>5. QED
          BY <5>4 DEF l, r
      <4>3. QED
        BY <4>1, <4>2
    <3>4. QED
      BY <2>2, <2>4, <2>6, <3>1, <3>2, <3>3 DEF s
  <2>7. QED
    BY <2>5, <2>6
<1>4. QED
  BY <1>1, <1>2, <1>3

\* A text of which all characters have been escaped but those of a set.
EscapedBut(D, c) == IF c \in D THEN <<c>> ELSE Escaped(c)
Encodes(f, s, D) ==
  /\ f \in [0..Len(s) -> Seq(Token)] /\ f[0] = <<>>
  /\ \A i \in 1..Len(s) : f[i] = f[i - 1] \o EscapedBut(D, s[i])

\* What a token is escaped to.
LEMMA EscapedButIs ==
  ASSUME NEW D, NEW c \in Token
  PROVE  /\ EscapedBut(D, c) \in Seq(Token)
         /\ \/ EscapedBut(D, c) = <<c>> /\ (c = "&" => "&" \in D)
            \/ \E e \in Mark \ {"&"} : EscapedBut(D, c) = <<"&", e>>
<1>1. \A x, y \in Token : <<x, y>> \in Seq(Token) /\ <<x>> \in Seq(Token)
  OBVIOUS
<1>2. \/ EscapedBut(D, c) = <<c>> /\ (c = "&" => "&" \in D)
      \/ \E e \in Mark \ {"&"} : EscapedBut(D, c) = <<"&", e>>
  <2>1. CASE c \in D
    BY <2>1 DEF EscapedBut
  <2>2. CASE c \notin D
    <3>1. (Escaped(c) = <<c>> /\ c # "&") \/ \E e \in Mark \ {"&"} : Escaped(c) = <<"&", e>>
      BY DEF Escaped, Mark
    <3>2. QED
      BY <2>2, <3>1 DEF EscapedBut
  <2>3. QED
    BY <2>1, <2>2
<1>3. "&" \in Token /\ \A e \in Mark : e \in Token
  BY TokensOK DEF Mark
<1>4. QED
  BY <1>1, <1>2, <1>3

\* A text can be escaped but for any set of tokens.
LEMMA Encoding ==
  ASSUME NEW s \in Seq(Token), NEW D
  PROVE  \E f : Encodes(f, s, D)
<1> DEFINE n == Len(s)
           step == [i \in 1..n |-> [t \in Seq(Token) |-> t \o EscapedBut(D, s[i])]]
<1>1. n \in Nat /\ <<>> \in Seq(Token)
  OBVIOUS
<1>2. \A i \in 1..n : EscapedBut(D, s[i]) \in Seq(Token)
  BY ElementOfSeq, EscapedButIs
<1>3. \A i \in 1..n, t \in Seq(Token) : t \o EscapedBut(D, s[i]) \in Seq(Token)
  BY <1>2, ConcatProperties
<1>4. step \in [1..n -> [Seq(Token) -> Seq(Token)]]
  BY <1>3
<1>5. PICK f : Iterates(f, n, Seq(Token), <<>>, step)
  <2> HIDE DEF step, n
  <2>1. QED
    BY <1>1, <1>4, Recursion
<1>6. f \in [0..n -> Seq(Token)] /\ f[0] = <<>> /\ \A i \in 1..n : f[i] = step[i][f[i - 1]]
  <2> HIDE DEF step, n
  <2>1. QED
    BY <1>5 DEF Iterates
<1>7. ASSUME NEW i \in 1..n PROVE f[i] = f[i - 1] \o EscapedBut(D, s[i])
  <2>1. i - 1 \in 0..n
    BY <1>1
  <2> HIDE DEF n
  <2>2. f[i - 1] \in Seq(Token)
    BY <1>6, <2>1
  <2>3. QED
    BY <1>6, <2>2
<1>8. QED
  BY <1>6, <1>7 DEF Encodes

\* A replacement does to every token what escaping one token less would; no
\* entity lies across two tokens.
TokenPasses(D, D2, entity, char) ==
  \A c \in Token : Replace(EscapedBut(D, c), entity, char) = EscapedBut(D2, c)
Uncrossed(s, D, entity) ==
  \A i \in 1..Len(s) - 1 : ~Crosses(EscapedBut(D, s[i]), EscapedBut(D, s[i + 1]), entity)

\* Then it does so to the text.
LEMMA Pass ==
  ASSUME NEW s \in Seq(Token), NEW D, NEW D2, NEW f, NEW g, Encodes(f, s, D), Encodes(g, s, D2),
         NEW entity, NEW char \in Token,
         TokenPasses(D, D2, entity, char), Uncrossed(s, D, entity)
  PROVE  Replace(f[Len(s)], entity, char) = g[Len(s)]
<1> DEFINE T == {i \in 0..Len(s) : Replace(f[i], entity, char) = g[i]}
<1>1. Len(s) \in Nat
  OBVIOUS
<1>2. 0 \in T
  <2>1. f[0] = <<>> /\ g[0] = <<>> /\ 0 \in 0..Len(s)
    BY <1>1 DEF Encodes
  <2>2. Replace(<<>>, entity, char) = <<>>
    BY ReplaceShort
  <2>3. QED
    BY <2>1, <2>2
<1>3. ASSUME NEW k \in 0..Len(s) - 1, k \in T PROVE k + 1 \in T
  <2> DEFINE e == EscapedBut(D, s[k + 1])
  <2>1. k + 1 \in 1..Len(s) /\ k + 1 \in 0..Len(s) /\ k \in 0..Len(s) /\ (k + 1) - 1 = k
    BY <1>1
  <2>2. f[k + 1] = f[k] \o e /\ g[k + 1] = g[k] \o EscapedBut(D2, s[k + 1]) /\ f[k] \in Seq(Token)
    BY <2>1 DEF Encodes
  <2>3. s[k + 1] \in Token
    BY <2>1, ElementOfSeq
  <2>4. e \in Seq(Token)
    BY <2>3, EscapedButIs
  <2>5. ~Crosses(f[k], e, entity)
    <3>1. CASE k = 0
      BY <3>1 DEF Encodes, Crosses
    <3>2. CASE k # 0
      <4> DEFINE d == EscapedBut(D, s[k])
      <4>1. k \in 1..Len(s) - 1 /\ k \in 1..Len(s) /\ k - 1 \in 0..Len(s)
        BY <1>1, <3>2
      <4>2. ~Crosses(d, e, entity)
        BY <4>1 DEF Uncrossed
      <4>3. f[k] = f[k - 1] \o d /\ f[k - 1] \in Seq(Token)
        BY <4>1 DEF Encodes
      <4>4. d \in Seq(Token) /\ d # <<>>
        <5>1. s[k] \in Token
          BY <4>1, ElementOfSeq
        <5>2. d \in Seq(Token)
          BY <5>1, EscapedButIs
        <5>3. \A x, y : <<x>> # <<>> /\ <<x, y>> # <<>>
          OBVIOUS
        <5>4. d = <<s[k]>> \/ \E e2 \in Mark \ {"&"} : d = <<"&", e2>>
          BY <5>1, EscapedButIs
        <5> HIDE DEF d
        <5>5. QED
          BY <5>2, <5>3, <5>4
      <4> HIDE DEF d, e
      <4>5. f[k][Len(f[k])] = d[Len(d)]
        <5>1. Len(d) \in 1..Len(d)
          BY <4>4, EmptySeq
        <5>2. QED
          BY <4>3, <4>4, <5>1, Positions
      <4>6. QED
        BY <4>2, <4>4, <4>5 DEF Crosses
    <3>3. QED
      BY <3>1, <3>2
  <2>6. Replace(f[k] \o e, entity, char) = Replace(f[k], entity, char) \o Replace(e, entity, char)
    BY <2>2, <2>4, <2>5, ReplaceApart
  <2>7. Replace(e, entity, char) = EscapedBut(D2, s[k + 1]) /\ Replace(f[k], entity, char) = g[k]
    BY <1>3, <2>3 DEF TokenPasses
  <2>8. QED
    BY <2>1, <2>2, <2>6, <2>7
<1> HIDE DEF T
<1>4. \A i \in 0..Len(s) : i \in T
  BY <1>1, <1>2, <1>3, InductionUpTo
<1>5. Len(s) \in 0..Len(s)
  BY <1>1
<1>6. QED
  BY <1>4, <1>5 DEF T

\* A replacement on what one token was escaped to.
LEMMA PassToken ==
  ASSUME NEW D, NEW entity \in Token \ {"&"}, NEW char \in Token,
         \A c \in Token : c \notin D => (Escaped(c) = <<"&", entity>> <=> c = char)
  PROVE  \A c \in Token : Replace(EscapedBut(D, c), entity, char) = EscapedBut(D \cup {char}, c)
<1> SUFFICES ASSUME NEW c \in Token
             PROVE  Replace(EscapedBut(D, c), entity, char) = EscapedBut(D \cup {char}, c)
  OBVIOUS
<1>1. /\ \A x \in Token : Replace(<<x>>, entity, char) = <<x>>
      /\ \A x, y \in Token :
           Replace(<<x, y>>, entity, char) = IF x = "&" /\ y = entity THEN <<char>> ELSE <<x, y>>
  BY ReplaceShort
<1>2. CASE c \in D
  BY <1>1, <1>2 DEF EscapedBut
<1>3. CASE c \notin D /\ c = char
  <2>1. EscapedBut(D, c) = <<"&", entity>> /\ EscapedBut(D \cup {char}, c) = <<char>>
    BY <1>3 DEF EscapedBut
  <2>2. "&" \in Token
    BY TokensOK DEF Mark
  <2>3. QED
    BY <1>1, <2>1, <2>2
<1>4. CASE c \notin D /\ c # char
  <2>1. EscapedBut(D, c) = Escaped(c) /\ EscapedBut(D \cup {char}, c) = Escaped(c) /\ Escaped(c) # <<"&", entity>>
    BY <1>4 DEF EscapedBut
  <2>2. CASE Escaped(c) = <<c>>
    BY <1>1, <2>1, <2>2
  <2>3. CASE Escaped(c) # <<c>>
    <3>1. PICK e \in Mark : Escaped(c) = <<"&", e>>
      <4>1. EscapedBut({}, c) = Escaped(c)
        BY DEF EscapedBut
      <4>2. QED
        BY <2>3, <4>1, EscapedButIs
    <3>2. e \in Token /\ "&" \in Token /\ e # entity
      BY <2>1, <3>1, TokensOK DEF Mark
    <3>3. QED
      BY <1>1, <2>1, <3>1, <3>2
  <2>4. QED
    BY <2>2, <2>3
<1>5. QED
  BY <1>2, <1>3, <1>4

\* An entity comes to lie across two tokens only if they are an unescaped "&"
\* and its own rest.
LEMMA Crossing ==
  ASSUME NEW D, NEW c \in Token, NEW d \in Token, NEW entity, entity # "&",
         Crosses(EscapedBut(D, c), EscapedBut(D, d), entity)
  PROVE  c = "&" /\ "&" \in D /\ d = entity
<1>1. \A x, y : /\ <<x>>[1] = x /\ <<x, y>>[1] = x /\ <<x, y>>[2] = y
                /\ Len(<<x>>) = 1 /\ Len(<<x, y>>) = 2
  OBVIOUS
<1>2. EscapedBut(D, c)[Len(EscapedBut(D, c))] = "&" /\ EscapedBut(D, d)[1] = entity
  BY DEF Crosses
<1>3. c = "&" /\ "&" \in D
  <2>1. CASE EscapedBut(D, c) = <<c>> /\ (c = "&" => "&" \in D)
    BY <1>1, <1>2, <2>1
  <2>2. CASE \E e \in Mark \ {"&"} : EscapedBut(D, c) = <<"&", e>>
    BY <1>1, <1>2, <2>2
  <2>3. QED
    BY <2>1, <2>2, EscapedButIs
<1>4. d = entity
  <2>1. CASE EscapedBut(D, d) = <<d>>
    BY <1>1, <1>2, <2>1
  <2>2. CASE \E e \in Mark \ {"&"} : EscapedBut(D, d) = <<"&", e>>
    BY <1>1, <1>2, <2>2
  <2>3. QED
    BY <2>1, <2>2, EscapedButIs
<1>5. QED
  BY <1>3, <1>4

\* A text in which no "&" is followed by the rest of an entity other than its own.
Split == {"lt;", "gt;", "quot;", "#x27;", "#39;"}
Whole(s) == \A i \in 1..Len(s) - 1 : ~(s[i] = "&" /\ s[i + 1] \in Split)

\* What a text is escaped to but for a set of tokens.
Encoded(t, s, D) == \E f : Encodes(f, s, D) /\ t = f[Len(s)]

\* Each step of unescaping takes one token's escaping back.
LEMMA PassWhole ==
  ASSUME NEW s \in Seq(Token), NEW D, NEW entity \in Token \ {"&"}, NEW char \in Token, NEW t,
         \A c \in Token : c \notin D => (Escaped(c) = <<"&", entity>> <=> c = char),
         "&" \notin D \/ (Whole(s) /\ entity \in Split),
         Encoded(t, s, D)
  PROVE  Encoded(Replace(t, entity, char), s, D \cup {char})
<1>1. PICK f : Encodes(f, s, D) /\ t = f[Len(s)]
  BY DEF Encoded
<1>2. PICK g : Encodes(g, s, D \cup {char})
  BY Encoding
<1>3. \A c \in Token : Replace(EscapedBut(D, c), entity, char) = EscapedBut(D \cup {char}, c)
  BY PassToken
<1>4. \A i \in 1..Len(s) - 1 : ~Crosses(EscapedBut(D, s[i]), EscapedBut(D, s[i + 1]), entity)
  <2> SUFFICES ASSUME NEW i \in 1..Len(s) - 1, Crosses(EscapedBut(D, s[i]), EscapedBut(D, s[i + 1]), entity)
               PROVE  FALSE
    OBVIOUS
  <2>1. s[i] \in Token /\ s[i + 1] \in Token
    <3>1. i \in 1..Len(s) /\ i + 1 \in 1..Len(s)
      BY LenProperties
    <3>2. QED
      BY <3>1, ElementOfSeq
  <2>2. s[i] = "&" /\ "&" \in D /\ s[i + 1] = entity
    BY <2>1, Crossing
  <2>3. QED
    BY <2>2 DEF Whole
<1>5. Replace(f[Len(s)], entity, char) = g[Len(s)]
  <2>1. TokenPasses(D, D \cup {char}, entity, char) /\ Uncrossed(s, D, entity)
    BY <1>3, <1>4 DEF TokenPasses, Uncrossed
  <2>2. QED
    <3> DEFINE D2 == D \cup {char}
    <3>1. Encodes(f, s, D) /\ Encodes(g, s, D2)
      BY <1>1, <1>2
    <3>2. TokenPasses(D, D2, entity, char) /\ Uncrossed(s, D, entity)
      BY <2>1
    <3> HIDE DEF D2
    <3>3. QED
      BY <3>1, <3>2, Pass
<1>6. QED
  BY <1>1, <1>2, <1>5 DEF Encoded

\* A token behind a text is its last, and leaves the others in their places.
LEMMA AppendIs ==
  \A t \in Seq(Token), c \in Token :
     /\ Len(Append(t, c)) = Len(t) + 1 /\ Append(t, c)[Len(t) + 1] = c
     /\ \A j \in 1..Len(t) : Append(t, c)[j] = t[j]
BY AppendProperties

\* A text is what its tokens make, one after the other.
LEMMA CopyIs ==
  ASSUME NEW s \in Seq(Token), NEW f \in [0..Len(s) -> Seq(Token)], f[0] = <<>>,
         \A i \in 1..Len(s) : f[i] = Append(f[i - 1], s[i])
  PROVE  f[Len(s)] = s
<1> DEFINE T == {k \in 0..Len(s) : Len(f[k]) = k /\ \A j \in 1..k : f[k][j] = s[j]}
<1>1. Len(s) \in Nat
  OBVIOUS
<1>2. 0 \in T
  BY <1>1
<1>3. ASSUME NEW k \in 0..Len(s) - 1, k \in T PROVE k + 1 \in T
  <2>1. k + 1 \in 1..Len(s) /\ k + 1 \in 0..Len(s) /\ k \in 0..Len(s) /\ (k + 1) - 1 = k
    BY <1>1
  <2>2. f[k] \in Seq(Token) /\ s[k + 1] \in Token /\ f[k + 1] = Append(f[k], s[k + 1])
    BY <2>1, ElementOfSeq
  <2>3. Len(f[k]) = k /\ \A j \in 1..k : f[k][j] = s[j]
    BY <1>3
  <2>4. /\ Len(f[k + 1]) = k + 1 /\ f[k + 1][k + 1] = s[k + 1]
        /\ \A j \in 1..k : f[k + 1][j] = f[k][j]
    <3> DEFINE t == f[k]
               c == s[k + 1]
    <3>1. t \in Seq(Token) /\ c \in Token /\ f[k + 1] = Append(t, c) /\ Len(t) = k
      BY <2>2, <2>3
    <3> HIDE DEF t, c
    <3>2. /\ Len(Append(t, c)) = Len(t) + 1 /\ Append(t, c)[Len(t) + 1] = c
          /\ \A j \in 1..Len(t) : Append(t, c)[j] = t[j]
      BY <3>1, AppendIs, Zenon
    <3>3. QED
      BY <3>1, <3>2 DEF t, c
  <2>5. \A j \in 1..k + 1 : j = k + 1 \/ j \in 1..k
    BY <1>1
  <2>6. \A j \in 1..k + 1 : f[k + 1][j] = s[j]
    BY <2>3, <2>4, <2>5
  <2>7. QED
    BY <2>1, <2>4, <2>6
<1> HIDE DEF T
<1>4. \A k \in 0..Len(s) : k \in T
  BY <1>1, <1>2, <1>3, InductionUpTo
<1>5. Len(s) \in 0..Len(s)
  BY <1>1
<1>6. f[Len(s)] \in Seq(Token) /\ Len(f[Len(s)]) = Len(s) /\ \A j \in 1..Len(s) : f[Len(s)][j] = s[j]
  BY <1>4, <1>5 DEF T
<1>7. QED
  BY <1>6, SeqEqual

\* Unescaping undoes escaping.
LEMMA UnescapeEscaped ==
  ASSUME NEW s \in Seq(Token), Whole(s)
  PROVE  Unescaped(EscapeSpecialChars(s)) = s
<1> DEFINE t0 == EscapeSpecialChars(s)
           t1 == Replace(t0, "amp;", "&")
           t2 == Replace(t1, "lt;", "<")
           t3 == Replace(t2, "gt;", ">")
           t4 == Replace(t3, "quot;", "\"")
           t5 == Replace(t4, "#x27;", "'")
           t6 == Replace(t5, "#39;", "'")
           D1 == {} \cup {"&"}
           D2 == D1 \cup {"<"}
           D3 == D2 \cup {">"}
           D4 == D3 \cup {"\""}
           D5 == D4 \cup {"'"}
           D6 == D5 \cup {"'"}
<1>1. /\ {"amp;", "lt;", "gt;", "quot;", "#x27;", "#39;"} \subseteq Token \ {"&"}
      /\ {"&", "<", ">", "\"", "'"} \subseteq Token
      /\ {"lt;", "gt;", "quot;", "#x27;", "#39;"} \subseteq Split
  BY TokensOK DEF Mark, Split
<1>2. \A x, y : <<x>> # <<"&", y>>
  OBVIOUS
<1>3. \A x, y : <<"&", x>> = <<"&", y>> => x = y
  OBVIOUS
<1>4. \A c : /\ (Escaped(c) = <<"&", "amp;">> <=> c = "&")
             /\ (Escaped(c) = <<"&", "lt;">> <=> c = "<")
             /\ (Escaped(c) = <<"&", "gt;">> <=> c = ">")
             /\ (Escaped(c) = <<"&", "quot;">> <=> c = "\"")
             /\ (Escaped(c) = <<"&", "#x27;">> <=> c = "'")
             /\ Escaped(c) # <<"&", "#39;">>
  BY <1>2, <1>3 DEF Escaped
<1>5. Encoded(t0, s, {})
  <2>1. PICK f : Escapes(f, s)
    BY EscapeIs
  <2>2. \A c : EscapedBut({}, c) = Escaped(c)
    BY DEF EscapedBut
  <2>3. Encodes(f, s, {}) /\ t0 = f[Len(s)]
    BY <2>1, <2>2 DEF Escapes, EscapeStep, Encodes
  <2>4. QED
    BY <2>3 DEF Encoded
<1> HIDE DEF t0
<1>6. Encoded(t1, s, D1)
  BY <1>1, <1>4, <1>5, PassWhole
<1> HIDE DEF t1
<1>7. Encoded(t2, s, D2)
  <2> HIDE DEF D1
  <2>1. QED
    BY <1>1, <1>4, <1>6, PassWhole
<1> HIDE DEF t2
<1>8. Encoded(t3, s, D3)
  <2> HIDE DEF D2
  <2>1. QED
    BY <1>1, <1>4, <1>7, PassWhole
<1> HIDE DEF t3
<1>9. Encoded(t4, s, D4)
  <2> HIDE DEF D3
  <2>1. QED
    BY <1>1, <1>4, <1>8, PassWhole
<1> HIDE DEF t4
<1>10. Encoded(t5, s, D5)
  <2> HIDE DEF D4
  <2>1. QED
    BY <1>1, <1>4, <1>9, PassWhole
<1> HIDE DEF t5
<1>11. Encoded(t6, s, D6)
  <2>1. \A c \in Token : c \notin D5 => (Escaped(c) = <<"&", "#39;">> <=> c = "'")
    BY <1>4
  <2> HIDE DEF D5
  <2>2. QED
    BY <1>1, <2>1, <1>10, PassWhole
<1> HIDE DEF t6
<1>12. t6 = s
  <2>1. PICK f : Encodes(f, s, D6) /\ t6 = f[Len(s)]
    BY <1>11 DEF Encoded
  <2>2. \A c : EscapedBut(D6, c) = <<c>>
    BY DEF EscapedBut, Escaped
  <2> HIDE DEF D6
  <2>3. ASSUME NEW i \in 1..Len(s) PROVE f[i] = Append(f[i - 1], s[i])
    <3>1. i - 1 \in 0..Len(s) /\ s[i] \in Token
      BY LenProperties, ElementOfSeq
    <3>2. f[i - 1] \in Seq(Token) /\ f[i] = f[i - 1] \o <<s[i]>>
      BY <2>1, <2>2, <3>1 DEF Encodes
    <3>3. QED
      BY <3>1, <3>2, AppendIsConcat
  <2>4. QED
    BY <2>1, <2>3, CopyIs DEF Encodes
<1>13. QED
  BY <1>12 DEF t0, t1, t2, t3, t4, t5, t6, Unescaped

\* No tag is left in a text: no "<" comes before a ">".
Tagless(t) == \A a, b \in 1..Len(t) : a < b => ~(t[a] = "<" /\ t[b] = ">")

\* Stripping leaves no tag: a "<" stays only if no ">" comes after it.
LEMMA StripLeavesNone ==
  ASSUME NEW p \in Seq(Token)
  PROVE  Tagless(StripHtmlTags(p))
<1>1. PICK f : Strips(f, p)
  BY StripIs
<1> DEFINE Open(k) == (\E j \in 1..Len(f[k]) : f[k][j] = "<")
                        => \E a \in 1..k : p[a] = "<" /\ ~InTag(p, a)
           T == {k \in 0..Len(p) : Tagless(f[k]) /\ Open(k)}
<1>2. Len(p) \in Nat /\ f \in [0..Len(p) -> Seq(Token)] /\ f[0] = <<>>
  BY <1>1 DEF Strips
<1>3. 0 \in T
  <2>1. Len(f[0]) = 0 /\ 0 \in 0..Len(p)
    BY <1>2
  <2>2. 1..0 = {}
    OBVIOUS
  <2>3. QED
    BY <2>1, <2>2 DEF Tagless
<1>4. ASSUME NEW k \in 0..Len(p) - 1, k \in T PROVE k + 1 \in T
  <2>1. k \in Nat /\ k + 1 \in 1..Len(p) /\ k + 1 \in 0..Len(p) /\ k \in 0..Len(p) /\ (k + 1) - 1 = k
    BY <1>2
  <2>2. f[k + 1] = StripStep(p, k + 1, f[k])
    BY <1>1, <2>1 DEF Strips
  <2>3. Tagless(f[k]) /\ Open(k)
    BY <1>4
  <2>4. CASE InTag(p, k + 1)
    <3>1. f[k + 1] = f[k]
      BY <2>2, <2>4 DEF StripStep
    <3>2. \A a \in 1..k : a \in 1..k + 1
      BY <2>1
    <3>3. Open(k + 1)
      BY <2>3, <3>1, <3>2
    <3>4. QED
      BY <2>1, <2>3, <3>1, <3>3
  <2>5. CASE ~InTag(p, k + 1)
    <3> DEFINE l == Len(f[k])
    <3>1. f[k] \in Seq(Token) /\ p[k + 1] \in Token /\ f[k + 1] = Append(f[k], p[k + 1])
      BY <1>2, <2>1, <2>2, <2>5, ElementOfSeq DEF StripStep
    <3>2. /\ l \in Nat /\ Len(f[k + 1]) = l + 1 /\ f[k + 1][l + 1] = p[k + 1]
          /\ \A j \in 1..l : f[k + 1][j] = f[k][j]
      BY <3>1, AppendProperties, LenProperties
    <3> HIDE DEF l
    <3>3. \A j \in 1..l + 1 : j = l + 1 \/ j \in 1..l
      BY <3>2
    <3>4. Open(k + 1)
      <4>1. SUFFICES ASSUME NEW j \in 1..l + 1, f[k + 1][j] = "<"
                     PROVE  \E a \in 1..k + 1 : p[a] = "<" /\ ~InTag(p, a)
        BY <3>2
      <4>2. CASE j = l + 1
        <5>1. k + 1 \in 1..k + 1
          BY <2>1
        <5>2. QED
          BY <2>5, <3>2, <4>1, <4>2, <5>1
      <4>3. CASE j \in 1..l
        <5>1. \A a \in 1..k : a \in 1..k + 1
          BY <2>1
        <5>2. QED
          BY <2>3, <3>2, <4>1, <4>3, <5>1 DEF l
      <4>4. QED
        BY <3>3, <4>2, <4>3
    <3>5. ASSUME NEW x \in 1..l + 1, NEW y \in 1..l + 1, x < y, f[k + 1][x] = "<", f[k + 1][y] = ">"
          PROVE  FALSE
      <4>1. x \in 1..l
        BY <3>2, <3>5
      <4>2. f[k][x] = "<"
        BY <3>2, <3>5, <4>1
      <4>3. CASE y \in 1..l
        <5>1. f[k][y] = ">"
          BY <3>2, <3>5, <4>3
        <5>2. QED
          BY <2>3, <3>5, <4>1, <4>2, <4>3, <5>1 DEF Tagless, l
      <4>4. CASE y = l + 1
        <5>1. p[k + 1] = ">"
          BY <3>2, <3>5, <4>4
        <5>2. PICK a \in 1..k : p[a] = "<" /\ ~InTag(p, a)
          BY <2>3, <4>1, <4>2 DEF l
        <5>3. a \in 1..a /\ k + 1 \in a..Len(p) /\ a < k + 1 /\ a..a - 1 = {}
          BY <1>2, <2>1
        <5>4. InTag(p, a)
          BY <5>1, <5>2, <5>3 DEF InTag
        <5>5. QED
          BY <5>2, <5>4
      <4>5. QED
        BY <3>3, <4>3, <4>4
    <3>6. Tagless(f[k + 1])
      BY <3>2, <3>5 DEF Tagless
    <3>7. QED
      BY <2>1, <3>4, <3>6
  <2>6. QED
    BY <2>4, <2>5
<1> HIDE DEF T
<1>5. \A k \in 0..Len(p) : k \in T
  BY <1>2, <1>3, <1>4, InductionUpTo
<1>6. Len(p) \in 0..Len(p)
  BY <1>2
<1>7. QED
  BY <1>1, <1>5, <1>6 DEF T, Strips

\* Nothing is stripped from a text without tags.
LEMMA StripTagless ==
  ASSUME NEW t \in Seq(Token), Tagless(t)
  PROVE  StripHtmlTags(t) = t
<1>1. PICK f : Strips(f, t)
  BY StripIs
<1>2. ASSUME NEW i \in 1..Len(t), InTag(t, i) PROVE FALSE
  <2>1. PICK a \in 1..i, b \in i..Len(t) : a < b /\ t[a] = "<" /\ t[b] = ">"
    BY <1>2 DEF InTag
  <2>2. a \in 1..Len(t) /\ b \in 1..Len(t)
    BY LenProperties
  <2>3. QED
    BY <2>1, <2>2 DEF Tagless
<1>3. \A i \in 1..Len(t) : f[i] = Append(f[i - 1], t[i])
  BY <1>1, <1>2 DEF Strips, StripStep
<1>4. QED
  BY <1>1, <1>3, CopyIs DEF Strips

\* What is between the tags, without white space around it.
Bare(t) == Tagless(t) /\ (t = <<>> \/ (t[1] # " " /\ t[Len(t)] # " "))

\* Trimming keeps a text without tags so, and ends with no white space.
LEMMA TrimBare ==
  ASSUME NEW p \in Seq(Token), Tagless(p)
  PROVE  Bare(Trim(p))
<1>1. CASE Trim(p) = <<>>
  <2>1. Len(<<>>) = 0 /\ 1..0 = {}
    OBVIOUS
  <2>2. Tagless(<<>>)
    BY <2>1 DEF Tagless
  <2>3. QED
    BY <1>1, <2>2 DEF Bare
<1>2. ASSUME NEW m \in 1..Len(p), NEW k \in m..Len(p), Trim(p) = SubSeq(p, m, k), p[m] # " ", p[k] # " "
      PROVE  Bare(Trim(p))
  <2> DEFINE t == SubSeq(p, m, k)
  <2>1. Len(t) = k - m + 1 /\ \A i \in 1..k - m + 1 : t[i] = p[m + i - 1]
    BY SubSeqIs
  <2> HIDE DEF t
  <2>2. Len(p) \in Nat /\ m \in Nat /\ k \in Nat /\ m <= k /\ k <= Len(p) /\ 1 <= m
    OBVIOUS
  <2>3. t[1] = p[m] /\ t[Len(t)] = p[k]
    <3>1. 1 \in 1..k - m + 1 /\ k - m + 1 \in 1..k - m + 1 /\ m + 1 - 1 = m /\ m + (k - m + 1) - 1 = k
      BY <2>2
    <3>2. QED
      BY <2>1, <3>1
  <2>4. ASSUME NEW a \in 1..Len(t), NEW b \in 1..Len(t), a < b, t[a] = "<", t[b] = ">"
        PROVE  FALSE
    <3>1. m + a - 1 \in 1..Len(p) /\ m + b - 1 \in 1..Len(p) /\ m + a - 1 < m + b - 1
      BY <2>1, <2>2, <2>4
    <3>2. p[m + a - 1] = "<" /\ p[m + b - 1] = ">"
      BY <2>1, <2>4
    <3>3. QED
      BY <3>1, <3>2 DEF Tagless
  <2>5. Tagless(t)
    BY <2>4 DEF Tagless
  <2>6. QED
    BY <1>2, <2>3, <2>5 DEF Bare, t
<1>3. QED
  BY <1>1, <1>2, TrimIs

\* All that reaches the last step of the pipe is such a text.
LEMMA StrippedBare ==
  ASSUME NEW text \in Seq(Token)
  PROVE  Bare(Stripped(text))
BY StrippedIs, UnescapedType, StripType, StripLeavesNone, TrimBare

\* The pipe takes its own escaping back, unless an entity was split.
LEMMA StrippedAgain ==
  ASSUME NEW s \in Seq(Token), Bare(s), Whole(s)
  PROVE  Stripped(EscapeSpecialChars(s)) = s
<1>1. Unescaped(EscapeSpecialChars(s)) = s
  BY UnescapeEscaped
<1>2. StripHtmlTags(s) = s
  BY StripTagless DEF Bare
<1>3. Trim(s) = s
  BY TrimTwice DEF Bare
<1>4. QED
  BY <1>1, <1>2, <1>3, StrippedIs

\* A text that went through the pipe comes out of it unchanged, unless a tag
\* had split an entity in it.
LEMMA SanitizeAgain ==
  ASSUME NEW text \in Seq(Token), Whole(Stripped(text))
  PROVE  Sanitize(Sanitize(text, FALSE), FALSE) = Sanitize(text, FALSE)
BY SanitizeIs, StrippedType, StrippedBare, StrippedAgain

-----------------------------------------------------------------------------
(* The path of a call (RequestPath). *)

\* Until its handler has run, a call changes nothing; it may have changed something
\* without telling so only once an attempt of it was given up, or failed amid the
\* handler.
NotYetApplied ==
  /\ stage \in {"sent", "guarded", "answered", "ended"}
  /\ call.route = "search" => applied = 0
  /\ applied \in Nat
  /\ late \in Nat
  /\ late > 0 => unsure
  /\ ~unsure => \/ applied = 0
                \/ stage = "answered" /\ status \in {200, 500}
                \/ stage = "ended" /\ told = "ok"

\* Every call starts with nothing applied.
LEMMA NotYetInit == PathInit => NotYetApplied
BY DEF PathInit, NotYetApplied

\* A handler that has not made its change makes it and answers 200 or 500, or makes
\* none.
LEMMA Handled ==
  ASSUME applied \in Nat, NEW s, Handle(s)
  PROVE  /\ applied' = applied \/ (applied' = applied + 1 /\ call.route # "search")
         /\ applied = 0 => applied' = 0 \/ s \in {200, 500}
<1>1. Failure = {500}
  BY DEF Failure, StatusOf
<1>2. CASE UNCHANGED change /\ (applied > 0 \/ s \in Failure \cup {200})
  BY <1>1, <1>2 DEF change
<1>3. CASE call.route # "search" /\ s \in Failure \cup {200} /\ Apply
  BY <1>1, <1>3 DEF Apply
<1>4. QED
  BY <1>2, <1>3 DEF Handle, Repeats

\* What the client makes of the end of an attempt.
LEMMA Retried ==
  ASSUME NEW s, RetryOrEnd(s)
  PROVE  \/ stage' = "sent" /\ (s = 0 \/ s >= 500)
         \/ stage' = "ended" /\ (s = 200 => told' = "ok" \/ call.route = "search")
<1>1. CodeOf(200) = "ok"
  BY DEF CodeOf
<1>2. CASE IsRetryable(s) /\ tries < MaxTries
  BY <1>2 DEF RetryOrEnd, IsRetryable
<1>3. CASE ~(IsRetryable(s) /\ tries < MaxTries)
  <2>1. /\ stage' = "ended"
        /\ told' = IF s = 200 /\ call.route = "search" /\ ~Found THEN "no match" ELSE CodeOf(s)
    BY <1>3 DEF RetryOrEnd
  <2>2. QED
    BY <1>1, <2>1
<1>4. QED
  BY <1>2, <1>3

\* No step applies a change and forgets to tell.
LEMMA NotYetStep == NotYetApplied /\ [PathNext]_pathVars => NotYetApplied'
<1> SUFFICES ASSUME NotYetApplied, [PathNext]_pathVars PROVE NotYetApplied'
  OBVIOUS
<1> USE DEF NotYetApplied
<1>1. ASSUME NEW lag \in Lag, UpdateSheddingState(lag) PROVE NotYetApplied'
  BY <1>1 DEF UpdateSheddingState, attempt, change
<1>2. CASE Guard
  <2>1. /\ UNCHANGED <<call, late, applied, unsure>> /\ stage = "sent"
        /\ stage' \in {"guarded", "answered"}
    BY <1>2 DEF Guard, Answer, change
  <2>2. QED
    BY <2>1
<1>3. CASE Shed
  BY <1>3 DEF Shed, Answer, change
<1>4. CASE Run
  <2>1. /\ stage = "guarded" /\ stage' = "answered" /\ UNCHANGED <<call, late, unsure>>
    BY <1>4 DEF Run, Answer
  <2>2. CASE Validated
    <3>1. PICK s \in {200, 404, 409, 500} : Handle(s) /\ Answer(s)
      BY <1>4, <2>2 DEF Run
    <3>2. status' = s
      BY <3>1 DEF Answer
    <3>3. /\ applied' = applied \/ (applied' = applied + 1 /\ call.route # "search")
          /\ applied = 0 => applied' = 0 \/ s \in {200, 500}
      BY <3>1, Handled
    <3>4. QED
      BY <2>1, <3>2, <3>3
  <2>3. CASE ~Validated
    BY <1>4, <2>1, <2>3 DEF Run, change
  <2>4. QED
    BY <2>2, <2>3
<1>5. CASE RunLate
  <2>1. /\ late > 0 /\ late' = late - 1 /\ UNCHANGED <<call, stage, status, told, unsure>>
    BY <1>5 DEF RunLate, attempt
  <2>2. applied' = applied \/ (applied' = applied + 1 /\ call.route # "search")
    <3>1. applied' = applied \/ \E s \in {200, 404, 409, 500} : Handle(s)
      BY <1>5 DEF RunLate, change
    <3>2. QED
      BY <3>1, Handled
  <2>3. QED
    BY <2>1, <2>2
<1>6. ASSUME NEW c, NEW text, Begin(c, text) PROVE NotYetApplied'
  BY <1>6 DEF Begin
<1>7. CASE Receive
  <2>1. /\ stage = "answered" /\ (unsure => unsure') /\ (status = 500 => unsure')
        /\ UNCHANGED <<call, late, applied>> /\ RetryOrEnd(status)
    BY <1>7 DEF Receive, change
  <2>2. \/ stage' = "sent" /\ (status = 0 \/ status >= 500)
        \/ stage' = "ended" /\ (status = 200 => told' = "ok" \/ call.route = "search")
    BY <2>1, Retried
  <2>3. QED
    BY <2>1, <2>2
<1>8. CASE Lose
  <2>1. /\ unsure' = TRUE /\ UNCHANGED <<call, applied>> /\ late' \in Nat /\ RetryOrEnd(0)
    BY <1>8 DEF Lose, change
  <2>2. stage' \in {"sent", "ended"}
    BY <2>1, Retried
  <2>3. QED
    BY <2>1, <2>2
<1>9. CASE UNCHANGED pathVars
  BY <1>9 DEF pathVars, attempt, change
<1>10. QED
  BY <1>1, <1>2, <1>3, <1>4, <1>5, <1>6, <1>7, <1>8, <1>9 DEF PathNext, Post, Search, Ended

\* A caller told that its call was refused or shed has changed nothing, however
\* its attempts were lost, repeated or run late before.
THEOREM RefusalIsFinal == PathSpec => []RefusedIsNotApplied
<1>1. NotYetApplied => RefusedIsNotApplied
  BY DEF NotYetApplied, RefusedIsNotApplied
<1>2. QED
  BY <1>1, NotYetInit, NotYetStep, PTL DEF PathSpec

-----------------------------------------------------------------------------
(* The types of the path, and the copied text. *)

\* Every attempt given up, and the one under way, was tried.
PathTypes ==
  /\ PathTypeOK
  /\ late + (IF stage # "ended" THEN 1 ELSE 0) <= tries

\* What is stored went through the pipe once; a search is for what is stored,
\* and only a search that went through the pipe otherwise has no match.
CopyInv ==
  /\ stored # NoText => stored = Sanitize(source, FALSE)
  /\ call.route = "search" => typed = stored /\ stored # NoText
  /\ told = "no match" => call.route = "search" /\ ~Found

\* What a caller is told of an answer, but for a search.
Codes == {"network", "ok", "validation", "unauthorized", "forbidden", "not found", "duplicate",
          "content type", "rate limited", "internal", "unavailable"}

\* The client knows every status of the guards, and has a code for each.
LEMMA CodesKnown ==
  /\ \A s \in Status : CodeOf(s) \in Message \ {"no match"}
  /\ \A limited \in BOOLEAN : GuardStatus(limited) \in Status
<1>1. \A s \in Status : CodeOf(s) \in Message \ {"no match"}
  <2>1. CodeOf(0) \in Codes
    BY DEF CodeOf, Codes
  <2>2. CodeOf(200) \in Codes
    BY DEF CodeOf, Codes
  <2>3. CodeOf(400) \in Codes
    BY DEF CodeOf, Codes
  <2>4. CodeOf(401) \in Codes
    BY DEF CodeOf, Codes
  <2>5. CodeOf(403) \in Codes
    BY DEF CodeOf, Codes
  <2>6. CodeOf(404) \in Codes
    BY DEF CodeOf, Codes
  <2>7. CodeOf(409) \in Codes
    BY DEF CodeOf, Codes
  <2>8. CodeOf(415) \in Codes
    BY DEF CodeOf, Codes
  <2>9. CodeOf(429) \in Codes
    BY DEF CodeOf, Codes
  <2>10. CodeOf(500) \in Codes
    BY DEF CodeOf, Codes
  <2>11. CodeOf(503) \in Codes
    BY DEF CodeOf, Codes
  <2>12. Codes \subseteq Message \ {"no match"}
    BY DEF Message, Codes
  <2>13. \A s \in Status : CodeOf(s) \in Codes
    BY <2>1, <2>2, <2>3, <2>4, <2>5, <2>6, <2>7, <2>8, <2>9, <2>10, <2>11 DEF Status
  <2>14. QED
    BY <2>12, <2>13
<1>2. \A limited \in BOOLEAN : GuardStatus(limited) \in Status
  BY DEF GuardStatus, Status
<1>3. QED
  BY <1>1, <1>2

\* The change that a handler makes to the texts.
LEMMA HandledTexts ==
  ASSUME NEW s, Handle(s)
  PROVE  \/ UNCHANGED change
         \/ /\ applied' = applied + 1 /\ call.route # "search"
            /\ \/ UNCHANGED <<stored, source>>
               \/ stored' = Sanitize(typed, FALSE) /\ source' = typed
<1>1. CASE call.route # "search" /\ Apply
  BY <1>1 DEF Apply
<1>2. QED
  BY <1>1 DEF Handle

\* What becomes of the number of attempts.
LEMMA RetriedTypes ==
  ASSUME NEW s \in Status, tries \in 0..MaxTries, told \in Message, RetryOrEnd(s)
  PROVE  /\ stage' \in {"sent", "ended"} /\ status' = 0
         /\ tries' \in 0..MaxTries
         /\ tries' = IF stage' = "sent" THEN tries + 1 ELSE tries
         /\ told' \in Message
         /\ told' = told \/ told' # "no match" \/ (call.route = "search" /\ ~Found)
<1>1. CASE IsRetryable(s) /\ tries < MaxTries
  <2>1. stage' = "sent" /\ tries' = tries + 1 /\ told' = told /\ status' = 0
    BY <1>1 DEF RetryOrEnd
  <2>2. tries + 1 \in 0..MaxTries
    BY <1>1, PathConstantsOK
  <2>3. QED
    BY <2>1, <2>2
<1>2. CASE ~(IsRetryable(s) /\ tries < MaxTries)
  <2>1. /\ stage' = "ended" /\ tries' = tries /\ status' = 0
        /\ told' = IF s = 200 /\ call.route = "search" /\ ~Found THEN "no match" ELSE CodeOf(s)
    BY <1>2 DEF RetryOrEnd
  <2>2. CodeOf(s) \in Message /\ CodeOf(s) # "no match" /\ "no match" \in Message
    BY CodesKnown DEF Message
  <2>3. QED
    BY <2>1, <2>2
<1>3. QED
  BY <1>1, <1>2

\* Nothing is stored and nothing called at first.
LEMMA PathInitTypes == PathInit => PathTypes /\ CopyInv
<1> SUFFICES ASSUME PathInit PROVE PathTypes /\ CopyInv
  OBVIOUS
<1>1. NoText \in Seq(Token)
  BY DEF NoText
<1>2. MaxTries \in Nat \ {0} /\ MaxCalls \in Nat
  BY PathConstantsOK
<1>3. PathTypes
  <2>1. /\ shedding = FALSE /\ call = NoCall /\ stage = "ended" /\ status = 0 /\ tries = 0
        /\ told = "nothing" /\ unsure = FALSE /\ late = 0 /\ applied = 0 /\ calls = 0
        /\ stored = NoText /\ typed = NoText /\ source = NoText
    BY DEF PathInit
  <2>2. 0 \in 0..MaxTries /\ 0 \in 0..MaxCalls
    BY <1>2
  <2>3. stored \in Seq(Token) /\ typed \in Seq(Token) /\ source \in Seq(Token)
    BY <1>1, <2>1
  <2>4. late + (IF stage # "ended" THEN 1 ELSE 0) <= tries
    BY <2>1
  <2>5. /\ shedding \in BOOLEAN /\ unsure \in BOOLEAN /\ call \in Call \cup {NoCall}
    BY <2>1
  <2>6. tries \in 0..MaxTries /\ late \in 0..MaxTries /\ calls \in 0..MaxCalls /\ applied \in Nat
    BY <2>1, <2>2
  <2>7. status \in Status /\ told \in Message
    BY <2>1 DEF Status, Message
  <2>8. QED
    BY <2>1, <2>3, <2>4, <2>5, <2>6, <2>7 DEF PathTypes, PathTypeOK
<1>4. NoCall.route = "none"
  BY DEF NoCall
<1>5. CopyInv
  BY <1>4 DEF PathInit, CopyInv
<1>6. QED
  BY <1>3, <1>5

\* Every step of the path keeps the types and what is known of the texts.
LEMMA PathTypesStep == PathTypes /\ CopyInv /\ NotYetApplied /\ [PathNext]_pathVars => PathTypes' /\ CopyInv'
<1> SUFFICES ASSUME PathTypes, CopyInv, NotYetApplied, [PathNext]_pathVars PROVE PathTypes' /\ CopyInv'
  OBVIOUS
<1>c. MaxTries \in Nat \ {0} /\ MaxCalls \in Nat /\ Lag \subseteq Nat /\ Text \subseteq Seq(Token)
  BY PathConstantsOK
<1>t. /\ shedding \in BOOLEAN /\ call \in Call \cup {NoCall}
      /\ stage \in {"sent", "guarded", "answered", "ended"} /\ status \in Status
      /\ tries \in 0..MaxTries /\ late \in 0..MaxTries /\ applied \in Nat /\ told \in Message
      /\ stored \in Seq(Token) /\ typed \in Seq(Token) /\ source \in Seq(Token)
      /\ calls \in 0..MaxCalls /\ unsure \in BOOLEAN
      /\ late + (IF stage # "ended" THEN 1 ELSE 0) <= tries
  BY DEF PathTypes, PathTypeOK
<1> DEFINE Typed == /\ shedding \in BOOLEAN /\ call \in Call \cup {NoCall}
                    /\ stage \in {"sent", "guarded", "answered", "ended"} /\ status \in Status
                    /\ tries \in 0..MaxTries /\ late \in 0..MaxTries /\ applied \in Nat /\ told \in Message
                    /\ stored \in Seq(Token) /\ typed \in Seq(Token) /\ source \in Seq(Token)
                    /\ calls \in 0..MaxCalls /\ unsure \in BOOLEAN
                    /\ late + (IF stage # "ended" THEN 1 ELSE 0) <= tries
<1>p. Typed' => PathTypes'
  BY DEF PathTypes, PathTypeOK
<1>f. UNCHANGED <<typed, stored>> => (Found' <=> Found)
  BY DEF Found
<1>1. ASSUME NEW lag \in Lag, UpdateSheddingState(lag) PROVE PathTypes' /\ CopyInv'
  <2>1. UNCHANGED <<call, attempt, late, change, calls, typed>>
        /\ shedding' = IF shedding THEN lag >= RecoveryThreshold ELSE lag > ShedThreshold
    BY <1>1 DEF UpdateSheddingState
  <2>2. shedding' \in BOOLEAN
    <3>1. (lag >= RecoveryThreshold) \in BOOLEAN /\ (lag > ShedThreshold) \in BOOLEAN
      OBVIOUS
    <3>2. QED
      BY <2>1, <3>1
  <2>3. Typed'
    BY <1>t, <2>1, <2>2 DEF attempt, change
  <2>4. CopyInv'
    BY <1>f, <2>1 DEF CopyInv, attempt, change
  <2>5. QED
    BY <1>p, <2>3, <2>4
<1>2. CASE Guard
  <2>1. /\ UNCHANGED <<shedding, call, late, change, calls, typed, tries, told, unsure>> /\ stage = "sent"
        /\ stage' \in {"guarded", "answered"} /\ status' \in Status
    BY <1>2, <1>t, CodesKnown DEF Guard, Answer
  <2>2. Typed'
    BY <1>t, <2>1 DEF change
  <2>3. CopyInv'
    BY <1>f, <2>1 DEF CopyInv, change
  <2>4. QED
    BY <1>p, <2>2, <2>3
<1>3. CASE Shed
  <2>1. /\ UNCHANGED <<shedding, call, late, change, calls, typed, tries, told, unsure>> /\ stage = "guarded"
        /\ stage' = "answered" /\ status' \in Status
    BY <1>3 DEF Shed, Answer, Status
  <2>2. Typed'
    BY <1>t, <2>1 DEF change
  <2>3. CopyInv'
    BY <1>f, <2>1 DEF CopyInv, change
  <2>4. QED
    BY <1>p, <2>2, <2>3
<1>4. ASSUME UNCHANGED change \/ \E s : Handle(s), UNCHANGED <<call, typed, told>>
      PROVE  /\ applied' \in Nat /\ stored' \in Seq(Token) /\ typed' \in Seq(Token) /\ source' \in Seq(Token)
             /\ CopyInv'
  <2>1. CASE UNCHANGED change
    BY <1>4, <1>f, <1>t, <2>1 DEF CopyInv, change
  <2>2. CASE ~UNCHANGED change
    <3>1. PICK s : Handle(s)
      BY <1>4, <2>2
    <3>2. /\ applied' = applied + 1 /\ call.route # "search"
          /\ \/ UNCHANGED <<stored, source>>
             \/ stored' = Sanitize(typed, FALSE) /\ source' = typed
      BY <2>2, <3>1, HandledTexts
    <3>3. Sanitize(typed, FALSE) \in Seq(Token)
      BY <1>t, SanitizeType
    <3>4. /\ applied' \in Nat /\ stored' \in Seq(Token) /\ typed' \in Seq(Token) /\ source' \in Seq(Token)
      <4>1. applied' \in Nat
        BY <1>t, <3>2
      <4>2. stored' \in Seq(Token) /\ source' \in Seq(Token)
        BY <1>t, <3>2, <3>3
      <4>3. typed' \in Seq(Token)
        BY <1>4, <1>t
      <4>4. QED
        BY <4>1, <4>2, <4>3
    <3>5. stored' # NoText => stored' = Sanitize(source', FALSE)
      <4>1. CASE UNCHANGED <<stored, source>>
        BY <4>1 DEF CopyInv
      <4>2. CASE stored' = Sanitize(typed, FALSE) /\ source' = typed
        BY <4>2
      <4>3. QED
        BY <3>2, <4>1, <4>2
    <3>6. call'.route # "search" /\ told' # "no match"
      BY <1>4, <3>2 DEF CopyInv
    <3>7. QED
      BY <3>4, <3>5, <3>6 DEF CopyInv, NoText
  <2>3. QED
    BY <2>1, <2>2
<1>5. CASE Run
  <2>1. /\ UNCHANGED <<shedding, call, late, calls, typed, tries, told, unsure>> /\ stage = "guarded"
        /\ stage' = "answered" /\ status' \in Status
        /\ UNCHANGED change \/ \E s : Handle(s)
    BY <1>5 DEF Run, Answer, Status
  <2>2. applied' \in Nat /\ stored' \in Seq(Token) /\ typed' \in Seq(Token) /\ source' \in Seq(Token) /\ CopyInv'
    BY <1>4, <2>1
  <2>3. Typed'
    BY <1>t, <2>1, <2>2
  <2>4. QED
    BY <1>p, <2>2, <2>3
<1>6. CASE RunLate
  <2>1. /\ UNCHANGED <<shedding, call, calls, typed, attempt>> /\ late > 0 /\ late' = late - 1
        /\ UNCHANGED change \/ \E s : Handle(s)
    <3>1. /\ UNCHANGED <<shedding, call, calls, typed, attempt>> /\ late > 0 /\ late' = late - 1
      BY <1>6, Zenon DEF RunLate
    <3>2. UNCHANGED change \/ \E s \in {200, 404, 409, 500} : Handle(s)
      BY <1>6 DEF RunLate
    <3>3. QED
      BY <3>1, <3>2
  <2>2. applied' \in Nat /\ stored' \in Seq(Token) /\ typed' \in Seq(Token) /\ source' \in Seq(Token) /\ CopyInv'
    BY <1>4, <2>1 DEF attempt
  <2>3. late' \in 0..MaxTries /\ late' + (IF stage # "ended" THEN 1 ELSE 0) <= tries
    BY <1>c, <1>t, <2>1
  <2>4. Typed'
    BY <1>t, <2>1, <2>2, <2>3 DEF attempt
  <2>5. QED
    BY <1>p, <2>2, <2>4
<1>7. ASSUME NEW c \in Call, NEW text \in Seq(Token), Begin(c, text),
             c.route = "search" => text = stored /\ stored # NoText
      PROVE  PathTypes' /\ CopyInv'
  <2>1. /\ call' = c /\ typed' = text /\ stage' = "sent" /\ status' = 0 /\ tries' = 1 /\ told' = "nothing"
        /\ unsure' = FALSE /\ applied' = 0 /\ calls' = calls + 1 /\ calls < MaxCalls /\ late = 0
        /\ UNCHANGED <<shedding, late, stored, source>>
    BY <1>7 DEF Begin
  <2>2. calls' \in 0..MaxCalls /\ tries' \in 0..MaxTries /\ late' + 1 <= tries'
    BY <1>c, <1>t, <2>1
  <2>3. 0 \in Status /\ "nothing" \in Message
    BY DEF Status, Message
  <2>4. Typed'
    BY <1>t, <2>1, <2>2, <2>3
  <2>5. CopyInv'
    BY <1>7, <2>1 DEF CopyInv
  <2>6. QED
    BY <1>p, <2>4, <2>5
<1>8. CASE Post
  <2>1. PICK c \in Call : \/ c.route = "create" /\ \E text \in Text : Begin(c, text)
                          \/ c.route \in {"webhook", "retry"} /\ Begin(c, NoText)
    BY <1>8 DEF Post
  <2>2. NoText \in Seq(Token)
    BY DEF NoText
  <2>3. QED
    BY <1>7, <1>c, <2>1, <2>2
<1>9. CASE Search
  <2>1. PICK c \in Call : stored # NoText /\ Begin(c, stored)
    BY <1>9 DEF Search
  <2>2. QED
    BY <1>7, <1>t, <2>1
<1>10. ASSUME NEW s \in Status, RetryOrEnd(s), UNCHANGED <<shedding, call, change, calls, typed>>,
              unsure' \in BOOLEAN, late' \in Nat, late' <= late + 1,
              late' = late \/ stage # "ended", stage # "ended"
       PROVE  PathTypes' /\ CopyInv'
  <2>1. /\ stage' \in {"sent", "ended"} /\ status' = 0
        /\ tries' \in 0..MaxTries
        /\ tries' = IF stage' = "sent" THEN tries + 1 ELSE tries
        /\ told' \in Message
        /\ told' = told \/ told' # "no match" \/ (call.route = "search" /\ ~Found)
    BY <1>10, <1>t, RetriedTypes
  <2>2. late' \in 0..MaxTries /\ late' + (IF stage' # "ended" THEN 1 ELSE 0) <= tries'
    <3>0. \A x, y \in Nat : x <= y => x + 1 <= y + 1 /\ x + 0 <= y
      OBVIOUS
    <3>1. late + 1 <= tries /\ late \in Nat /\ tries \in Nat /\ tries <= MaxTries
      BY <1>10, <1>t
    <3>2. late' \in Nat /\ late' <= tries
      BY <1>10, <3>1
    <3>3. late' \in 0..MaxTries
      BY <1>c, <3>1, <3>2
    <3>4. late' + (IF stage' # "ended" THEN 1 ELSE 0) <= tries'
      <4>1. CASE stage' = "sent"
        <5>1. tries' = tries + 1
          BY <2>1, <4>1
        <5>2. late' + 1 <= tries'
          BY <3>0, <3>1, <3>2, <5>1, Zenon
        <5>3. QED
          BY <4>1, <5>2
      <4>2. CASE stage' = "ended"
        <5>1. tries' = tries
          BY <2>1, <4>2
        <5>2. late' + 0 <= tries'
          BY <3>0, <3>1, <3>2, <5>1, Zenon
        <5>3. QED
          BY <4>2, <5>2
      <4>3. QED
        BY <2>1, <4>1, <4>2
    <3>5. QED
      BY <3>3, <3>4
  <2>3. 0 \in Status
    BY DEF Status
  <2>4. Typed'
    BY <1>10, <1>t, <2>1, <2>2, <2>3 DEF change
  <2>5. CopyInv'
    BY <1>10, <1>f, <2>1 DEF CopyInv, change
  <2>6. QED
    BY <1>p, <2>4, <2>5
<1>11. CASE Receive
  <2>1. /\ stage = "answered" /\ RetryOrEnd(status) /\ UNCHANGED <<shedding, call, late, change, calls, typed>>
        /\ unsure' \in BOOLEAN
    BY <1>11, <1>t DEF Receive
  <2>2. late' \in Nat /\ late' <= late + 1
    BY <1>t, <2>1
  <2>3. QED
    BY <1>10, <1>t, <2>1, <2>2
<1>12. CASE Lose
  <2>1. /\ stage # "ended" /\ RetryOrEnd(0) /\ UNCHANGED <<shedding, call, change, calls, typed>>
        /\ unsure' = TRUE /\ late' \in {late, late + 1}
    BY <1>12 DEF Lose
  <2>2. late' \in Nat /\ late' <= late + 1 /\ 0 \in Status
    BY <1>t, <2>1 DEF Status
  <2>3. QED
    BY <1>10, <2>1, <2>2
<1>13. CASE UNCHANGED pathVars
  <2>1. UNCHANGED <<shedding, call, attempt, late, change, calls, typed>>
    BY <1>13 DEF pathVars
  <2>2. Typed'
    BY <1>t, <2>1 DEF attempt, change
  <2>3. CopyInv'
    BY <1>f, <2>1 DEF CopyInv, attempt, change
  <2>4. QED
    BY <1>p, <2>2, <2>3
<1>14. QED
  BY <1>1, <1>2, <1>3, <1>5, <1>6, <1>8, <1>9, <1>11, <1>12, <1>13 DEF PathNext, Ended

\* The types and the texts of the path are as described in every state.
LEMMA PathInvariant == PathSpec => [](PathTypes /\ CopyInv)
BY NotYetInit, NotYetStep, PathInitTypes, PathTypesStep, PTL DEF PathSpec

\* Every variable of the path stays in its set; of the attempts given up, no
\* more run late than were tried.
THEOREM PathTypeCorrect == PathSpec => []PathTypeOK
<1>1. PathTypes => PathTypeOK
  BY DEF PathTypes
<1>2. QED
  BY <1>1, PathInvariant, PTL

\* A text copied from the list finds its enquiry, for any text in which no tag
\* had split an entity: the pipe takes back its own escaping and adds it again.
THEOREM CopiedTextIsFound == PathSpec => []CopiedTextFinds
<1>1. PathTypes /\ CopyInv => CopiedTextFinds
  <2> SUFFICES ASSUME PathTypes, CopyInv, told = "no match", ~Joined(source) PROVE FALSE
    BY DEF CopiedTextFinds
  <2>1. source \in Seq(Token) /\ typed = stored /\ stored = Sanitize(source, FALSE) /\ ~Found
    BY DEF PathTypes, PathTypeOK, CopyInv
  <2>2. Whole(Stripped(source))
    BY DEF Joined, Whole, Split
  <2>3. Sanitize(Sanitize(source, FALSE), FALSE) = Sanitize(source, FALSE)
    BY <2>1, <2>2, SanitizeAgain
  <2>4. QED
    BY <2>1, <2>3 DEF Found
<1>2. QED
  BY <1>1, PathInvariant, PTL
=============================================================================
