---------------------- MODULE EnquirySubmissionProofs ----------------------
(***************************************************************************)
(* Safety of POST /enquiry for any number of requests, workers, keys and   *)
(* pairs and any window.                                                   *)
(***************************************************************************)
EXTENDS EnquirySubmission, TLAPS

\* The steps on the idempotency key are reached only with one.
KeyPresent == \A r \in Request : pc[r] \in {"checkKey", "storeKey"} => key[r] \in Key

TypeInv == TypeOK /\ KeyPresent

\* Every initial state has the types, and every request a key slot.
LEMMA TypeInit == Init => TypeInv
BY ConstantsOK DEF Init, TypeInv, KeyPresent, TypeOK, IdemEntry, NoIdemEntry

\* Answering a request keeps its stage, outcome and answer in their sets.
LEMMA RespondTypes ==
  ASSUME TypeInv, NEW r \in Request, NEW result \in Outcome,
         NEW enquiry \in Request \cup {NoEnquiry}, Respond(r, result, enquiry),
         UNCHANGED inputs
  PROVE  /\ pc' \in [Request -> Stage \cup {"idle", "done"}]
         /\ outcome' \in [Request -> Outcome \cup {"none"}]
         /\ answer' \in [Request -> Request \cup {NoEnquiry}]
         /\ KeyPresent'
BY DEF TypeInv, TypeOK, KeyPresent, Respond, Goto, inputs

\* Going on to another await keeps the stages in their set.
LEMMA ContinueTypes ==
  ASSUME TypeInv, NEW r \in Request, NEW stage \in Stage, Continue(r, stage),
         stage \in {"checkKey", "storeKey"} => key[r] \in Key,
         UNCHANGED inputs
  PROVE  /\ pc' \in [Request -> Stage \cup {"idle", "done"}]
         /\ outcome' \in [Request -> Outcome \cup {"none"}]
         /\ answer' \in [Request -> Request \cup {NoEnquiry}]
         /\ KeyPresent'
BY DEF TypeInv, TypeOK, KeyPresent, Continue, Goto, inputs, response

\* The absent idempotency entry is an entry.
LEMMA NoEntry == NoIdemEntry \in IdemEntry
BY DEF NoIdemEntry, IdemEntry

\* What the two ways of SetDuplicateMarker write, Redis's and the worker's.
LEMMA MarkerCases ==
  ASSUME NEW r \in Request, SetDuplicateMarker(r)
  PROVE  /\ MarkRedis(pair[r]) \/ UNCHANGED marker
         /\ \/ UNCHANGED <<healthy, fallback>>
            \/ /\ MarkMemory(worker[r], pair[r])
               /\ healthy' = [healthy EXCEPT ![worker[r]] = FALSE]
         /\ Continue(r, "enqueue")
         /\ UNCHANGED <<inputs, seen, dbVars, idem, jobs, now>>
BY DEF SetDuplicateMarker, processVars

\* No step of the handler or of its environment leaves the types.
LEMMA TypeStep == TypeInv /\ [Next]_vars => TypeInv'
<1> SUFFICES ASSUME TypeInv, [Next]_vars PROVE TypeInv'
  OBVIOUS
<1> USE DEF TypeInv, TypeOK, Outcome, inputs, response, dbVars, redisVars, processVars
<1>1. ASSUME NEW r \in Request, Arrive(r) PROVE TypeInv'
  BY <1>1, ContinueTypes DEF Arrive, Stage
<1>2. ASSUME NEW r \in Request, GetIdempotencyResponse(r) PROVE TypeInv'
  <2>1. CASE Continue(r, "checkMarker")
    BY <1>2, <2>1, ContinueTypes DEF GetIdempotencyResponse, Stage
  <2>2. CASE Respond(r, "replayed", idem[key[r]].id)
    <3>1. idem[key[r]].id \in Request \cup {NoEnquiry}
      BY <1>2 DEF GetIdempotencyResponse, IdemEntry, KeyPresent
    <3>2. QED
      BY <1>2, <2>2, <3>1, RespondTypes DEF GetIdempotencyResponse
  <2>3. QED
    BY <1>2, <2>1, <2>2 DEF GetIdempotencyResponse
<1>3. ASSUME NEW r \in Request, IsDuplicate(r) PROVE TypeInv'
  <2>1. CASE Continue(r, "findDuplicate")
    BY <1>3, <2>1, ContinueTypes DEF IsDuplicate, Stage
  <2>2. CASE Respond(r, "duplicate", NoEnquiry)
    BY <1>3, <2>2, RespondTypes DEF IsDuplicate
  <2>3. QED
    BY <1>3, <2>1, <2>2 DEF IsDuplicate, AfterMarker
<1>4. ASSUME NEW r \in Request, FindDuplicate(r) PROVE TypeInv'
  <2>1. CASE Continue(r, "insert")
    BY <1>4, <2>1, ContinueTypes DEF FindDuplicate, Stage
  <2>2. ASSUME NEW result \in {"duplicate", "error"}, Respond(r, result, NoEnquiry)
        PROVE  TypeInv'
    BY <1>4, <2>2, RespondTypes DEF FindDuplicate
  <2>3. QED
    BY <1>4, <2>1, <2>2 DEF FindDuplicate
<1>5. ASSUME NEW r \in Request, CreateInTransaction(r) PROVE TypeInv'
  <2>1. stored' \in SUBSET Request /\ createdAt' \in [Request -> Nat]
    BY <1>5 DEF CreateInTransaction, InsertRow
  <2>2. CASE Continue(r, AfterInsert(r))
    <3>1. /\ AfterInsert(r) \in Stage \ {"checkKey"}
          /\ AfterInsert(r) = "storeKey" => key[r] \in Key
      BY DEF AfterInsert, Stage
    <3>2. QED
      BY <1>5, <2>1, <2>2, <3>1, ContinueTypes DEF CreateInTransaction
  <2>3. ASSUME NEW result \in {"uniqueConflict", "error"}, Respond(r, result, NoEnquiry)
        PROVE  TypeInv'
    BY <1>5, <2>1, <2>3, RespondTypes DEF CreateInTransaction
  <2>4. QED
    BY <1>5, <2>2, <2>3 DEF CreateInTransaction
<1>6. ASSUME NEW r \in Request, StoreIdempotencyResponse(r) PROVE TypeInv'
  <2>1. idem' \in [Key -> IdemEntry]
    <3>1. [id |-> r, exp |-> now + IdemTtl] \in IdemEntry
      BY ConstantsOK DEF IdemEntry
    <3>2. QED
      BY <1>6, <3>1 DEF StoreIdempotencyResponse
  <2>2. QED
    BY <1>6, <2>1, ContinueTypes DEF StoreIdempotencyResponse, Stage
<1>7. ASSUME NEW r \in Request, CacheRecord(r) PROVE TypeInv'
  BY <1>7, ContinueTypes DEF CacheRecord, Stage
<1>8. ASSUME NEW r \in Request, SetDuplicateMarker(r) PROVE TypeInv'
  <2>1. marker' \in [Pair -> Nat]
    <3>1. MarkRedis(pair[r]) \/ UNCHANGED marker
      BY <1>8, MarkerCases
    <3>2. now + DupWindow \in Nat
      BY ConstantsOK
    <3>3. QED
      BY <3>1, <3>2 DEF MarkRedis
  <2>2. fallback' \in [Worker -> [Pair -> Nat]] /\ healthy' \in [Worker -> BOOLEAN]
    <3>1. CASE UNCHANGED <<healthy, fallback>>
      BY <3>1
    <3>2. CASE /\ MarkMemory(worker[r], pair[r])
               /\ healthy' = [healthy EXCEPT ![worker[r]] = FALSE]
      BY <3>2, ConstantsOK DEF MarkMemory
    <3>3. QED
      BY <1>8, <3>1, <3>2, MarkerCases
  <2>3. QED
    BY <1>8, <2>1, <2>2, ContinueTypes, MarkerCases DEF Stage
<1>9. ASSUME NEW r \in Request, EnqueueNotifications(r) PROVE TypeInv'
  BY <1>9, RespondTypes DEF EnqueueNotifications
<1>10. ASSUME NEW w \in Worker, RedisHealthChanges(w) PROVE TypeInv'
  BY <1>10 DEF KeyPresent, RedisHealthChanges
<1>11. ASSUME NEW w \in Worker, WorkerCrash(w) PROVE TypeInv'
  BY <1>11 DEF KeyPresent, Stage, WorkerCrash
<1>12. ASSUME RedisLosesWrites PROVE TypeInv'
  <2>1. marker' \in [Pair -> Nat]
    BY <1>12 DEF RedisLosesWrites
  <2>2. idem' \in [Key -> IdemEntry]
    BY <1>12, NoEntry DEF RedisLosesWrites
  <2>3. QED
    BY <1>12, <2>1, <2>2 DEF KeyPresent, RedisLosesWrites
<1>13. ASSUME Tick PROVE TypeInv'
  BY <1>13 DEF KeyPresent, Tick
<1>14. CASE UNCHANGED vars
  BY <1>14 DEF KeyPresent, vars
<1>15. ASSUME NEW w \in Worker, MemoryEvicts(w) PROVE TypeInv'
  BY <1>15 DEF KeyPresent, MemoryEvicts
<1>16. QED
  BY <1>1, <1>2, <1>3, <1>4, <1>5, <1>6, <1>7, <1>8, <1>9, <1>10, <1>11, <1>12,
     <1>13, <1>14, <1>15 DEF Next, Handle

\* The types are an invariant.
LEMMA TypeInvariant == Spec => []TypeInv
BY TypeInit, TypeStep, PTL DEF Spec

\* Type correctness of the submission handler, its stores and its clock.
THEOREM TypeCorrect == Spec => []TypeOK
<1>1. TypeInv => TypeOK
  BY DEF TypeInv
<1>2. QED
  BY <1>1, TypeInvariant, PTL

-----------------------------------------------------------------------------
Before == {"idle", "checkKey", "checkMarker", "findDuplicate", "insert"}
After  == {"storeKey", "cacheRecord", "setMarker", "enqueue"}

\* The row of a request appears at its insert, and the steps behind the insert
\* are reached only with it.
InsertedAtInsert ==
    \A r \in Request : (pc[r] \in Before => r \notin stored) /\ (pc[r] \in After => r \in stored)

\* What a request saw at its arrival stays committed, and no row is of the future.
HistoryOK ==
    /\ \A r \in Request : seen[r] \subseteq stored
    /\ \A e \in stored : createdAt[e] <= now

\* A request about to insert has read that the rows it saw are out of the window;
\* time only takes them further away.
WindowPassed ==
    \A f \in Request : pc[f] = "insert" =>
        \A e \in seen[f] : pair[e] = pair[f] => createdAt[e] + DupWindow <= now

RowInv ==
    /\ InsertedAtInsert
    /\ HistoryOK
    /\ WindowPassed
    /\ NoSequentialDuplicate
    /\ OneRecordPerKey

\* The empty table satisfies what is proved of its rows.
LEMMA RowInit == Init => RowInv
BY DEF Init, RowInv, InsertedAtInsert, HistoryOK, WindowPassed, Before, After,
       NoSequentialDuplicate, OneRecordPerKey

\* The steps that neither insert a row nor start a request.
LEMMA RowsUnchanged ==
  ASSUME TypeInv, RowInv, UNCHANGED <<inputs, seen, dbVars>>, now' \in Nat, now <= now',
         \A r \in Request : \/ pc'[r] = pc[r]
                            \/ pc'[r] = "done"
                            \/ pc[r] \in Before /\ pc'[r] \in Before \ {"insert"}
                            \/ pc[r] \in After /\ pc'[r] \in After
                            \/ /\ pc[r] \in Before /\ pc'[r] = "insert"
                               /\ ~RecentRow(pair[r]) /\ now' = now
  PROVE  RowInv'
<1> USE DEF RowInv, TypeInv, TypeOK, inputs, dbVars
<1>1. InsertedAtInsert'
  BY DEF InsertedAtInsert, Before, After
<1>2. HistoryOK'
  BY DEF HistoryOK
<1>3. WindowPassed'
  <2> SUFFICES ASSUME NEW f \in Request, pc'[f] = "insert", NEW e \in seen[f],
                      pair[e] = pair[f]
               PROVE  createdAt[e] + DupWindow <= now'
    BY DEF WindowPassed
  <2>1. e \in stored /\ createdAt[e] \in Nat
    BY DEF HistoryOK
  <2>2. CASE pc[f] = "insert"
    BY <2>1, <2>2, ConstantsOK DEF WindowPassed
  <2>3. CASE ~RecentRow(pair[f])
    BY <2>1, <2>3, ConstantsOK DEF RecentRow
  <2>4. QED
    BY <2>2, <2>3 DEF Before, After
<1>4. NoSequentialDuplicate' /\ OneRecordPerKey'
  BY DEF NoSequentialDuplicate, OneRecordPerKey
<1>5. QED
  BY <1>1, <1>2, <1>3, <1>4

\* The insert itself.
LEMMA RowsInserted ==
  ASSUME TypeInv, RowInv, NEW r \in Request, pc[r] = "insert", InsertRow(r), ~KeyTaken(key[r]),
         UNCHANGED <<inputs, seen, now>>, pc' = [pc EXCEPT ![r] = pc'[r]],
         pc'[r] \in After \cup {"done"}
  PROVE  RowInv'
<1> USE DEF RowInv, TypeInv, TypeOK, inputs, InsertRow
<1>1. r \notin stored /\ \A s \in Request : r \notin seen[s]
  BY DEF InsertedAtInsert, HistoryOK, Before
<1>2. \A e \in stored : createdAt'[e] = createdAt[e] /\ createdAt'[r] = now
  BY <1>1
<1>3. InsertedAtInsert'
  BY DEF InsertedAtInsert, Before, After
<1>4. HistoryOK'
  BY <1>2 DEF HistoryOK
<1>5. WindowPassed'
  <2> SUFFICES ASSUME NEW f \in Request, pc'[f] = "insert", NEW e \in seen[f], pair[e] = pair[f]
               PROVE  createdAt'[e] + DupWindow <= now
    BY DEF WindowPassed
  <2>1. f # r /\ pc[f] = "insert"
    BY DEF After
  <2>2. createdAt'[e] = createdAt[e]
    BY <1>2 DEF HistoryOK
  <2>3. QED
    BY <2>1, <2>2 DEF WindowPassed
<1>6. NoSequentialDuplicate'
  <2> SUFFICES ASSUME NEW e \in stored', NEW f \in stored', pair[e] = pair[f], e \in seen[f]
               PROVE  createdAt'[f] - createdAt'[e] >= DupWindow
    BY DEF NoSequentialDuplicate
  <2>1. e # r /\ e \in stored
    BY <1>1
  <2>2. CASE f = r
    BY <1>2, <2>1, <2>2, ConstantsOK DEF WindowPassed
  <2>3. CASE f # r
    BY <1>2, <2>1, <2>3 DEF NoSequentialDuplicate
  <2>4. QED
    BY <2>2, <2>3
<1>7. OneRecordPerKey'
  BY DEF OneRecordPerKey, KeyTaken
<1>8. QED
  BY <1>3, <1>4, <1>5, <1>6, <1>7

\* Every step keeps what is proved of the rows.
LEMMA RowStep == TypeInv /\ TypeInv' /\ RowInv /\ [Next]_vars => RowInv'
<1> SUFFICES ASSUME TypeInv, TypeInv', RowInv, [Next]_vars PROVE RowInv'
  OBVIOUS
<1> USE DEF TypeInv, TypeOK, Goto, Continue, Respond, redisVars, processVars, response
<1>1. ASSUME NEW r \in Request, Arrive(r) PROVE RowInv'
  <2>1. r \notin stored /\ seen' = [seen EXCEPT ![r] = stored]
    BY <1>1 DEF Arrive, RowInv, InsertedAtInsert, Before
  <2>2. UNCHANGED <<inputs, dbVars, now>>
    BY <1>1 DEF Arrive
  <2>3. \A s \in Request : IF s = r THEN pc'[s] \in Before \ {"insert"} ELSE pc'[s] = pc[s]
    BY <1>1 DEF Arrive, Before
  <2>4. InsertedAtInsert'
    BY <2>1, <2>2, <2>3 DEF RowInv, InsertedAtInsert, Before, After, dbVars
  <2>5. WindowPassed'
    <3> SUFFICES ASSUME NEW f \in Request, pc'[f] = "insert" PROVE f # r /\ pc[f] = "insert"
      BY <2>1, <2>2 DEF RowInv, WindowPassed, inputs, dbVars
    <3>1. QED
      BY <2>3
  <2>6. HistoryOK'
    BY <2>1, <2>2 DEF RowInv, HistoryOK, dbVars
  <2>7. OneRecordPerKey'
    BY <2>2 DEF RowInv, OneRecordPerKey, inputs, dbVars
  <2>8. NoSequentialDuplicate'
    <3> SUFFICES ASSUME NEW e \in stored, NEW f \in stored, pair[e] = pair[f], e \in seen'[f]
                 PROVE  e \in seen[f]
      BY <2>2 DEF RowInv, NoSequentialDuplicate, inputs, dbVars
    <3>1. QED
      BY <2>1
  <2>9. QED
    BY <2>4, <2>5, <2>6, <2>7, <2>8 DEF RowInv
<1>2. ASSUME NEW r \in Request, GetIdempotencyResponse(r) PROVE RowInv'
  BY <1>2, RowsUnchanged DEF GetIdempotencyResponse, Before
<1>3. ASSUME NEW r \in Request, IsDuplicate(r) PROVE RowInv'
  BY <1>3, RowsUnchanged DEF IsDuplicate, AfterMarker, Before
<1>4. ASSUME NEW r \in Request, FindDuplicate(r) PROVE RowInv'
  <2>1. CASE ~RecentRow(pair[r]) /\ Continue(r, "insert")
    BY <1>4, <2>1, RowsUnchanged DEF FindDuplicate, Before
  <2>2. CASE pc' = [pc EXCEPT ![r] = "done"]
    BY <1>4, <2>2, RowsUnchanged DEF FindDuplicate
  <2>3. QED
    BY <1>4, <2>1, <2>2 DEF FindDuplicate
<1>5. ASSUME NEW r \in Request, CreateInTransaction(r) PROVE RowInv'
  <2>1. CASE InsertRow(r) /\ ~KeyTaken(key[r])
    BY <1>5, <2>1, RowsInserted DEF CreateInTransaction, AfterInsert, After
  <2>2. CASE UNCHANGED dbVars /\ pc' = [pc EXCEPT ![r] = "done"]
    BY <1>5, <2>2, RowsUnchanged DEF CreateInTransaction
  <2>3. QED
    BY <1>5, <2>1, <2>2 DEF CreateInTransaction
<1>6. ASSUME NEW r \in Request, StoreIdempotencyResponse(r) PROVE RowInv'
  BY <1>6, RowsUnchanged DEF StoreIdempotencyResponse, After
<1>7. ASSUME NEW r \in Request, CacheRecord(r) PROVE RowInv'
  BY <1>7, RowsUnchanged DEF CacheRecord, After
<1>8. ASSUME NEW r \in Request, SetDuplicateMarker(r) PROVE RowInv'
  BY <1>8, RowsUnchanged DEF SetDuplicateMarker, After
<1>9. ASSUME NEW r \in Request, EnqueueNotifications(r) PROVE RowInv'
  BY <1>9, RowsUnchanged DEF EnqueueNotifications
<1>10. ASSUME NEW w \in Worker, RedisHealthChanges(w) PROVE RowInv'
  BY <1>10, RowsUnchanged DEF RedisHealthChanges
<1>11. ASSUME NEW w \in Worker, WorkerCrash(w) PROVE RowInv'
  <2>1. \A r \in Request : pc'[r] = pc[r] \/ pc'[r] = "done"
    BY <1>11 DEF WorkerCrash
  <2>2. QED
    BY <1>11, <2>1, RowsUnchanged DEF WorkerCrash
<1>12. ASSUME RedisLosesWrites PROVE RowInv'
  BY <1>12, RowsUnchanged DEF RedisLosesWrites
<1>13. ASSUME Tick PROVE RowInv'
  BY <1>13, RowsUnchanged DEF Tick
<1>14. CASE UNCHANGED vars
  BY <1>14, RowsUnchanged DEF vars
<1>15. ASSUME NEW w \in Worker, MemoryEvicts(w) PROVE RowInv'
  BY <1>15, RowsUnchanged DEF MemoryEvicts
<1>16. QED
  BY <1>1, <1>2, <1>3, <1>4, <1>5, <1>6, <1>7, <1>8, <1>9, <1>10, <1>11, <1>12,
     <1>13, <1>14, <1>15 DEF Next, Handle

\* The facts about rows are invariant.
LEMMA RowInvariant == Spec => []RowInv
BY TypeInvariant, RowInit, RowStep, PTL DEF Spec

\* A resubmission that starts after the first enquiry was committed makes no
\* second row inside the window, for any number of workers, any loss of Redis
\* data and any crash.
THEOREM SequentialResubmission == Spec => []NoSequentialDuplicate
<1>1. RowInv => NoSequentialDuplicate
  BY DEF RowInv
<1>2. QED
  BY <1>1, RowInvariant, PTL

\* The unique index keeps one row per Idempotency-Key.
THEOREM UniqueKey == Spec => []OneRecordPerKey
<1>1. RowInv => OneRecordPerKey
  BY DEF RowInv
<1>2. QED
  BY <1>1, RowInvariant, PTL

-----------------------------------------------------------------------------
\* A 201 names a committed row of the request's key.
AnswersNameRows ==
    \A r \in Request : outcome[r] \in {"created", "replayed"} =>
        answer[r] \in stored /\ key[answer[r]] = key[r]

EffectInv ==
    /\ AnswersNameRows
    /\ EffectsFollowCommit
    /\ RefusedMeansStored

\* Nothing has been answered, cached or queued at first.
LEMMA EffectInit == Init => EffectInv
BY DEF Init, EffectInv, AnswersNameRows, EffectsFollowCommit, RefusedMeansStored, NoIdemEntry

\* Rows are never removed.
LEMMA RowsStay == TypeInv /\ [Next]_vars => stored \subseteq stored' /\ UNCHANGED inputs
BY DEF Next, Handle, Arrive, GetIdempotencyResponse, IsDuplicate, FindDuplicate,
       CreateInTransaction, InsertRow, StoreIdempotencyResponse, CacheRecord,
       SetDuplicateMarker, EnqueueNotifications, RedisHealthChanges, WorkerCrash,
       RedisLosesWrites, MemoryEvicts, Tick, vars, dbVars

\* EffectInv survives a step that answers at most one request, rightly, and
\* writes nothing outside the database.
LEMMA AnswerKeepsEffects ==
  ASSUME TypeInv, EffectInv, stored \subseteq stored', UNCHANGED <<inputs, redisVars, fallback, jobs>>,
         \A r \in Request :
            \/ outcome'[r] = outcome[r] /\ answer'[r] = answer[r]
            \/ outcome'[r] \in {"uniqueConflict", "error", "dropped"}
            \/ outcome'[r] = "replayed" /\ answer'[r] \in stored /\ key[answer'[r]] = key[r]
            \/ outcome'[r] = "duplicate" /\ \E e \in stored : pair[e] = pair[r]
  PROVE  EffectInv'
<1>1. AnswersNameRows'
  BY DEF TypeInv, TypeOK, EffectInv, AnswersNameRows, inputs
<1>2. RefusedMeansStored'
  BY DEF EffectInv, RefusedMeansStored, inputs
<1>3. EffectsFollowCommit'
  BY DEF EffectInv, EffectsFollowCommit, inputs, redisVars
<1>4. QED
  BY <1>1, <1>2, <1>3 DEF EffectInv

\* Every step keeps answers, entries, markers and mail behind the commit.
LEMMA EffectStep == TypeInv /\ RowInv /\ EffectInv /\ [Next]_vars => EffectInv'
<1> SUFFICES ASSUME TypeInv, RowInv, EffectInv, [Next]_vars PROVE EffectInv'
  OBVIOUS
<1>0. stored \subseteq stored' /\ UNCHANGED inputs
  BY RowsStay
<1>i. \A r \in Request : pc[r] \in After => r \in stored
  BY DEF RowInv, InsertedAtInsert
<1> USE <1>0 DEF TypeInv, TypeOK, Goto, Continue, Respond, redisVars, processVars, response
<1>1. ASSUME NEW r \in Request, Arrive(r) PROVE EffectInv'
  BY <1>1, AnswerKeepsEffects DEF Arrive
<1>2. ASSUME NEW r \in Request, GetIdempotencyResponse(r) PROVE EffectInv'
  <2>1. CASE Continue(r, "checkMarker")
    BY <1>2, <2>1, AnswerKeepsEffects DEF GetIdempotencyResponse
  <2>2. CASE Live(idem[key[r]].exp) /\ Respond(r, "replayed", idem[key[r]].id)
    <3>1. key[r] \in Key
      BY <1>2 DEF GetIdempotencyResponse, KeyPresent
    <3>2. idem[key[r]].id \in stored /\ key[idem[key[r]].id] = key[r]
      BY <2>2, <3>1 DEF EffectInv, EffectsFollowCommit, Live, IdemEntry
    <3>3. QED
      BY <1>2, <2>2, <3>2, AnswerKeepsEffects DEF GetIdempotencyResponse
  <2>3. QED
    BY <1>2, <2>1, <2>2 DEF GetIdempotencyResponse
<1>3. ASSUME NEW r \in Request, IsDuplicate(r) PROVE EffectInv'
  <2>1. CASE Continue(r, "findDuplicate")
    BY <1>3, <2>1, AnswerKeepsEffects DEF IsDuplicate
  <2>2. CASE /\ Respond(r, "duplicate", NoEnquiry)
             /\ MarkerInRedis(pair[r]) \/ MarkerInMemory(worker[r], pair[r])
    <3>1. marker[pair[r]] > 0 \/ fallback[worker[r]][pair[r]] > 0
      BY <2>2 DEF MarkerInRedis, MarkerInMemory, Live
    <3>2. \E e \in stored : pair[e] = pair[r]
      BY <3>1 DEF EffectInv, EffectsFollowCommit
    <3>3. QED
      BY <1>3, <2>2, <3>2, AnswerKeepsEffects DEF IsDuplicate
  <2>3. QED
    BY <1>3, <2>1, <2>2 DEF IsDuplicate, AfterMarker
<1>4. ASSUME NEW r \in Request, FindDuplicate(r) PROVE EffectInv'
  BY <1>4, AnswerKeepsEffects DEF FindDuplicate, RecentRow
<1>5. ASSUME NEW r \in Request, CreateInTransaction(r) PROVE EffectInv'
  BY <1>5, AnswerKeepsEffects DEF CreateInTransaction
<1>6. ASSUME NEW r \in Request, StoreIdempotencyResponse(r) PROVE EffectInv'
  <2>1. r \in stored /\ UNCHANGED <<outcome, answer, stored, marker, fallback, jobs>>
    BY <1>6, <1>i DEF StoreIdempotencyResponse, After, dbVars
  <2>2. \A k \in Key : idem'[k].exp > 0 => idem'[k].id \in stored /\ key[idem'[k].id] = k
    <3>1. CASE UNCHANGED idem
      BY <3>1 DEF EffectInv, EffectsFollowCommit
    <3>2. CASE idem' = [idem EXCEPT ![key[r]] = [id |-> r, exp |-> now + IdemTtl]]
      BY <2>1, <3>2 DEF EffectInv, EffectsFollowCommit
    <3>3. QED
      BY <1>6, <3>1, <3>2 DEF StoreIdempotencyResponse
  <2>3. QED
    BY <2>1, <2>2 DEF EffectInv, AnswersNameRows, EffectsFollowCommit, RefusedMeansStored, inputs
<1>7. ASSUME NEW r \in Request, CacheRecord(r) PROVE EffectInv'
  BY <1>7, AnswerKeepsEffects DEF CacheRecord
<1>8. ASSUME NEW r \in Request, SetDuplicateMarker(r) PROVE EffectInv'
  <2>1. r \in stored /\ UNCHANGED <<outcome, answer, stored, idem, jobs>>
    BY <1>8, <1>i, MarkerCases DEF SetDuplicateMarker, After, dbVars
  <2>2. \A p \in Pair : p = pair[r] \/ marker'[p] = marker[p]
    BY <1>8, MarkerCases DEF MarkRedis
  <2>3. \A p \in Pair, w \in Worker : p = pair[r] \/ fallback'[w][p] = fallback[w][p]
    <3>1. UNCHANGED fallback \/ MarkMemory(worker[r], pair[r])
      BY <1>8, MarkerCases
    <3>2. ASSUME MarkMemory(worker[r], pair[r]), NEW p \in Pair, NEW w \in Worker, p # pair[r]
          PROVE  fallback'[w][p] = fallback[w][p]
      <4>1. CASE w # worker[r]
        BY <3>2, <4>1 DEF MarkMemory
      <4>2. CASE w = worker[r]
        BY <3>2, <4>2 DEF MarkMemory
      <4>3. QED
        BY <4>1, <4>2
    <3>3. QED
      BY <3>1, <3>2
  <2>4. QED
    BY <2>1, <2>2, <2>3 DEF EffectInv, AnswersNameRows, EffectsFollowCommit, RefusedMeansStored, inputs
<1>9. ASSUME NEW r \in Request, EnqueueNotifications(r) PROVE EffectInv'
  <2>1. r \in stored /\ UNCHANGED <<stored, idem, marker, fallback>>
    BY <1>9, <1>i DEF EnqueueNotifications, After, dbVars
  <2>2. \A job \in jobs' : job \in jobs \/ job[1] = r
    BY <1>9 DEF EnqueueNotifications
  <2>3. \A s \in Request : \/ outcome'[s] = outcome[s] /\ answer'[s] = answer[s]
                           \/ s = r /\ outcome'[s] = "created" /\ answer'[s] = r
    BY <1>9 DEF EnqueueNotifications
  <2>4. AnswersNameRows'
    BY <2>1, <2>3 DEF EffectInv, AnswersNameRows, inputs
  <2>5. RefusedMeansStored'
    BY <2>1, <2>3 DEF EffectInv, RefusedMeansStored, inputs
  <2>6. EffectsFollowCommit'
    BY <2>1, <2>2 DEF EffectInv, EffectsFollowCommit, inputs
  <2>7. QED
    BY <2>4, <2>5, <2>6 DEF EffectInv
<1>10. ASSUME NEW w \in Worker, RedisHealthChanges(w) PROVE EffectInv'
  BY <1>10, AnswerKeepsEffects DEF RedisHealthChanges
<1>11. ASSUME NEW w \in Worker, WorkerCrash(w) PROVE EffectInv'
  <2>1. \A p \in Pair, v \in Worker : fallback'[v][p] > 0 => fallback[v][p] > 0
    BY <1>11 DEF WorkerCrash
  <2>2. \A r \in Request : outcome'[r] \in {outcome[r], "dropped"}
    BY <1>11 DEF WorkerCrash
  <2>3. UNCHANGED <<answer, stored, idem, marker, jobs>>
    BY <1>11 DEF WorkerCrash, dbVars
  <2>4. EffectsFollowCommit'
    BY <2>1, <2>3 DEF EffectInv, EffectsFollowCommit, inputs
  <2>5. AnswersNameRows' /\ RefusedMeansStored'
    BY <2>2, <2>3 DEF EffectInv, AnswersNameRows, RefusedMeansStored, inputs
  <2>6. QED
    BY <2>4, <2>5 DEF EffectInv
<1>12. ASSUME RedisLosesWrites PROVE EffectInv'
  <2>1. \A p \in Pair : marker'[p] > 0 => marker[p] > 0
    <3>1. UNCHANGED marker \/ \E q \in Pair : marker' = [marker EXCEPT ![q] = 0]
      BY <1>12 DEF RedisLosesWrites
    <3>2. ASSUME NEW q \in Pair, marker' = [marker EXCEPT ![q] = 0], NEW p \in Pair
          PROVE  marker'[p] > 0 => marker[p] > 0
      <4>1. marker' \in [Pair -> Nat] /\ marker'[q] = 0
        BY <3>2
      <4>2. p # q => marker'[p] = marker[p]
        BY <3>2
      <4>3. QED
        BY <4>1, <4>2
    <3>3. QED
      BY <3>1, <3>2
  <2>2. \A k \in Key : idem'[k].exp > 0 => idem'[k] = idem[k]
    BY <1>12 DEF RedisLosesWrites, NoIdemEntry
  <2>3. UNCHANGED <<outcome, answer, stored, fallback, jobs>>
    BY <1>12 DEF RedisLosesWrites, dbVars
  <2>4. EffectsFollowCommit'
    BY <2>1, <2>2, <2>3 DEF EffectInv, EffectsFollowCommit, inputs
  <2>5. AnswersNameRows' /\ RefusedMeansStored'
    BY <2>3 DEF EffectInv, AnswersNameRows, RefusedMeansStored, inputs
  <2>6. QED
    BY <2>4, <2>5 DEF EffectInv
<1>13. ASSUME Tick PROVE EffectInv'
  BY <1>13, AnswerKeepsEffects DEF Tick
<1>14. CASE UNCHANGED vars
  BY <1>14, AnswerKeepsEffects DEF vars
<1>15. ASSUME NEW w \in Worker, MemoryEvicts(w) PROVE EffectInv'
  <2>1. \A p \in Pair, v \in Worker : fallback'[v][p] > 0 => fallback[v][p] > 0
    BY <1>15 DEF MemoryEvicts, TypeInv, TypeOK
  <2>2. UNCHANGED <<outcome, answer, stored, idem, marker, jobs>>
    BY <1>15 DEF MemoryEvicts, response, dbVars, redisVars
  <2>3. EffectsFollowCommit'
    BY <1>15, <2>1, <2>2 DEF MemoryEvicts, EffectInv, EffectsFollowCommit, inputs
  <2>4. AnswersNameRows' /\ RefusedMeansStored'
    BY <1>15, <2>2 DEF MemoryEvicts, EffectInv, AnswersNameRows, RefusedMeansStored, inputs
  <2>5. QED
    BY <2>3, <2>4 DEF EffectInv
<1>16. QED
  BY <1>1, <1>2, <1>3, <1>4, <1>5, <1>6, <1>7, <1>8, <1>9, <1>10, <1>11, <1>12,
     <1>13, <1>14, <1>15 DEF Next, Handle

\* The facts about answers and effects are invariant.
LEMMA EffectInvariant == Spec => []EffectInv
BY TypeInvariant, RowInvariant, EffectInit, EffectStep, PTL DEF Spec

\* Idempotency entries, markers and queued mail never outrun the commit.
THEOREM NoEffectWithoutCommit == Spec => []EffectsFollowCommit
<1>1. EffectInv => EffectsFollowCommit
  BY DEF EffectInv
<1>2. QED
  BY <1>1, EffectInvariant, PTL

\* "Duplicate" is only said of a pair the database holds.
THEOREM RefusalIsGrounded == Spec => []RefusedMeansStored
<1>1. EffectInv => RefusedMeansStored
  BY DEF EffectInv
<1>2. QED
  BY <1>1, EffectInvariant, PTL

\* All 201 responses to one key name one enquiry: each names a row of the key,
\* and the unique index leaves only one.
THEOREM OneAnswer == Spec => []OneEnquiryPerKey
<1>1. RowInv /\ EffectInv => OneEnquiryPerKey
  BY DEF RowInv, EffectInv, AnswersNameRows, OneRecordPerKey, OneEnquiryPerKey
<1>2. QED
  BY <1>1, RowInvariant, EffectInvariant, PTL

-----------------------------------------------------------------------------
\* A request that is not done has been told nothing.
Unanswered == \A r \in Request : pc[r] # "done" => outcome[r] = "none"

\* Only the last step of a request, or a crash, sets its outcome.
LEMMA UnansweredStep == TypeInv /\ Unanswered /\ [Next]_vars => Unanswered'
<1> SUFFICES ASSUME TypeInv, Unanswered, [Next]_vars PROVE Unanswered'
  OBVIOUS
<1> USE DEF TypeInv, TypeOK, Unanswered, Goto, Continue, Respond, response
<1>1. ASSUME NEW r \in Request, Arrive(r) \/ Handle(r) PROVE Unanswered'
  BY <1>1 DEF Arrive, Handle, GetIdempotencyResponse, IsDuplicate, AfterMarker, FindDuplicate,
              CreateInTransaction, StoreIdempotencyResponse, CacheRecord, SetDuplicateMarker,
              EnqueueNotifications
<1>2. ASSUME NEW w \in Worker, WorkerCrash(w) PROVE Unanswered'
  BY <1>2 DEF WorkerCrash, Stage
<1>3. CASE UNCHANGED <<pc, outcome>>
  BY <1>3
<1>4. QED
  BY <1>1, <1>2, <1>3 DEF Next, RedisHealthChanges, MemoryEvicts, RedisLosesWrites, Tick, vars

\* Nobody has been told anything before it is done, ever.
LEMMA UnansweredInvariant == Spec => []Unanswered
<1>1. Init => Unanswered
  BY DEF Init, Unanswered
<1>2. QED
  BY <1>1, TypeInvariant, UnansweredStep, PTL DEF Spec

\* Each step of the handler and of its environment is a step of Submission or none.
LEMMA PromisedStep ==
  TypeInv /\ RowInv /\ EffectInv /\ Unanswered /\ [Next]_vars => [Promise!Next]_(Promise!vars)
<1> SUFFICES ASSUME TypeInv, RowInv, EffectInv, Unanswered, [Next]_vars
             PROVE  [Promise!Next]_(Promise!vars)
  OBVIOUS
<1>0. \A r \in Request :
        /\ pc[r] \in Before => r \notin stored
        /\ pc[r] \in After => r \in stored
        /\ pc[r] # "done" => outcome[r] = "none"
  BY DEF RowInv, InsertedAtInsert, Unanswered
<1> USE DEF Promise!vars, inputs, response, dbVars
<1>1. ASSUME NEW r \in Request, NEW result, NEW enquiry, Respond(r, result, enquiry),
             pc[r] # "done", UNCHANGED inputs
      PROVE  Promise!Tell(r, result, enquiry)
  BY <1>0, <1>1 DEF Promise!Tell, Respond
<1>2. ASSUME NEW r \in Request, GetIdempotencyResponse(r) PROVE [Promise!Next]_(Promise!vars)
  <2>1. CASE Continue(r, "checkMarker")
    BY <1>2, <2>1 DEF GetIdempotencyResponse, Continue
  <2>2. CASE Live(idem[key[r]].exp) /\ Respond(r, "replayed", idem[key[r]].id)
    <3>1. key[r] \in Key /\ key[r] # NoKey
      BY <1>2, ConstantsOK DEF GetIdempotencyResponse, TypeInv, KeyPresent
    <3>2. idem[key[r]].id \in stored /\ key[idem[key[r]].id] = key[r]
      BY <2>2, <3>1 DEF EffectInv, EffectsFollowCommit, Live, IdemEntry, TypeInv, TypeOK
    <3>3. Promise!Replay(r)
      BY <1>0, <1>1, <1>2, <2>2, <3>1, <3>2
         DEF GetIdempotencyResponse, Before, Promise!Replay, Promise!SameKey
    <3>4. QED
      BY <3>3 DEF Promise!Next
  <2>3. QED
    BY <1>2, <2>1, <2>2 DEF GetIdempotencyResponse
<1>3. ASSUME NEW r \in Request, Respond(r, "duplicate", NoEnquiry), pc[r] \in Before,
             UNCHANGED <<inputs, dbVars>>, \E e \in stored : pair[e] = pair[r]
      PROVE  Promise!Next
  <2>1. Promise!Refuse(r)
    BY <1>0, <1>1, <1>3 DEF Before, Promise!Refuse
  <2>2. QED
    BY <2>1 DEF Promise!Next
<1>4. ASSUME NEW r \in Request, IsDuplicate(r) PROVE [Promise!Next]_(Promise!vars)
  <2>1. CASE Continue(r, "findDuplicate")
    BY <1>4, <2>1 DEF IsDuplicate, Continue
  <2>2. CASE /\ Respond(r, "duplicate", NoEnquiry)
             /\ MarkerInRedis(pair[r]) \/ MarkerInMemory(worker[r], pair[r])
    <3>1. worker[r] \in Worker /\ pair[r] \in Pair
      BY DEF TypeInv, TypeOK
    <3>2. marker[pair[r]] > 0 \/ fallback[worker[r]][pair[r]] > 0
      BY <2>2, <3>1 DEF MarkerInRedis, MarkerInMemory, Live, TypeInv, TypeOK
    <3>3. \E e \in stored : pair[e] = pair[r]
      BY <3>1, <3>2 DEF EffectInv, EffectsFollowCommit
    <3>4. QED
      BY <1>3, <1>4, <2>2, <3>3 DEF IsDuplicate, Before
  <2>3. QED
    BY <1>4, <2>1, <2>2 DEF IsDuplicate, AfterMarker
<1>5. ASSUME NEW r \in Request, Respond(r, "error", NoEnquiry), pc[r] \in Before,
             UNCHANGED <<inputs, dbVars>>
      PROVE  Promise!Next
  <2>1. Promise!Fail(r)
    BY <1>0, <1>1, <1>5 DEF Before, Promise!Fail
  <2>2. QED
    BY <2>1 DEF Promise!Next
<1>6. ASSUME NEW r \in Request, FindDuplicate(r) PROVE [Promise!Next]_(Promise!vars)
  <2>1. CASE Continue(r, "insert")
    BY <1>6, <2>1 DEF FindDuplicate, Continue
  <2>2. CASE RecentRow(pair[r]) /\ Respond(r, "duplicate", NoEnquiry)
    BY <1>3, <1>6, <2>2 DEF FindDuplicate, RecentRow, Before
  <2>3. CASE Respond(r, "error", NoEnquiry)
    BY <1>5, <1>6, <2>3 DEF FindDuplicate, Before
  <2>4. QED
    BY <1>6, <2>1, <2>2, <2>3 DEF FindDuplicate
<1>7. ASSUME NEW r \in Request, CreateInTransaction(r) PROVE [Promise!Next]_(Promise!vars)
  <2>0. pc[r] \in Before /\ pc[r] # "done"
    BY <1>7 DEF CreateInTransaction, Before
  <2>1. CASE /\ ~KeyTaken(key[r]) /\ InsertRow(r)
             /\ Continue(r, AfterInsert(r)) \/ Respond(r, "error", NoEnquiry)
    <3>1. \A e \in stored : ~Promise!SameKey(r, e)
      BY <2>1 DEF KeyTaken, Promise!SameKey
    <3>2. Promise!Commit(r)
      BY <1>0, <1>1, <1>7, <2>0, <2>1, <3>1
         DEF CreateInTransaction, Continue, InsertRow, Promise!Commit
    <3>3. QED
      BY <3>2 DEF Promise!Next
  <2>2. CASE KeyTaken(key[r]) /\ Respond(r, "uniqueConflict", NoEnquiry) /\ UNCHANGED dbVars
    <3>1. Promise!Refuse(r)
      BY <1>0, <1>1, <1>7, <2>0, <2>2
         DEF CreateInTransaction, KeyTaken, Promise!Refuse, Promise!SameKey
    <3>2. QED
      BY <3>1 DEF Promise!Next
  <2>3. CASE Respond(r, "error", NoEnquiry) /\ UNCHANGED dbVars
    BY <1>5, <1>7, <2>0, <2>3 DEF CreateInTransaction
  <2>4. QED
    BY <1>7, <2>1, <2>2, <2>3 DEF CreateInTransaction
<1>8. ASSUME NEW r \in Request, EnqueueNotifications(r) PROVE [Promise!Next]_(Promise!vars)
  <2>1. Promise!Create(r)
    BY <1>0, <1>1, <1>8 DEF EnqueueNotifications, After, Promise!Create
  <2>2. QED
    BY <2>1 DEF Promise!Next
<1>9. ASSUME NEW w \in Worker, WorkerCrash(w) PROVE [Promise!Next]_(Promise!vars)
  <2> DEFINE lost == {r \in Request : worker[r] = w /\ pc[r] \in Stage}
  <2>1. Promise!Drop(lost)
    BY <1>0, <1>9 DEF WorkerCrash, Stage, Promise!Drop
  <2>2. lost \in SUBSET Request
    OBVIOUS
  <2>3. QED
    BY <2>1, <2>2 DEF Promise!Next
<1>10. ASSUME NEW r \in Request,
              Arrive(r) \/ StoreIdempotencyResponse(r) \/ CacheRecord(r) \/ SetDuplicateMarker(r)
       PROVE  [Promise!Next]_(Promise!vars)
  BY <1>10 DEF Arrive, StoreIdempotencyResponse, CacheRecord, SetDuplicateMarker, Continue
<1>11. CASE UNCHANGED <<inputs, response, dbVars>>
  BY <1>11
<1>12. QED
  BY <1>2, <1>4, <1>6, <1>7, <1>8, <1>9, <1>10, <1>11
     DEF Next, Handle, RedisHealthChanges, MemoryEvicts, RedisLosesWrites, Tick, vars

\* The handler, with its checks, caches, markers, retries and crashes, implements
\* Submission: every answer is justified by the rows at the time it is given.
THEOREM Implementation == Spec => KeepsPromise
<1>1. Init => Promise!Init
  BY DEF Init, Promise!Init
<1>2. QED
  BY <1>1, TypeInvariant, RowInvariant, EffectInvariant, UnansweredInvariant, PromisedStep, PTL
     DEF Spec, KeepsPromise, Promise!Spec
=============================================================================
