------------------------- MODULE EnquiryCacheProofs -------------------------
(***************************************************************************)
(* Mutual exclusion and coherence of a cache entry for any number of GETs, *)
(* updates and workers.                                                    *)
(***************************************************************************)
EXTENDS EnquiryCache, TLAPS

\* The front and the back process of a request are processes.
LEMMA Processes ==
  /\ \A r \in Reader : <<r, "front">> \in Proc /\ <<r, "back">> \in Proc
  /\ \A p \in Proc : p[1] \in Reader /\ p[2] \in {"front", "back"} /\ p = <<p[1], p[2]>>
BY DEF Proc

-----------------------------------------------------------------------------
(* Types. *)

\* What is about to be written to the cache is a version.
ValuesFetched == \A p \in Proc : pc[p] = "fill" => value[p] \in Nat
MarksRead == \A x \in Writer : writerPc[x] \in {"markTtl", "markSet"} => markGot[x] \in Nat

TypeInv == TypeOK /\ ValuesFetched /\ MarksRead

\* Every initial state has the types.
LEMMA TypeInit == Init => TypeInv
<1> SUFFICES ASSUME Init PROVE TypeInv
  OBVIOUS
<1>1. entry \in Entry \cup {NoEntry}
  BY DEF Init, Entry
<1>2. /\ fallback \in [Worker -> Version] /\ value \in [Proc -> Version]
      /\ markGot \in [Writer -> Version] /\ answer \in [Reader -> Answer \cup {NoAnswer}]
  BY DEF Init, Version
<1>3. ValuesFetched /\ MarksRead
  BY DEF Init, ValuesFetched, MarksRead
<1>4. QED
  BY <1>1, <1>2, <1>3 DEF Init, TypeInv, TypeOK

\* What a GET, or a poll, does to the reader's variables keeps their types.
LEMMA ServeTypes ==
  ASSUME TypeInv, NEW r \in Reader, NEW version \in Nat,
         NEW from \in {"store", "exposed", "memory"}, Serve(r, version, from)
  PROVE  answer' \in [Reader -> Answer \cup {NoAnswer}]
BY DEF TypeInv, TypeOK, Serve, Answer

\* Serving from memory, or going on without, keeps the types.
LEMMA MemoryTypes ==
  ASSUME TypeInv, NEW p \in Proc, NEW otherwise \in {"lock", "direct"},
         FromMemory(p[1], p, otherwise)
  PROVE  /\ answer' \in [Reader -> Answer \cup {NoAnswer}]
         /\ healthy' \in [Worker -> BOOLEAN]
         /\ \E stage \in {otherwise, "done"} : pc' = [pc EXCEPT ![p] = stage]
<1>1. fallback[worker[p[1]]] \in Version
  BY Processes DEF TypeInv, TypeOK
<1>2. answer' \in [Reader -> Answer \cup {NoAnswer}]
  BY <1>1, Processes, ServeTypes DEF FromMemory, Version, TypeInv, TypeOK
<1>3. QED
  BY <1>2 DEF FromMemory, RedisFails, Goto, TypeInv, TypeOK

\* set() stores an entry, exposed if it was overtaken, or leaves the one there,
\* which is exposed if it was or if it misses a commit.
LEMMA SetOutcome ==
  ASSUME NEW w, NEW version, NEW overtaken \in BOOLEAN, NEW missed \in BOOLEAN,
         CacheSet(w, version, overtaken, missed)
  PROVE  \/ /\ entry' = [version |-> version, age |-> "fresh"]
            /\ exposed' \in BOOLEAN /\ (~exposed' => ~overtaken)
         \/ /\ entry' = entry
            /\ exposed \in BOOLEAN => exposed' \in BOOLEAN
            /\ ~exposed' => ~exposed /\ ~missed
<1>1. CASE entry' = [version |-> version, age |-> "fresh"] /\ exposed' = overtaken
  BY <1>1, Zenon
<1>2. CASE exposed' = (exposed \/ missed) /\ UNCHANGED entry
  BY <1>2, Zenon
<1>3. QED
  BY <1>1, <1>2, Zenon DEF CacheSet, PutInRedis

\* What it does to the memory of its worker.
LEMMA SetMemory ==
  ASSUME TypeInv, NEW w \in Worker, NEW version \in Nat, NEW overtaken, NEW missed,
         CacheSet(w, version, overtaken, missed)
  PROVE  fallback' \in [Worker -> Version] /\ healthy' \in [Worker -> BOOLEAN]
<1>1. \/ UNCHANGED memory
      \/ fallback' = [fallback EXCEPT ![w] = version] /\ healthy' = [healthy EXCEPT ![w] = FALSE]
  BY Zenon DEF CacheSet, RedisFails
<1>2. CASE UNCHANGED memory
  BY <1>2 DEF memory, TypeInv, TypeOK
<1>3. CASE fallback' = [fallback EXCEPT ![w] = version] /\ healthy' = [healthy EXCEPT ![w] = FALSE]
  BY <1>3 DEF Version, TypeInv, TypeOK
<1>4. QED
  BY <1>1, <1>2, <1>3

\* What a fill, and what an update, stores.
LEMMA FillStores ==
  ASSUME TypeInv, NEW p \in Proc, Fill(p)
  PROVE  /\ value[p] \in Nat
         /\ fallback' \in [Worker -> Version] /\ healthy' \in [Worker -> BOOLEAN]
         /\ exposed' \in BOOLEAN
         /\ \/ entry' = [version |-> value[p], age |-> "fresh"] /\ (~exposed' => ~(value[p] < db))
            \/ entry' = entry /\ (~exposed' => ~exposed)
<1>1. value[p] \in Nat /\ worker[p[1]] \in Worker
  BY Processes DEF Fill, TypeInv, TypeOK, ValuesFetched
<1>2. CacheSet(worker[p[1]], value[p], value[p] < db, FALSE)
  BY DEF Fill
<1>3. (value[p] < db) \in BOOLEAN
  OBVIOUS
<1>4. exposed \in BOOLEAN
  BY DEF TypeInv, TypeOK
<1>5. /\ exposed' \in BOOLEAN
      /\ \/ entry' = [version |-> value[p], age |-> "fresh"] /\ (~exposed' => ~(value[p] < db))
         \/ entry' = entry /\ (~exposed' => ~exposed)
  BY <1>2, <1>3, <1>4, SetOutcome, Zenon
<1>6. QED
  BY <1>1, <1>2, <1>5, SetMemory, Zenon

LEMMA UpdateStores ==
  ASSUME TypeInv, NEW x \in Writer, SetRecord(x)
  PROVE  /\ written[x] \in Nat
         /\ fallback' \in [Worker -> Version] /\ healthy' \in [Worker -> BOOLEAN]
         /\ exposed' \in BOOLEAN
         /\ \/ entry' = [version |-> written[x], age |-> "fresh"] /\ (~exposed' => ~(written[x] < db))
            \/ entry' = entry /\ (~exposed' => ~exposed /\ ~Missed(x))
<1>1. written[x] \in Nat /\ worker[x] \in Worker
  BY DEF TypeInv, TypeOK
<1>2. CacheSet(worker[x], written[x], written[x] < db, Missed(x))
  BY DEF SetRecord, CacheUpdated
<1>3. (written[x] < db) \in BOOLEAN /\ Missed(x) \in BOOLEAN
  BY DEF Missed
<1>4. exposed \in BOOLEAN
  BY DEF TypeInv, TypeOK
<1>5. /\ exposed' \in BOOLEAN
      /\ \/ entry' = [version |-> written[x], age |-> "fresh"] /\ (~exposed' => ~(written[x] < db))
         \/ entry' = entry /\ (~exposed' => ~exposed /\ ~Missed(x))
  BY <1>2, <1>3, <1>4, SetOutcome, Zenon
<1>6. QED
  BY <1>1, <1>2, <1>5, SetMemory, Zenon

\* No step of a GET, an update or the environment leaves the types.
LEMMA TypeStep == TypeInv /\ [Next]_vars => TypeInv'
<1> SUFFICES ASSUME TypeInv, [Next]_vars PROVE TypeInv'
  OBVIOUS
<1> USE Processes DEF TypeInv, TypeOK, ValuesFetched, MarksRead, inputs, process, writer, memory,
                      history, Building
<1>1. ASSUME NEW r \in Reader, GetWithSWR(r) PROVE TypeInv'
  <2> DEFINE p == <<r, "front">>
  <2>1. UNCHANGED <<inputs, db, entry, lock, fallback, value, writer, overran, exposed>>
    BY <1>1 DEF GetWithSWR
  <2>2. floor' \in [Reader -> Nat]
    BY <1>1 DEF GetWithSWR
  <2>3. CASE FromMemory(r, p, "lock")
    <3>1. FromMemory(p[1], p, "lock")
      BY <2>3
    <3>2. /\ answer' \in [Reader -> Answer \cup {NoAnswer}]
          /\ healthy' \in [Worker -> BOOLEAN]
          /\ \E stage \in {"lock", "done"} : pc' = [pc EXCEPT ![p] = stage]
      BY <3>1, MemoryTypes
    <3>3. QED
      BY <2>1, <2>2, <3>2
  <2>4. CASE ~FromMemory(r, p, "lock")
    <3>1. UNCHANGED healthy
      BY <1>1, <2>4 DEF GetWithSWR
    <3>2. answer' \in [Reader -> Answer \cup {NoAnswer}]
      <4>1. CASE Hit
        BY <1>1, <2>4, <4>1, ServeTypes DEF GetWithSWR, Hit, Entry, NoEntry, FromRedis
      <4>2. CASE ~Hit
        BY <1>1, <2>4, <4>2 DEF GetWithSWR
      <4>3. QED
        BY <4>1, <4>2
    <3>3. /\ pc' \in [Proc -> Building \cup {"idle", "lock", "poll", "direct", "done"}]
          /\ \A q \in Proc : pc'[q] = "fill" => pc[q] = "fill"
      BY <1>1, <2>4 DEF GetWithSWR, Goto
    <3>4. QED
      BY <2>1, <2>2, <3>1, <3>2, <3>3
  <2>5. QED
    BY <2>3, <2>4
<1>2. ASSUME NEW p \in Proc, AcquireLock(p) PROVE TypeInv'
  BY <1>2 DEF AcquireLock, Contended, Goto
<1>3. ASSUME NEW p \in Proc, Fetch(p) PROVE TypeInv'
  <2>1. value' \in [Proc -> Version] /\ ValuesFetched'
    BY <1>3 DEF Fetch, Goto, Version
  <2>2. QED
    BY <1>3, <2>1 DEF Fetch, Goto
<1>4. ASSUME NEW p \in Proc, Fill(p) PROVE TypeInv'
  <2>1. entry' \in Entry \cup {NoEntry}
    BY <1>4, FillStores DEF Entry
  <2>2. QED
    BY <1>4, <2>1, FillStores DEF Fill, Goto
<1>5. ASSUME NEW p \in Proc, ReleaseLock(p) PROVE TypeInv'
  <2>1. answer' \in [Reader -> Answer \cup {NoAnswer}]
    BY <1>5, ServeTypes DEF ReleaseLock, Version
  <2>2. value' \in [Proc -> Version] /\ ValuesFetched'
    BY <1>5 DEF ReleaseLock, Goto, Version
  <2>3. QED
    BY <1>5, <2>1, <2>2 DEF ReleaseLock, DeleteOwnLock, Goto
<1>6. ASSUME NEW p \in Proc, PollForCache(p) PROVE TypeInv'
  <2>1. CASE FromMemory(p[1], p, "direct")
    <3>1. /\ answer' \in [Reader -> Answer \cup {NoAnswer}]
          /\ healthy' \in [Worker -> BOOLEAN]
          /\ \E stage \in {"direct", "done"} : pc' = [pc EXCEPT ![p] = stage]
      BY <2>1, MemoryTypes
    <3>2. QED
      BY <1>6, <3>1 DEF PollForCache
  <2>2. CASE ~FromMemory(p[1], p, "direct")
    <3>1. answer' \in [Reader -> Answer \cup {NoAnswer}]
      BY <1>6, <2>2, ServeTypes DEF PollForCache, Entry, NoEntry, FromRedis
    <3>2. QED
      BY <1>6, <2>2, <3>1 DEF PollForCache, Goto
  <2>3. QED
    BY <2>1, <2>2
<1>7. ASSUME NEW p \in Proc, FetchDirectly(p) PROVE TypeInv'
  <2>1. answer' \in [Reader -> Answer \cup {NoAnswer}]
    BY <1>7, ServeTypes DEF FetchDirectly
  <2>2. QED
    BY <1>7, <2>1 DEF FetchDirectly, Goto
<1>8. ASSUME NEW x \in Writer, Commit(x) PROVE TypeInv'
  <2>1. db' \in Nat
    BY <1>8 DEF Commit, Unannounced, NextVersion
  <2>2. exposed' \in BOOLEAN
    BY <1>8, Zenon DEF Commit, Unannounced
  <2>3. written' \in [Writer -> Nat]
    BY <1>8, <2>1 DEF Commit, NextVersion
  <2>4. QED
    BY <1>8, <2>1, <2>2, <2>3 DEF Commit
<1>9. ASSUME NEW x \in Writer, SetRecord(x) PROVE TypeInv'
  <2>1. entry' \in Entry \cup {NoEntry}
    BY <1>9, UpdateStores DEF Entry
  <2>2. QED
    BY <1>9, <2>1, UpdateStores DEF SetRecord, Return, Version
<1>10. ASSUME NEW x \in Writer, MarkFails(x) PROVE TypeInv'
  BY <1>10 DEF MarkFails, Return, Version
<1>11. ASSUME NEW x \in Writer, Scan(x) PROVE TypeInv'
  <2>1. acked' \in Nat /\ written' \in [Writer -> Nat]
    BY <1>11 DEF Scan, MarkGoto, Return
  <2>2. markGot' \in [Writer -> Version]
    BY <1>11 DEF Scan, MarkGoto, Return, Version
  <2>3. /\ writerPc' \in [Writer -> {"idle", "cache", "markGet", "markTtl", "markSet", "done"}]
        /\ MarksRead'
    BY <1>11 DEF Scan, MarkGoto, Return
  <2>4. QED
    BY <1>11, <2>1, <2>2, <2>3 DEF Scan
<1>12. ASSUME NEW x \in Writer, MarkGet(x) PROVE TypeInv'
  <2>1. acked' \in Nat /\ written' \in [Writer -> Nat]
    BY <1>12 DEF MarkGet, MarkGoto, Return
  <2>2. entry.version \in Version /\ (entry.age # "absent" => entry.version \in Nat)
    BY DEF Entry, NoEntry, Version
  <2>3. markGot' \in [Writer -> Version]
    BY <1>12, <2>2 DEF MarkGet, MarkGoto, Return, Version
  <2>4. /\ writerPc' \in [Writer -> {"idle", "cache", "markGet", "markTtl", "markSet", "done"}]
        /\ MarksRead'
    BY <1>12, <2>2 DEF MarkGet, MarkGoto, Return
  <2>5. QED
    BY <1>12, <2>1, <2>3, <2>4 DEF MarkGet
<1>13. ASSUME NEW x \in Writer, MarkTtl(x) PROVE TypeInv'
  <2>1. acked' \in Nat /\ written' \in [Writer -> Nat] /\ markGot' \in [Writer -> Version]
    BY <1>13 DEF MarkTtl, MarkGoto, Return, Version
  <2>2. /\ writerPc' \in [Writer -> {"idle", "cache", "markGet", "markTtl", "markSet", "done"}]
        /\ MarksRead'
    BY <1>13 DEF MarkTtl, MarkGoto, Return
  <2>3. QED
    BY <1>13, <2>1, <2>2 DEF MarkTtl
<1>14. ASSUME NEW x \in Writer, MarkSet(x) PROVE TypeInv'
  BY <1>14 DEF MarkSet, Backdated, Return, Entry, Version
<1>15. ASSUME NEW w \in Worker, FallbackExpires(w) PROVE TypeInv'
  BY <1>15 DEF FallbackExpires, Version
<1>16. ASSUME NEW w \in Worker, RedisHealthChanges(w) PROVE TypeInv'
  BY <1>16 DEF RedisHealthChanges
<1>17. ASSUME NEW w \in Worker, WorkerDies(w) PROVE TypeInv'
  <2>1. exposed' \in BOOLEAN
    BY <1>17, Zenon DEF WorkerDies
  <2>2. /\ fallback' \in [Worker -> Version] /\ healthy' \in [Worker -> BOOLEAN]
        /\ value' \in [Proc -> Version] /\ overran' \in SUBSET Proc
    BY <1>17 DEF WorkerDies, Version
  <2>3. /\ pc' \in [Proc -> Building \cup {"idle", "lock", "poll", "direct", "done"}]
        /\ writerPc' \in [Writer -> {"idle", "cache", "markGet", "markTtl", "markSet", "done"}]
    BY <1>17 DEF WorkerDies
  <2>4. ValuesFetched' /\ MarksRead'
    BY <1>17 DEF WorkerDies
  <2>5. QED
    <3>1. /\ UNCHANGED <<inputs, db, entry, lock, answer, acked, floor>>
          /\ written' \in [Writer -> Nat] /\ markGot' \in [Writer -> Version]
      BY <1>17 DEF WorkerDies, Version
    <3>2. /\ writeThrough' \in BOOLEAN
          /\ worker' \in [Reader \cup Writer -> Worker]
          /\ db' \in Nat
          /\ entry' \in Entry \cup {NoEntry}
          /\ lock' \in Proc \cup {NoLock}
          /\ answer' \in [Reader -> Answer \cup {NoAnswer}]
          /\ written' \in [Writer -> Nat]
          /\ markGot' \in [Writer -> Version]
          /\ acked' \in Nat
          /\ floor' \in [Reader -> Nat]
      BY <3>1
    <3>3. QED
      BY <2>1, <2>2, <2>3, <2>4, <3>2
<1>18. CASE EntryAges
  <2>1. entry' \in Entry \cup {NoEntry}
    BY <1>18 DEF EntryAges, Entry, NoEntry
  <2>2. exposed' \in BOOLEAN
    BY <1>18 DEF EntryAges
  <2>3. QED
    BY <1>18, <2>1, <2>2 DEF EntryAges
<1>19. CASE LockExpires
  BY <1>19 DEF LockExpires
<1>20. ASSUME NEW r \in Reader, AskAgain(r) PROVE TypeInv'
  BY <1>20 DEF AskAgain
<1>21. CASE Rewrite
  BY <1>21 DEF Rewrite, Unannounced, NextVersion
<1>22. CASE UNCHANGED vars
  BY <1>22 DEF vars
<1>23. QED
  BY <1>1, <1>2, <1>3, <1>4, <1>5, <1>6, <1>7, <1>8, <1>9, <1>10, <1>11, <1>12, <1>13,
     <1>14, <1>15, <1>16, <1>17, <1>18, <1>19, <1>20, <1>21, <1>22 DEF Next, Refresh, Update

\* The types are an invariant.
LEMMA TypeInvariant == Spec => []TypeInv
BY TypeInit, TypeStep, PTL DEF Spec

\* Type correctness of the entry, its lock, the processes and the updates.
THEOREM TypeCorrect == Spec => []TypeOK
BY TypeInvariant, PTL DEF TypeInv

-----------------------------------------------------------------------------
(* The lock.  A process that builds the entry holds the lock or has overrun; *)
(* two processes cannot both hold it.                                        *)

BuilderInv == \A p \in Proc : pc[p] \in Building => lock = p \/ p \in overran

\* Every step keeps a builder's lock, or counts its builder as overrun.
LEMMA BuilderStep == TypeInv /\ BuilderInv /\ [Next]_vars => BuilderInv'
<1> SUFFICES ASSUME TypeInv, BuilderInv, [Next]_vars PROVE BuilderInv'
  OBVIOUS
<1> USE Processes DEF TypeInv, TypeOK, BuilderInv, process, history, Building, Goto
<1>1. ASSUME NEW r \in Reader, GetWithSWR(r) PROVE BuilderInv'
  <2>1. \A p \in Proc : pc'[p] \in {pc[p], "lock", "done"}
    BY <1>1 DEF GetWithSWR, FromMemory
  <2>2. UNCHANGED <<lock, overran>>
    BY <1>1 DEF GetWithSWR
  <2>3. QED
    BY <2>1, <2>2
<1>2. ASSUME NEW p \in Proc, AcquireLock(p) PROVE BuilderInv'
  BY <1>2, ConstantsOK DEF AcquireLock, Contended
<1>3. ASSUME NEW p \in Proc, Fetch(p) \/ Fill(p) PROVE BuilderInv'
  BY <1>3 DEF Fetch, Fill
<1>4. ASSUME NEW p \in Proc, ReleaseLock(p) PROVE BuilderInv'
  BY <1>4 DEF ReleaseLock, DeleteOwnLock
<1>5. ASSUME NEW p \in Proc, PollForCache(p) \/ FetchDirectly(p) PROVE BuilderInv'
  BY <1>5 DEF PollForCache, FromMemory, FetchDirectly
<1>6. ASSUME NEW x \in Writer, Update(x) PROVE BuilderInv'
  BY <1>6 DEF Update, Commit, SetRecord, MarkFails, Scan, MarkGet, MarkTtl, MarkSet
<1>7. ASSUME NEW w \in Worker, FallbackExpires(w) \/ RedisHealthChanges(w) PROVE BuilderInv'
  BY <1>7 DEF FallbackExpires, RedisHealthChanges
<1>8. ASSUME NEW w \in Worker, WorkerDies(w) PROVE BuilderInv'
  BY <1>8 DEF WorkerDies
<1>9. CASE EntryAges
  BY <1>9 DEF EntryAges
<1>10. CASE LockExpires
  BY <1>10 DEF LockExpires
<1>11. ASSUME NEW r \in Reader, AskAgain(r) PROVE BuilderInv'
  BY <1>11 DEF AskAgain
<1>12. CASE Rewrite
  BY <1>12 DEF Rewrite
<1>13. CASE UNCHANGED vars
  BY <1>13 DEF vars
<1>14. QED
  BY <1>1, <1>2, <1>3, <1>4, <1>5, <1>6, <1>7, <1>8, <1>9, <1>10, <1>11, <1>12, <1>13
     DEF Next, Refresh

\* Of two concurrent builders of an entry, one has outlived its lock.
THEOREM LockExcludes == Spec => []OneBuilderPerLock
<1>1. Init => BuilderInv
  BY DEF Init, BuilderInv, Building
<1>2. BuilderInv => OneBuilderPerLock
  BY DEF BuilderInv, OneBuilderPerLock
<1>3. QED
  BY <1>1, <1>2, BuilderStep, TypeInvariant, PTL DEF Spec

-----------------------------------------------------------------------------
(* Coherence.  No version anywhere is newer than the database's, and every   *)
(* version an unexposed entry lacks is on its way with an update.            *)

CountersOrdered ==
  /\ acked <= db
  /\ \A x \in Writer : written[x] <= db
  /\ \A r \in Reader : floor[r] <= acked
VersionsExist ==
  /\ entry.version <= db
  /\ \A p \in Proc : value[p] <= db
  /\ \A x \in Writer : markGot[x] <= db
LagIsPending ==
  (~exposed /\ Hit) =>
    \A v \in Nat : (entry.version < v /\ v <= db) => \E x \in Writer : Pending(x) /\ written[x] = v
OnlyListsAreMarked ==
  \A x \in Writer : writerPc[x] \in {"markGet", "markTtl", "markSet"} =>
    ~writeThrough

CoherenceInv == CountersOrdered /\ VersionsExist /\ LagIsPending /\ OnlyListsAreMarked

\* The empty or fresh cache a run starts from is coherent.
LEMMA CoherenceInit == Init => CoherenceInv
<1> SUFFICES ASSUME Init PROVE CoherenceInv
  OBVIOUS
<1>1. CountersOrdered
  BY DEF Init, CountersOrdered
<1>2. VersionsExist
  BY DEF Init, VersionsExist, NoEntry, NoVersion
<1>3. LagIsPending
  BY DEF Init, LagIsPending, Hit, NoEntry
<1>4. QED
  BY <1>1, <1>2, <1>3 DEF Init, CoherenceInv, OnlyListsAreMarked

\* A step of a process that leaves the cache, the database and the updates alone
\* keeps the cache coherent, whatever of the database it fetches.
LEMMA CoherenceKept ==
  ASSUME TypeInv, CoherenceInv,
         UNCHANGED <<writeThrough, db, entry, exposed, writerPc, written, markGot, acked>>,
         \/ floor' = floor
         \/ \E r \in Reader : \E n \in {0, acked} : floor' = [floor EXCEPT ![r] = n],
         \A p \in Proc : value'[p] \in {value[p], db, NoVersion}
  PROVE  CoherenceInv'
<1>1. CountersOrdered'
  BY DEF CoherenceInv, CountersOrdered, TypeInv, TypeOK
<1>2. VersionsExist'
  BY DEF CoherenceInv, VersionsExist, NoVersion, TypeInv, TypeOK
<1>3. LagIsPending' /\ OnlyListsAreMarked'
  BY DEF CoherenceInv, LagIsPending, Hit, Pending, OnlyListsAreMarked
<1>4. QED
  BY <1>1, <1>2, <1>3 DEF CoherenceInv

\* A commit nobody is told of makes an entry that is served an exposed one.
LEMMA UnannouncedKeeps ==
  ASSUME TypeInv, CoherenceInv, Unannounced,
         UNCHANGED <<writeThrough, entry, value, written, markGot, acked, floor>>,
         \A x \in Writer : writerPc'[x] \in {writerPc[x], "done"}
  PROVE  CoherenceInv'
<1>1. CountersOrdered'
  BY DEF CoherenceInv, CountersOrdered, Unannounced, NextVersion, TypeInv, TypeOK
<1>2. VersionsExist'
  <2>1. /\ entry.version \in Int
        /\ \A p \in Proc : value[p] \in Int
        /\ \A x \in Writer : markGot[x] \in Int
    BY DEF TypeInv, TypeOK, Entry, NoEntry, Version, NoVersion
  <2>2. QED
    BY <2>1 DEF CoherenceInv, VersionsExist, Unannounced, NextVersion, Version, NoVersion, TypeInv,
                TypeOK
<1>3. LagIsPending'
  BY DEF LagIsPending, Unannounced, Hit
<1>4. OnlyListsAreMarked'
  BY DEF CoherenceInv, OnlyListsAreMarked
<1>5. QED
  BY <1>1, <1>2, <1>3, <1>4 DEF CoherenceInv

\* An update that ends without writing to the cache exposes the entry if the
\* entry then lacks its version.
LEMMA EndsUnwritten ==
  ASSUME TypeInv, CoherenceInv, NEW x \in Writer, ~Missed(x),
         ~exposed, Hit,
         UNCHANGED <<entry, db>>,
         \A y \in Writer \ {x} : writerPc'[y] = writerPc[y] /\ written'[y] = written[y]
  PROVE  \A v \in Nat : (entry.version < v /\ v <= db) =>
           \E y \in Writer : Pending(y)' /\ written'[y] = v
<1> SUFFICES ASSUME NEW v \in Nat, entry.version < v, v <= db
             PROVE  \E y \in Writer : Pending(y)' /\ written'[y] = v
  OBVIOUS
<1>1. PICK y \in Writer : Pending(y) /\ written[y] = v
  BY DEF CoherenceInv, LagIsPending
<1>2. y # x
  BY <1>1 DEF Missed
<1>3. QED
  BY <1>1, <1>2 DEF Pending

\* Every step keeps the cache coherent or is counted as an exposure.
LEMMA CoherenceStep == TypeInv /\ CoherenceInv /\ [Next]_vars => CoherenceInv'
<1> SUFFICES ASSUME TypeInv, CoherenceInv, [Next]_vars PROVE CoherenceInv'
  OBVIOUS
<1> USE Processes DEF inputs, process, writer, memory, history
<1>1. ASSUME NEW r \in Reader, GetWithSWR(r) PROVE CoherenceInv'
  BY <1>1, CoherenceKept DEF GetWithSWR
<1>2. ASSUME NEW p \in Proc, AcquireLock(p) PROVE CoherenceInv'
  BY <1>2, CoherenceKept DEF AcquireLock
<1>3. ASSUME NEW p \in Proc, Fetch(p) PROVE CoherenceInv'
  <2>1. \A q \in Proc : value'[q] \in {value[q], db, NoVersion}
    BY <1>3 DEF Fetch, TypeInv, TypeOK
  <2>2. QED
    BY <1>3, <2>1, CoherenceKept DEF Fetch
<1>4. ASSUME NEW p \in Proc, Fill(p) PROVE CoherenceInv'
  <2>1. value[p] \in Nat /\ value[p] <= db
    BY <1>4, FillStores DEF CoherenceInv, VersionsExist
  <2>2. UNCHANGED <<writeThrough, db, value, writerPc, written, markGot, acked, floor>>
    BY <1>4 DEF Fill
  <2>3. CASE entry' = [version |-> value[p], age |-> "fresh"] /\ (~exposed' => ~(value[p] < db))
    <3>1. CountersOrdered' /\ VersionsExist' /\ OnlyListsAreMarked'
      BY <2>1, <2>2, <2>3 DEF CoherenceInv, CountersOrdered, VersionsExist, OnlyListsAreMarked
    <3>2. LagIsPending'
      BY <2>1, <2>2, <2>3 DEF LagIsPending, TypeInv, TypeOK
    <3>3. QED
      BY <3>1, <3>2 DEF CoherenceInv
  <2>4. CASE entry' = entry /\ (~exposed' => ~exposed)
    BY <2>2, <2>4 DEF CoherenceInv, CountersOrdered, VersionsExist, OnlyListsAreMarked,
                      LagIsPending, Hit, Pending
  <2>5. QED
    BY <1>4, <2>3, <2>4, FillStores
<1>5. ASSUME NEW p \in Proc, ReleaseLock(p) PROVE CoherenceInv'
  <2>1. \A q \in Proc : value'[q] \in {value[q], db, NoVersion}
    BY <1>5 DEF ReleaseLock, TypeInv, TypeOK
  <2>2. QED
    BY <1>5, <2>1, CoherenceKept DEF ReleaseLock
<1>6. ASSUME NEW p \in Proc, PollForCache(p) \/ FetchDirectly(p) PROVE CoherenceInv'
  BY <1>6, CoherenceKept DEF PollForCache, FetchDirectly
<1>7. ASSUME NEW r \in Reader, AskAgain(r) PROVE CoherenceInv'
  BY <1>7, CoherenceKept DEF AskAgain
<1>8. ASSUME NEW x \in Writer, Commit(x) PROVE CoherenceInv'
  <2>1. CASE /\ Unannounced /\ UNCHANGED written
             /\ writerPc' = [writerPc EXCEPT ![x] = "done"]
    <3>1. UNCHANGED <<writeThrough, entry, value, written, markGot, acked, floor>>
      BY <1>8, <2>1 DEF Commit
    <3>2. \A y \in Writer : writerPc'[y] \in {writerPc[y], "done"}
      BY <2>1 DEF TypeInv, TypeOK
    <3>3. QED
      BY <2>1, <3>1, <3>2, UnannouncedKeeps
  <2>2. CASE /\ NextVersion
             /\ written' = [written EXCEPT ![x] = db + 1]
             /\ writerPc' = [writerPc EXCEPT ![x] = "cache"]
             /\ UNCHANGED exposed
    <3>1. CountersOrdered'
      BY <1>8, <2>2 DEF Commit, NextVersion, CoherenceInv, CountersOrdered, TypeInv, TypeOK
    <3>2. VersionsExist' /\ OnlyListsAreMarked'
      <4>1. /\ entry.version \in Int
            /\ \A p \in Proc : value[p] \in Int
            /\ \A y \in Writer : markGot[y] \in Int
        BY DEF TypeInv, TypeOK, Entry, NoEntry, Version, NoVersion
      <4>2. QED
        BY <1>8, <2>2, <4>1 DEF Commit, NextVersion, CoherenceInv, VersionsExist,
                                OnlyListsAreMarked, TypeInv, TypeOK
    <3>3. LagIsPending'
      <4> SUFFICES ASSUME ~exposed, Hit, NEW v \in Nat, entry.version < v, v <= db + 1
                   PROVE  \E y \in Writer : Pending(y)' /\ written'[y] = v
        BY <1>8, <2>2 DEF Commit, NextVersion, LagIsPending, Hit
      <4>1. CASE v = db + 1
        BY <2>2, <4>1 DEF Pending, TypeInv, TypeOK
      <4>2. CASE v <= db
        <5>1. PICK y \in Writer : Pending(y) /\ written[y] = v
          BY <4>2 DEF CoherenceInv, LagIsPending
        <5>2. y # x
          BY <1>8, <5>1 DEF Commit, Pending
        <5>3. QED
          BY <2>2, <5>1, <5>2 DEF Pending, TypeInv, TypeOK
      <4>3. QED
        BY <4>1, <4>2 DEF TypeInv, TypeOK
    <3>4. QED
      BY <3>1, <3>2, <3>3 DEF CoherenceInv
  <2>3. CASE /\ UNCHANGED <<db, exposed, written>>
             /\ writerPc' = [writerPc EXCEPT ![x] = "done"]
    <3>1. CountersOrdered' /\ VersionsExist' /\ OnlyListsAreMarked'
      BY <1>8, <2>3 DEF Commit, CoherenceInv, CountersOrdered, VersionsExist, OnlyListsAreMarked,
                        TypeInv, TypeOK
    <3>2. \A y \in Writer : Pending(y) => Pending(y)'
      BY <1>8, <2>3 DEF Commit, Pending, TypeInv, TypeOK
    <3>3. LagIsPending'
      BY <1>8, <2>3, <3>2 DEF Commit, CoherenceInv, LagIsPending, Hit
    <3>4. QED
      BY <3>1, <3>3 DEF CoherenceInv
  <2>4. QED
    BY <1>8, <2>1, <2>2, <2>3 DEF Commit
<1>9. ASSUME NEW x \in Writer, Return(x), UNCHANGED <<db, floor>>
      PROVE  /\ CountersOrdered'
             /\ \A y \in Writer \ {x} : writerPc'[y] = writerPc[y] /\ written'[y] = written[y]
             /\ \A y \in Writer : writerPc'[y] \in {writerPc[y], "done"}
             /\ \A y \in Writer : markGot'[y] <= db
  <2>1. written[x] \in Nat /\ written[x] <= db /\ acked \in Nat /\ acked <= db /\ db \in Nat
    BY DEF CoherenceInv, CountersOrdered, TypeInv, TypeOK
  <2>2. acked' \in Nat /\ acked <= acked' /\ acked' <= db
    BY <1>9, <2>1 DEF Return
  <2>3. \A r \in Reader : floor[r] \in Nat /\ floor[r] <= acked
    BY DEF CoherenceInv, CountersOrdered, TypeInv, TypeOK
  <2>4. \A r \in Reader : floor[r] <= acked'
    BY <2>1, <2>2, <2>3
  <2>5. \A y \in Writer : written'[y] <= db
    BY <1>9, <2>1 DEF Return, CoherenceInv, CountersOrdered, TypeInv, TypeOK
  <2>6. \A y \in Writer : markGot'[y] <= db
    BY <1>9, <2>1 DEF Return, CoherenceInv, VersionsExist, NoVersion, TypeInv, TypeOK
  <2>7. QED
    BY <1>9, <2>2, <2>4, <2>5, <2>6 DEF CountersOrdered, Return, TypeInv, TypeOK
<1>10. ASSUME NEW x \in Writer, SetRecord(x) PROVE CoherenceInv'
  <2>1. written[x] \in Nat /\ written[x] <= db
    BY <1>10, UpdateStores DEF CoherenceInv, CountersOrdered
  <2>2. UNCHANGED <<writeThrough, db, value, floor>> /\ Return(x)
    BY <1>10 DEF SetRecord
  <2>3. CountersOrdered' /\ OnlyListsAreMarked'
    BY <1>9, <2>2 DEF CoherenceInv, OnlyListsAreMarked
  <2>4. CASE entry' = [version |-> written[x], age |-> "fresh"] /\ (~exposed' => ~(written[x] < db))
    <3>1. VersionsExist'
      BY <1>9, <2>1, <2>2, <2>4 DEF CoherenceInv, VersionsExist
    <3>2. LagIsPending'
      BY <2>1, <2>2, <2>4 DEF LagIsPending, TypeInv, TypeOK
    <3>3. QED
      BY <2>3, <3>1, <3>2 DEF CoherenceInv
  <2>5. CASE entry' = entry /\ (~exposed' => ~exposed /\ ~Missed(x))
    <3>1. VersionsExist'
      BY <1>9, <2>2, <2>5 DEF CoherenceInv, VersionsExist
    <3>2. LagIsPending'
      <4> SUFFICES ASSUME ~exposed', Hit'
                   PROVE  \A v \in Nat : (entry.version < v /\ v <= db) =>
                            \E y \in Writer : Pending(y)' /\ written'[y] = v
        BY <2>2, <2>5 DEF LagIsPending
      <4>1. ~exposed /\ ~Missed(x) /\ Hit
        BY <2>5 DEF Hit
      <4>2. QED
        BY <1>9, <2>2, <2>5, <4>1, EndsUnwritten
    <3>3. QED
      BY <2>3, <3>1, <3>2 DEF CoherenceInv
  <2>6. QED
    BY <1>10, <2>4, <2>5, UpdateStores
<1>11. ASSUME NEW x \in Writer, MarkFails(x) PROVE CoherenceInv'
  <2>1. CountersOrdered' /\ VersionsExist' /\ OnlyListsAreMarked'
    BY <1>9, <1>11 DEF MarkFails, CoherenceInv, VersionsExist, OnlyListsAreMarked
  <2>2. LagIsPending'
    <3> SUFFICES ASSUME ~exposed', Hit'
                 PROVE  \A v \in Nat : (entry.version < v /\ v <= db) =>
                          \E y \in Writer : Pending(y)' /\ written'[y] = v
      BY <1>11 DEF MarkFails, LagIsPending
    <3>1. ~exposed /\ ~Missed(x) /\ Hit
      BY <1>11 DEF MarkFails, Hit
    <3>2. QED
      BY <1>9, <1>11, <3>1, EndsUnwritten DEF MarkFails
  <2>3. QED
    BY <2>1, <2>2 DEF CoherenceInv
<1>12. ASSUME NEW x \in Writer, NEW stage \in {"markGet", "markTtl", "markSet"}, NEW got \in Version,
              MarkGoto(x, stage, got), ~writeThrough, Pending(x), got <= db,
              UNCHANGED <<writeThrough, db, entry, value, exposed, floor>>
       PROVE  CoherenceInv'
  <2>1. CASE entry.age = "absent"
    <3>1. Return(x) /\ ~Hit
      BY <1>12, <2>1 DEF MarkGoto, Hit
    <3>2. QED
      BY <1>9, <1>12, <3>1 DEF CoherenceInv, LagIsPending, OnlyListsAreMarked, VersionsExist, Hit
  <2>2. CASE entry.age # "absent"
    <3>1. /\ writerPc' = [writerPc EXCEPT ![x] = stage] /\ UNCHANGED <<written, acked>>
          /\ markGot' = [markGot EXCEPT ![x] = got]
      BY <1>12, <2>2 DEF MarkGoto
    <3>2. CountersOrdered' /\ VersionsExist'
      BY <1>12, <3>1 DEF CoherenceInv, CountersOrdered, VersionsExist, TypeInv, TypeOK
    <3>3. LagIsPending'
      BY <1>12, <3>1 DEF CoherenceInv, LagIsPending, Hit, Pending, TypeInv, TypeOK
    <3>4. OnlyListsAreMarked'
      BY <1>12, <3>1 DEF CoherenceInv, OnlyListsAreMarked, TypeInv, TypeOK
    <3>5. QED
      BY <3>2, <3>3, <3>4 DEF CoherenceInv
  <2>3. QED
    BY <2>1, <2>2
<1>13. ASSUME NEW x \in Writer, Scan(x) \/ MarkGet(x) \/ MarkTtl(x) PROVE CoherenceInv'
  <2>1. /\ NoVersion \in Version /\ NoVersion <= db
        /\ entry.version \in Version /\ entry.version <= db
        /\ markGot[x] \in Version /\ markGot[x] <= db
    BY DEF CoherenceInv, VersionsExist, Version, NoVersion, Entry, NoEntry, TypeInv, TypeOK
  <2>2. ~writeThrough /\ Pending(x)
    BY <1>13 DEF Scan, MarkGet, MarkTtl, CoherenceInv, OnlyListsAreMarked, Pending
  <2>3. QED
    BY <1>12, <1>13, <2>1, <2>2 DEF Scan, MarkGet, MarkTtl
<1>14. ASSUME NEW x \in Writer, MarkSet(x) PROVE CoherenceInv'
  <2>1. CountersOrdered' /\ OnlyListsAreMarked' /\ LagIsPending'
    BY <1>9, <1>14 DEF MarkSet, Backdated, CoherenceInv, OnlyListsAreMarked, LagIsPending, Hit
  <2>2. VersionsExist'
    BY <1>9, <1>14 DEF MarkSet, Backdated, CoherenceInv, VersionsExist
  <2>3. QED
    BY <2>1, <2>2 DEF CoherenceInv
<1>15. ASSUME NEW w \in Worker, FallbackExpires(w) \/ RedisHealthChanges(w)
       PROVE  CoherenceInv'
  BY <1>15, CoherenceKept DEF FallbackExpires, RedisHealthChanges
<1>16. ASSUME NEW w \in Worker, WorkerDies(w) PROVE CoherenceInv'
  <2>1. CountersOrdered' /\ OnlyListsAreMarked'
    BY <1>16 DEF WorkerDies, CoherenceInv, CountersOrdered, OnlyListsAreMarked, TypeInv, TypeOK
  <2>2. VersionsExist'
    BY <1>16 DEF WorkerDies, CoherenceInv, VersionsExist, NoVersion, TypeInv, TypeOK
  <2>3. LagIsPending'
    <3> SUFFICES ASSUME ~exposed', Hit', NEW v \in Nat, entry.version < v, v <= db
                 PROVE  \E y \in Writer : Pending(y)' /\ written'[y] = v
      BY <1>16 DEF WorkerDies, LagIsPending
    <3>1. ~exposed /\ Hit
      BY <1>16 DEF WorkerDies, Hit
    <3>2. PICK y \in Writer : Pending(y) /\ written[y] = v
      BY <3>1 DEF CoherenceInv, LagIsPending
    <3>3. Missed(y)
      BY <3>1, <3>2 DEF Missed
    <3>4. worker[y] # w
      BY <1>16, <3>2, <3>3 DEF WorkerDies
    <3>5. QED
      BY <1>16, <3>2, <3>4 DEF WorkerDies, Pending
  <2>4. QED
    BY <2>1, <2>2, <2>3 DEF CoherenceInv
<1>17. CASE EntryAges
  <2>1. CountersOrdered' /\ OnlyListsAreMarked'
    BY <1>17 DEF EntryAges, CoherenceInv, CountersOrdered, OnlyListsAreMarked
  <2>2. VersionsExist'
    BY <1>17 DEF EntryAges, CoherenceInv, VersionsExist, NoEntry, NoVersion, Entry, TypeInv, TypeOK
  <2>3. LagIsPending'
    BY <1>17 DEF EntryAges, CoherenceInv, LagIsPending, NoEntry, Entry, Hit, Pending, TypeInv,
                 TypeOK
  <2>4. QED
    BY <2>1, <2>2, <2>3 DEF CoherenceInv
<1>18. CASE LockExpires
  BY <1>18, CoherenceKept DEF LockExpires
<1>19. CASE Rewrite
  BY <1>19, UnannouncedKeeps DEF Rewrite
<1>20. CASE UNCHANGED vars
  BY <1>20, CoherenceKept DEF vars
<1>21. QED
  BY <1>1, <1>2, <1>3, <1>4, <1>5, <1>6, <1>7, <1>8, <1>10, <1>11, <1>13, <1>14, <1>15,
     <1>16, <1>17, <1>18, <1>19, <1>20 DEF Next, Refresh, Update

\* An entry served as fresh or stale, and not exposed, is what the database holds
\* once no update is on its way to the cache.
THEOREM Coherence == Spec => []CoherentUnlessExposed
<1>1. TypeInv /\ CoherenceInv => CoherentUnlessExposed
  <2> SUFFICES ASSUME TypeInv, CoherenceInv, ~exposed, Hit, \A x \in Writer : ~Pending(x)
               PROVE  entry.version = db
    BY DEF CoherentUnlessExposed
  <2>1. entry.version \in Nat /\ db \in Nat /\ entry.version <= db
    BY DEF TypeInv, TypeOK, Hit, Entry, NoEntry, CoherenceInv, VersionsExist
  <2>2. ~(entry.version < db)
    BY <2>1 DEF CoherenceInv, LagIsPending
  <2>3. QED
    BY <2>1, <2>2
<1>2. QED
  BY <1>1, CoherenceInit, CoherenceStep, TypeInvariant, PTL DEF Spec

-----------------------------------------------------------------------------
(* Answers.  An unexposed entry is never older than an update that returned, *)
(* and what a GET fetched itself was read after the GET had begun.           *)

ValuesDropped == \A p \in Proc : pc[p] \notin {"fill", "release"} => value[p] = NoVersion
FetchedAfterStart ==
  \A r \in Reader :
    LET p == <<r, "front">>
    IN /\ pc[p] = "idle" => answer[r].from = "none" /\ pc[<<r, "back">>] = "idle"
       /\ value[p] # NoVersion => value[p] >= floor[r]
OnlyFrontPolls == \A p \in Proc : pc[p] \in {"poll", "direct"} => p[2] = "front"
NeverMarked == writeThrough => entry.age # "marked"
HitsAreAcked == (~exposed /\ Hit) => entry.version >= acked

AnswerInv ==
  /\ ValuesDropped
  /\ FetchedAfterStart
  /\ OnlyFrontPolls
  /\ NeverMarked
  /\ HitsAreAcked
  /\ NoOldAnswer

\* Nothing has been answered at first.
LEMMA AnswerInit == Init => AnswerInv
<1> SUFFICES ASSUME Init PROVE AnswerInv
  OBVIOUS
<1>1. ValuesDropped /\ FetchedAfterStart /\ OnlyFrontPolls
  BY Processes DEF Init, ValuesDropped, FetchedAfterStart, OnlyFrontPolls, NoVersion, NoAnswer
<1>2. NeverMarked /\ HitsAreAcked
  BY DEF Init, NeverMarked, HitsAreAcked, Hit, NoEntry
<1>3. NoOldAnswer
  BY DEF Init, NoOldAnswer, NoAnswer
<1>4. QED
  BY <1>1, <1>2, <1>3 DEF AnswerInv

\* A step of a process past its first GET changes neither entry nor counters; it
\* keeps the invariant if what it serves, or fetches, is new enough.
LEMMA ProcessStep ==
  ASSUME TypeInv, CoherenceInv, AnswerInv, NEW p \in Proc,
         pc[p] # "idle",
         \E stage : /\ stage # "idle" /\ (stage \in {"poll", "direct"} => p[2] = "front")
                    /\ stage \notin {"fill", "release"} => value'[p] = NoVersion
                    /\ Goto(p, stage),
         value' = value \/ \E v \in {db, NoVersion} : value' = [value EXCEPT ![p] = v],
         \/ UNCHANGED answer
         \/ \E version, from :
              /\ p[2] = "front" /\ Serve(p[1], version, from)
              /\ (writeThrough /\ from = "store") => version >= floor[p[1]],
         UNCHANGED <<writeThrough, db, entry, exposed, acked, written, floor>>
  PROVE  AnswerInv'
<1>1. NeverMarked' /\ HitsAreAcked'
  BY DEF AnswerInv, NeverMarked, HitsAreAcked, Hit
<1>2. FetchedAfterStart'
  <2> SUFFICES ASSUME NEW r \in Reader
               PROVE  /\ pc'[<<r, "front">>] = "idle" =>
                           answer'[r].from = "none" /\ pc'[<<r, "back">>] = "idle"
                      /\ value'[<<r, "front">>] # NoVersion => value'[<<r, "front">>] >= floor'[r]
    BY DEF FetchedAfterStart
  <2>1. <<r, "front">> \in Proc /\ db >= floor[r]
    <3>1. floor[r] <= acked /\ acked <= db /\ floor[r] \in Nat /\ acked \in Nat /\ db \in Nat
      BY DEF CoherenceInv, CountersOrdered, TypeInv, TypeOK
    <3>2. db >= floor[r]
      BY <3>1
    <3>3. QED
      BY <3>2, Processes
  <2>2. /\ pc'[<<r, "front">>] = "idle" => pc[<<r, "front">>] = "idle" /\ <<r, "front">> # p
        /\ value'[<<r, "front">>] \in {value[<<r, "front">>], db, NoVersion}
        /\ <<r, "front">> # p => value'[<<r, "front">>] = value[<<r, "front">>]
        /\ pc[<<r, "back">>] = "idle" => pc'[<<r, "back">>] = "idle"
    BY <2>1, Processes DEF Goto, TypeInv, TypeOK
  <2>3. <<r, "front">> # p => answer'[r] = answer[r]
    BY Processes DEF Serve, TypeInv, TypeOK
  <2>4. QED
    BY <2>1, <2>2, <2>3 DEF AnswerInv, FetchedAfterStart
<1>3. NoOldAnswer'
  <2> SUFFICES ASSUME NEW r \in Reader, writeThrough, answer'[r].from = "store"
               PROVE  answer'[r].version >= floor[r]
    BY DEF NoOldAnswer
  <2>1. CASE answer'[r] = answer[r]
    BY <2>1 DEF AnswerInv, NoOldAnswer
  <2>2. CASE answer'[r] # answer[r]
    <3>1. PICK version, from :
            /\ Serve(p[1], version, from)
            /\ (writeThrough /\ from = "store") => version >= floor[p[1]]
      BY <2>2
    <3>2. r = p[1] /\ answer'[r] = [version |-> version, from |-> from]
      BY <2>2, <3>1, Processes DEF Serve, TypeInv, TypeOK
    <3>3. QED
      BY <3>1, <3>2
  <2>3. QED
    BY <2>1, <2>2
<1>4. OnlyFrontPolls' /\ ValuesDropped'
  BY DEF AnswerInv, OnlyFrontPolls, ValuesDropped, Goto, TypeInv, TypeOK
<1>5. QED
  BY <1>1, <1>2, <1>3, <1>4 DEF AnswerInv

\* A step that leaves the processes' answers and fetches alone keeps the
\* invariant if it keeps the entry new enough.
LEMMA OtherStep ==
  ASSUME AnswerInv, NeverMarked', HitsAreAcked',
         UNCHANGED <<writeThrough, answer, floor>>,
         \A p \in Proc : value'[p] \in {value[p], NoVersion},
         \A p \in Proc : pc'[p] \notin {"fill", "release"} =>
           value'[p] = NoVersion \/ pc[p] \notin {"fill", "release"},
         \A p \in Proc : pc'[p] \in {"idle", "poll", "direct"} => pc'[p] = pc[p],
         \A p \in Proc : pc[p] = "idle" => pc'[p] = "idle"
  PROVE  AnswerInv'
<1>1. ValuesDropped' /\ FetchedAfterStart' /\ OnlyFrontPolls'
  BY Processes DEF AnswerInv, ValuesDropped, FetchedAfterStart, OnlyFrontPolls
<1>2. NoOldAnswer'
  BY DEF AnswerInv, NoOldAnswer
<1>3. QED
  BY <1>1, <1>2 DEF AnswerInv

\* Every step answers with a version new enough.
LEMMA AnswerStep == TypeInv /\ CoherenceInv /\ AnswerInv /\ [Next]_vars => AnswerInv'
<1> SUFFICES ASSUME TypeInv, CoherenceInv, AnswerInv, [Next]_vars PROVE AnswerInv'
  OBVIOUS
<1> USE Processes DEF inputs, process, writer, memory, history
<1>1. ASSUME NEW r \in Reader, GetWithSWR(r) PROVE AnswerInv'
  <2> DEFINE p == <<r, "front">>
  <2>1. NeverMarked' /\ HitsAreAcked'
    BY <1>1 DEF GetWithSWR, AnswerInv, NeverMarked, HitsAreAcked, Hit
  <2>2. ValuesDropped' /\ FetchedAfterStart' /\ OnlyFrontPolls'
    <3>1. value[p] = NoVersion /\ value' = value
      BY <1>1 DEF GetWithSWR, AnswerInv, ValuesDropped
    <3>2. /\ \A q \in Proc : pc'[q] \in {"idle", "poll", "direct"} => pc'[q] = pc[q]
          /\ pc'[p] # "idle"
          /\ \A q \in Proc : pc'[q] = pc[q] \/ pc[q] = "idle"
          /\ \A q \in Proc : q[1] # r => pc'[q] = pc[q]
      <4>1. \E stage \in {"lock", "done"}, rest \in {pc, [pc EXCEPT ![<<r, "back">>] = "lock"]} :
              pc' = [rest EXCEPT ![p] = stage]
        <5>1. CASE pc' = [pc EXCEPT ![p] = "done", ![<<r, "back">>] = "lock"]
          BY <5>1 DEF TypeInv, TypeOK
        <5>2. CASE \E stage \in {"lock", "done"} : pc' = [pc EXCEPT ![p] = stage]
          BY <5>2
        <5>3. QED
          BY <1>1, <5>1, <5>2 DEF GetWithSWR, FromMemory, Goto
      <4>2. PICK stage \in {"lock", "done"}, rest \in {pc, [pc EXCEPT ![<<r, "back">>] = "lock"]} :
              pc' = [rest EXCEPT ![p] = stage]
        BY <4>1
      <4>3. DOMAIN rest = Proc /\ \A q \in Proc : rest[q] \in {pc[q], "lock"}
        BY DEF TypeInv, TypeOK
      <4>4. \A q \in Proc : pc'[q] \in {pc[q], "lock", stage} /\ (q # p => pc'[q] \in {pc[q], "lock"})
        BY <4>2, <4>3 DEF TypeInv, TypeOK
      <4>5. pc[p] = "idle" /\ pc'[p] = stage
        BY <1>1, <4>2, <4>3 DEF GetWithSWR
      <4>6. pc[<<r, "back">>] = "idle"
        BY <4>5 DEF AnswerInv, FetchedAfterStart
      <4>7. \A q \in Proc : q # <<r, "back">> => rest[q] = pc[q]
        BY DEF TypeInv, TypeOK
      <4>8. \A q \in Proc : q \notin {p, <<r, "back">>} => pc'[q] = pc[q]
        BY <4>2, <4>3, <4>7
      <4>9. QED
        BY <4>4, <4>5, <4>6, <4>8
    <3>3. \A s \in Reader : s # r => floor'[s] = floor[s] /\ answer'[s] = answer[s]
      BY <1>1 DEF GetWithSWR, FromMemory, Serve, TypeInv, TypeOK
    <3>4. OnlyFrontPolls' /\ ValuesDropped'
      BY <3>1, <3>2 DEF AnswerInv, OnlyFrontPolls, ValuesDropped
    <3>5. FetchedAfterStart'
      <4> SUFFICES ASSUME NEW s \in Reader
                   PROVE  /\ pc'[<<s, "front">>] = "idle" =>
                               answer'[s].from = "none" /\ pc'[<<s, "back">>] = "idle"
                          /\ value'[<<s, "front">>] # NoVersion =>
                               value'[<<s, "front">>] >= floor'[s]
        BY DEF FetchedAfterStart
      <4>1. CASE s = r
        BY <3>1, <3>2, <4>1
      <4>2. CASE s # r
        BY <3>1, <3>2, <3>3, <4>2 DEF AnswerInv, FetchedAfterStart
      <4>3. QED
        BY <4>1, <4>2
    <3>6. QED
      BY <3>4, <3>5
  <2>3. NoOldAnswer'
    <3> SUFFICES ASSUME NEW s \in Reader, writeThrough', answer'[s].from = "store"
                 PROVE  answer'[s].version >= floor'[s]
      BY DEF NoOldAnswer
    <3>1. CASE s # r
      <4>1. /\ answer'[s] = answer[s] /\ floor'[s] = floor[s]
            /\ writeThrough' = writeThrough
        BY <1>1, <3>1 DEF GetWithSWR, FromMemory, Serve, TypeInv, TypeOK
      <4>2. QED
        BY <4>1 DEF AnswerInv, NoOldAnswer
    <3>2. CASE s = r /\ UNCHANGED answer
      <4>1. answer[s].from # "store"
        BY <1>1, <3>2 DEF AnswerInv, FetchedAfterStart, GetWithSWR
      <4>2. QED
        BY <3>2, <4>1
    <3>3. CASE s = r /\ Serve(r, entry.version, FromRedis) /\ Hit
      <4>1. /\ floor'[s] = acked /\ ~exposed
            /\ answer'[s].version = entry.version
        BY <1>1, <3>3 DEF GetWithSWR, Serve, FromRedis, TypeInv, TypeOK
      <4>2. QED
        BY <3>3, <4>1 DEF AnswerInv, HitsAreAcked
    <3>4. CASE s = r /\ Serve(r, fallback[worker[r]], "memory")
      BY <3>4 DEF Serve, TypeInv, TypeOK
    <3>5. QED
      BY <1>1, <3>1, <3>2, <3>3, <3>4 DEF GetWithSWR, FromMemory
  <2>4. QED
    BY <2>1, <2>2, <2>3 DEF AnswerInv
<1>2. ASSUME NEW p \in Proc, AcquireLock(p) PROVE AnswerInv'
  <2>1. value'[p] = NoVersion
    BY <1>2 DEF AcquireLock, AnswerInv, ValuesDropped
  <2>2. QED
    BY <1>2, <2>1, ProcessStep DEF AcquireLock, Contended
<1>3. ASSUME NEW p \in Proc, Fetch(p) PROVE AnswerInv'
  <2>1. value[p] = NoVersion
    BY <1>3 DEF Fetch, AnswerInv, ValuesDropped
  <2>2. QED
    BY <1>3, <2>1, ProcessStep DEF Fetch
<1>4. ASSUME NEW p \in Proc, Fill(p) PROVE AnswerInv'
  <2>1. value[p] \in Nat /\ value[p] <= db /\ acked <= db
    BY <1>4, FillStores DEF CoherenceInv, VersionsExist, CountersOrdered
  <2>2. NeverMarked' /\ HitsAreAcked'
    <3>1. CASE entry' = [version |-> value[p], age |-> "fresh"] /\ (~exposed' => ~(value[p] < db))
      BY <1>4, <2>1, <3>1 DEF Fill, NeverMarked, HitsAreAcked, TypeInv, TypeOK
    <3>2. CASE entry' = entry /\ (~exposed' => ~exposed)
      BY <1>4, <3>2 DEF Fill, AnswerInv, NeverMarked, HitsAreAcked, Hit
    <3>3. QED
      BY <1>4, <3>1, <3>2, FillStores
  <2>3. \A q \in Proc : /\ pc'[q] \in {pc[q], "release"}
                        /\ pc[q] = "idle" => pc'[q] = "idle"
    BY <1>4 DEF Fill, Goto, TypeInv, TypeOK
  <2>4. QED
    <3>1. UNCHANGED <<writeThrough, answer, floor, value>>
      BY <1>4 DEF Fill
    <3>2. \A q \in Proc : pc'[q] \notin {"fill", "release"} => pc[q] \notin {"fill", "release"}
      BY <2>3
    <3>3. \A q \in Proc : pc'[q] \in {"idle", "poll", "direct"} => pc'[q] = pc[q]
      BY <2>3
    <3>4. QED
      BY <2>2, <2>3, <3>1, <3>2, <3>3, OtherStep
<1>5. ASSUME NEW p \in Proc, ReleaseLock(p) PROVE AnswerInv'
  <2>1. ASSUME p[2] = "front", value[p] # NoVersion PROVE value[p] >= floor[p[1]]
    <3>1. p[1] \in Reader /\ p = <<p[1], "front">>
      BY <2>1
    <3>2. QED
      BY <2>1, <3>1 DEF AnswerInv, FetchedAfterStart
  <2>2. value'[p] = NoVersion
    BY <1>5 DEF ReleaseLock, TypeInv, TypeOK
  <2>3. QED
    BY <1>5, <2>1, <2>2, ProcessStep DEF ReleaseLock
<1>6. ASSUME NEW p \in Proc, PollForCache(p) PROVE AnswerInv'
  <2>1. (writeThrough /\ FromRedis = "store" /\ entry.age # "absent") =>
          entry.version >= floor[p[1]]
    <3>1. (writeThrough /\ entry.age # "absent") => Hit
      BY DEF AnswerInv, NeverMarked, Hit, TypeInv, TypeOK, Entry, NoEntry
    <3>2. (~exposed /\ Hit) => entry.version \in Nat /\ entry.version >= acked
      BY DEF AnswerInv, HitsAreAcked, Hit, TypeInv, TypeOK, Entry, NoEntry
    <3>3. QED
      BY <3>1, <3>2 DEF FromRedis, CoherenceInv, CountersOrdered, TypeInv, TypeOK
  <2>2. p[2] = "front"
    BY <1>6 DEF PollForCache, AnswerInv, OnlyFrontPolls
  <2>3. value'[p] = NoVersion
    BY <1>6 DEF PollForCache, AnswerInv, ValuesDropped
  <2>4. \E stage \in {"done", "direct"} : Goto(p, stage)
    BY <1>6 DEF PollForCache, FromMemory
  <2>5. \/ UNCHANGED answer
        \/ Serve(p[1], entry.version, FromRedis) /\ entry.age # "absent"
        \/ Serve(p[1], fallback[worker[p[1]]], "memory")
    BY <1>6 DEF PollForCache, FromMemory
  <2>6. \/ UNCHANGED answer
        \/ \E version, from :
             /\ p[2] = "front" /\ Serve(p[1], version, from)
             /\ (writeThrough /\ from = "store") => version >= floor[p[1]]
    <3>1. CASE Serve(p[1], entry.version, FromRedis) /\ entry.age # "absent"
      BY <2>1, <2>2, <3>1
    <3>2. CASE Serve(p[1], fallback[worker[p[1]]], "memory")
      BY <2>2, <3>2
    <3>3. QED
      BY <2>5, <3>1, <3>2
  <2>7. QED
    BY <1>6, <2>2, <2>3, <2>4, <2>6, ProcessStep DEF PollForCache
<1>7. ASSUME NEW p \in Proc, FetchDirectly(p) PROVE AnswerInv'
  <2>1. db >= floor[p[1]]
    BY DEF CoherenceInv, CountersOrdered, TypeInv, TypeOK
  <2>2. p[2] = "front" /\ value'[p] = NoVersion
    BY <1>7 DEF FetchDirectly, AnswerInv, OnlyFrontPolls, ValuesDropped
  <2>3. QED
    BY <1>7, <2>1, <2>2, ProcessStep DEF FetchDirectly
<1>8. ASSUME NEW x \in Writer, Commit(x) PROVE AnswerInv'
  <2>1. NeverMarked' /\ HitsAreAcked'
    BY <1>8 DEF Commit, Unannounced, AnswerInv, NeverMarked, HitsAreAcked, Hit
  <2>2. QED
    BY <1>8, <2>1, OtherStep DEF Commit
<1>9. ASSUME NEW x \in Writer, Return(x)
      PROVE  /\ acked' <= db
             /\ ~Missed(x) /\ Hit /\ ~exposed => entry.version >= acked'
  <2>1. acked <= db /\ written[x] <= db
    BY DEF CoherenceInv, CountersOrdered
  <2>2. ~Missed(x) /\ Hit /\ ~exposed => entry.version >= acked /\ entry.version >= written[x]
    BY DEF Missed, AnswerInv, HitsAreAcked, Hit, Entry, NoEntry, TypeInv, TypeOK
  <2>3. QED
    BY <1>9, <2>1, <2>2 DEF Return
<1>10. ASSUME NEW x \in Writer, SetRecord(x) PROVE AnswerInv'
  <2>1. /\ acked' <= db
        /\ ~Missed(x) /\ Hit /\ ~exposed => entry.version >= acked'
        /\ written[x] \in Nat /\ db \in Nat /\ acked' \in Nat /\ written[x] <= db
    <3>1. acked' \in Nat
      BY <1>10 DEF SetRecord, Return, TypeInv, TypeOK
    <3>2. QED
      BY <1>9, <1>10, <3>1 DEF SetRecord, CoherenceInv, CountersOrdered, TypeInv, TypeOK
  <2>2. NeverMarked' /\ HitsAreAcked'
    <3>1. CASE /\ entry' = [version |-> written[x], age |-> "fresh"]
               /\ (~exposed' => ~(written[x] < db))
      BY <1>10, <2>1, <3>1 DEF SetRecord, NeverMarked, HitsAreAcked
    <3>2. CASE entry' = entry /\ (~exposed' => ~exposed /\ ~Missed(x))
      BY <1>10, <2>1, <3>2 DEF SetRecord, AnswerInv, NeverMarked, HitsAreAcked, Hit
    <3>3. QED
      BY <1>10, <3>1, <3>2, UpdateStores
  <2>3. QED
    BY <1>10, <2>2, OtherStep DEF SetRecord
<1>11. ASSUME NEW x \in Writer, MarkFails(x) PROVE AnswerInv'
  <2>1. NeverMarked' /\ HitsAreAcked'
    BY <1>9, <1>11 DEF MarkFails, AnswerInv, NeverMarked, HitsAreAcked, Hit
  <2>2. QED
    BY <1>11, <2>1, OtherStep DEF MarkFails
<1>12. ASSUME NEW x \in Writer, Scan(x) \/ MarkGet(x) \/ MarkTtl(x) PROVE AnswerInv'
  <2>1. entry.age # "absent" => UNCHANGED acked
    BY <1>12 DEF Scan, MarkGet, MarkTtl, MarkGoto
  <2>2. NeverMarked' /\ HitsAreAcked'
    BY <1>12, <2>1 DEF Scan, MarkGet, MarkTtl, AnswerInv, NeverMarked, HitsAreAcked, Hit
  <2>3. QED
    BY <1>12, <2>2, OtherStep DEF Scan, MarkGet, MarkTtl
<1>13. ASSUME NEW x \in Writer, MarkSet(x) PROVE AnswerInv'
  <2>1. NeverMarked' /\ HitsAreAcked'
    BY <1>13 DEF MarkSet, Backdated, CoherenceInv, OnlyListsAreMarked, NeverMarked, HitsAreAcked,
                 Hit
  <2>2. QED
    BY <1>13, <2>1, OtherStep DEF MarkSet
<1>14. ASSUME NEW w \in Worker, FallbackExpires(w) \/ RedisHealthChanges(w) PROVE AnswerInv'
  BY <1>14, OtherStep DEF FallbackExpires, RedisHealthChanges, AnswerInv, NeverMarked,
                          HitsAreAcked, Hit
<1>15. ASSUME NEW w \in Worker, WorkerDies(w) PROVE AnswerInv'
  <2>1. \A p \in Proc : /\ pc'[p] \in {"idle", "poll", "direct"} => pc'[p] = pc[p]
                        /\ pc[p] = "idle" => pc'[p] = "idle"
                        /\ value'[p] = NoVersion \/ pc'[p] = pc[p]
                        /\ value'[p] \in {value[p], NoVersion}
    BY <1>15 DEF WorkerDies
  <2>2. NeverMarked' /\ HitsAreAcked'
    BY <1>15 DEF WorkerDies, AnswerInv, NeverMarked, HitsAreAcked, Hit
  <2>3. QED
    BY <1>15, <2>1, <2>2, OtherStep DEF WorkerDies
<1>16. CASE EntryAges
  <2>1. NeverMarked' /\ HitsAreAcked'
    BY <1>16 DEF EntryAges, NoEntry, Entry, TypeInv, TypeOK, AnswerInv, NeverMarked,
                 HitsAreAcked, Hit
  <2>2. QED
    BY <1>16, <2>1, OtherStep DEF EntryAges
<1>17. CASE LockExpires
  BY <1>17, OtherStep DEF LockExpires, AnswerInv, NeverMarked, HitsAreAcked, Hit
<1>18. ASSUME NEW r \in Reader, AskAgain(r) PROVE AnswerInv'
  <2>1. NeverMarked' /\ HitsAreAcked'
    BY <1>18 DEF AskAgain, AnswerInv, NeverMarked, HitsAreAcked, Hit
  <2>2. ValuesDropped' /\ OnlyFrontPolls'
    BY <1>18 DEF AskAgain, AnswerInv, ValuesDropped, OnlyFrontPolls, TypeInv, TypeOK
  <2>3. FetchedAfterStart'
    <3>1. value[<<r, "front">>] = NoVersion
      BY <1>18 DEF AskAgain, AnswerInv, ValuesDropped
    <3>2. \A s \in Reader \ {r} : floor'[s] = floor[s] /\ answer'[s] = answer[s]
      BY <1>18 DEF AskAgain, TypeInv, TypeOK
    <3>3. /\ answer'[r].from = "none" /\ pc'[<<r, "back">>] = "idle"
          /\ \A s \in Reader \ {r} : \A side \in {"front", "back"} : pc'[<<s, side>>] = pc[<<s, side>>]
      BY <1>18 DEF AskAgain, NoAnswer, TypeInv, TypeOK
    <3>4. QED
      BY <1>18, <3>1, <3>2, <3>3 DEF AskAgain, AnswerInv, FetchedAfterStart
  <2>4. NoOldAnswer'
    BY <1>18 DEF AskAgain, AnswerInv, NoOldAnswer, NoAnswer, TypeInv, TypeOK
  <2>5. QED
    BY <2>1, <2>2, <2>3, <2>4 DEF AnswerInv
<1>19. CASE Rewrite
  <2>1. NeverMarked' /\ HitsAreAcked'
    BY <1>19 DEF Rewrite, Unannounced, AnswerInv, NeverMarked, HitsAreAcked, Hit
  <2>2. QED
    BY <1>19, <2>1, OtherStep DEF Rewrite
<1>20. CASE UNCHANGED vars
  BY <1>20, OtherStep DEF vars, AnswerInv, NeverMarked, HitsAreAcked, Hit
<1>21. QED
  BY <1>1, <1>2, <1>3, <1>4, <1>5, <1>6, <1>7, <1>8, <1>10, <1>11, <1>12, <1>13, <1>14,
     <1>15, <1>16, <1>17, <1>18, <1>19, <1>20 DEF Next, Refresh, Update

\* A GET of a record is never answered, from the database or an entry not exposed
\* when it was read, a version older than an update that returned before it.
THEOREM AnswersAreNew == Spec => []NoOldAnswer
<1>1. AnswerInv => NoOldAnswer
  BY DEF AnswerInv
<1>2. QED
  BY <1>1, AnswerInit, AnswerStep, CoherenceInit, CoherenceStep, TypeInvariant, PTL DEF Spec
=============================================================================
