--------------------------- MODULE ConsoleProofs ---------------------------
(***************************************************************************)
(* What the pages show of one's own changes, and in which order they show  *)
(* the answers of the server, for any number of changes, of attempts and   *)
(* of changes made elsewhere.                                              *)
(***************************************************************************)
EXTENDS Console, TLAPS

User == UserRole \cup {NoUser}

\* Every user has a home.
LEMMA HomeIsPage ==
  ASSUME NEW u \in User
  PROVE  Home(u) \in Page
BY DEF Home, User, UserRole, NoUser, HasPermission, Permission, PermissionOf, Page, Public

\* Whatever page a user asks for, he ends up on a page.
LEMMA RouteIsPage ==
  ASSUME NEW u \in User, NEW p \in Page
  PROVE  ProtectedRoute(u, p) \in Page
<1>1. CASE p \in {"login", "landing"}
  BY <1>1, HomeIsPage DEF ProtectedRoute, Public
<1>2. CASE p \notin {"login", "landing"}
  <2>1. "unauthorized" \in Page /\ "login" \in Page
    BY DEF Page, Public
  <2>2. QED
    BY <1>2, <2>1 DEF ProtectedRoute
<1>3. QED
  BY <1>1, <1>2

-----------------------------------------------------------------------------
(* Types, and the session. *)

TypeInv ==
  /\ TypeOK
  /\ \A m \in Mutation : key \in Affects[kind[m]]

\* Every initial state has the types.
LEMMA TypeInit == Init => TypeInv
<1> SUFFICES ASSUME Init PROVE TypeInv
  OBVIOUS
<1>1. page \in Page
  BY DEF Init, Public, Page
<1>2. kind \in [Mutation -> Kind] /\ \A m \in Mutation : key \in Affects[kind[m]]
  BY DEF Init
<1>3. /\ tries \in [Mutation -> 0..MaxTries] /\ late \in [Mutation -> Nat]
      /\ at \in [Mutation -> Nat] /\ elsewhere \in 0..MaxElsewhere
      /\ pc \in [Mutation -> {"idle", "sent", "answered", "told", "refused"}]
  BY ConstantsOK DEF Init
<1>4. data \in Nat /\ got \in Nat /\ server \in Nat \ {None}
  BY DEF Init, None
<1>5. QED
  BY <1>1, <1>2, <1>3, <1>4 DEF Init, TypeInv, TypeOK

\* Opening a page keeps the types of the cache entry.
LEMMA GoToTypes ==
  ASSUME TypeInv, NEW p \in Page, GoTo(p)
  PROVE  /\ page' = p /\ UNCHANGED <<key, server, elsewhere, kind, pc, tries, late, at, stale>>
         /\ mounted' = {}
         /\ data' \in {data, None} /\ got' \in Nat
         /\ failed' \in BOOLEAN /\ overtaken' \in BOOLEAN
         /\ fetch' \in {"idle", "asked", "answered"}
<1>1. page' = p /\ UNCHANGED <<key, server, elsewhere, kind, pc, tries, late, at, stale>>
  BY DEF GoTo
<1>2. mounted' = {} /\ data' \in {data, None}
  BY DEF GoTo
<1>3. got' \in {got, None}
  BY DEF GoTo, Ask
<1>4. failed' \in BOOLEAN
  BY DEF GoTo, TypeInv, TypeOK
<1>5. overtaken' \in BOOLEAN
  BY DEF GoTo, TypeInv, TypeOK
<1>6. fetch' \in {"idle", "asked", "answered"}
  BY DEF GoTo, Ask, TypeInv, TypeOK
<1>7. got \in Nat /\ None \in Nat
  BY DEF TypeInv, TypeOK, None
<1>8. QED
  BY <1>1, <1>2, <1>3, <1>4, <1>5, <1>6, <1>7

\* No step leaves the types, or leads a user to a page he may not see.
LEMMA TypeStep == TypeInv /\ [Next]_vars => TypeInv'
<1> SUFFICES ASSUME TypeInv, [Next]_vars PROVE TypeInv'
  OBVIOUS
<1>0. /\ TypeOK /\ user \in User
      /\ \A m \in Mutation : key \in Affects[kind[m]]
  BY DEF TypeInv, TypeOK, User
<1>1. ASSUME \/ Answer \/ Arrive \/ FetchFails \/ Poll \/ Export \/ GrowStale \/ Collect
      PROVE TypeInv'
  <2>1. UNCHANGED <<user, key, page, server, elsewhere, kind, pc, tries, late, mounted, at>>
    BY <1>1 DEF Answer, Arrive, FetchFails, Poll, Export, GrowStale, Collect, mutations
  <2>2. data' \in {data, got, None} /\ got' \in {got, server, None} /\ None \in Nat
    BY <1>1 DEF Answer, Arrive, FetchFails, Poll, Export, GrowStale, Collect, Ask, None
  <2>3. fetch' \in {"idle", "asked", "answered"}
    BY <1>0, <1>1 DEF TypeOK, Answer, Arrive, FetchFails, Poll, Export, GrowStale, Collect, Ask
  <2>4. stale' \in {stale, TRUE, FALSE}
    BY <1>1 DEF Answer, Arrive, FetchFails, Poll, Export, GrowStale, Collect
  <2>5. failed' \in {failed, TRUE, FALSE}
    BY <1>1 DEF Answer, Arrive, FetchFails, Poll, Export, GrowStale, Collect
  <2>6. overtaken' \in {overtaken, FALSE}
    BY <1>1 DEF Answer, Arrive, FetchFails, Poll, Export, GrowStale, Collect
  <2>7. stale' \in BOOLEAN /\ failed' \in BOOLEAN /\ overtaken' \in BOOLEAN
    BY <1>0, <2>4, <2>5, <2>6 DEF TypeOK
  <2>8. data' \in Nat /\ got' \in Nat
    BY <1>0, <2>2 DEF TypeOK
  <2>9. QED
    BY <1>0, <2>1, <2>3, <2>7, <2>8 DEF TypeInv, TypeOK
<1>2. ASSUME NEW u \in User, NEW p \in Page, user' = u, GoTo(p) PROVE TypeInv'
  BY <1>0, <1>2, GoToTypes DEF TypeInv, TypeOK, User, None
<1>3. ASSUME NEW p \in Page, Open(p) PROVE TypeInv'
  BY <1>0, <1>2, <1>3, RouteIsPage DEF Open
<1>4. ASSUME NEW u \in UserRole, Login(u) PROVE TypeInv'
  BY <1>2, <1>4, HomeIsPage DEF Login, User
<1>5. CASE Logout
  BY <1>2, <1>5 DEF Logout, User, Public, Page
<1>6. ASSUME NEW u \in User, Reload(u) PROVE TypeInv'
  <2>1. page' \in Page
    BY <1>0, <1>6, RouteIsPage DEF Reload, TypeOK
  <2>2. /\ user' = u /\ UNCHANGED <<key, server, elsewhere, kind, tries, at>>
        /\ data' = None /\ stale' = FALSE /\ failed' = FALSE /\ overtaken' = FALSE
        /\ fetch' \in {"asked", "idle"} /\ got' = None /\ mounted' = {}
    BY <1>6 DEF Reload
  <2>3. pc' \in [Mutation -> {"idle", "sent", "answered", "told", "refused"}]
    BY <1>0, <1>6 DEF Reload, TypeOK
  <2>4. late' \in [Mutation -> Nat]
    BY <1>0, <1>6 DEF Reload, TypeOK
  <2>5. QED
    BY <1>0, <2>1, <2>2, <2>3, <2>4 DEF TypeInv, TypeOK, User, None
<1>7. CASE Elsewhere
  <2>1. /\ UNCHANGED <<user, key, page, data, stale, failed, fetch, got, overtaken>>
        /\ UNCHANGED <<kind, pc, tries, late, mounted, at>>
    BY <1>7 DEF Elsewhere, entry, mutations
  <2>2. elsewhere' \in 0..MaxElsewhere /\ server' \in Nat \ {None}
    BY <1>0, <1>7, ConstantsOK DEF Elsewhere, TypeOK, None
  <2>3. QED
    BY <1>0, <2>1, <2>2 DEF TypeInv, TypeOK
<1>8. ASSUME NEW m \in Mutation, Click(m) \/ Land(m) \/ Fail(m) \/ LandLate(m) PROVE TypeInv'
  <2>1. UNCHANGED <<user, key, page, data, stale, failed, fetch, got, overtaken, elsewhere, kind>>
    BY <1>8 DEF Click, Land, Fail, LandLate, entry
  <2>2. server' \in Nat \ {None} /\ mounted' \in SUBSET Mutation
    BY <1>0, <1>8 DEF Click, Land, Fail, LandLate, TypeOK, None
  <2>3. /\ tries' \in [Mutation -> 0..MaxTries]
        /\ pc' \in [Mutation -> {"idle", "sent", "answered", "told", "refused"}]
    BY <1>0, <1>8, ConstantsOK DEF Click, Land, Fail, LandLate, GiveUp, TypeOK
  <2>4. late' \in [Mutation -> Nat] /\ at' \in [Mutation -> Nat]
    BY <1>0, <1>8 DEF Click, Land, Fail, LandLate, TypeOK
  <2>5. QED
    BY <1>0, <2>1, <2>2, <2>3, <2>4 DEF TypeInv, TypeOK
<1>9. ASSUME NEW m \in Mutation, Succeed(m) PROVE TypeInv'
  <2>1. /\ UNCHANGED <<user, key, page, server, elsewhere, kind, tries, late, mounted, at>>
        /\ pc' = [pc EXCEPT ![m] = "told"]
    BY <1>9 DEF Succeed
  <2> USE DEF Succeed, ClearExport, Invalidate, Ask, entry
  <2>2. data' \in {data, None} /\ got' \in {got, None} /\ None \in Nat
    BY <1>9 DEF None
  <2>3. fetch' \in {"idle", "asked", "answered"}
    BY <1>0, <1>9 DEF TypeOK
  <2>4. stale' \in BOOLEAN
    BY <1>0, <1>9 DEF TypeOK
  <2>5. failed' \in BOOLEAN
    BY <1>0, <1>9 DEF TypeOK
  <2>6. overtaken' \in BOOLEAN
    BY <1>0, <1>9 DEF TypeOK
  <2>7. data' \in Nat /\ got' \in Nat
    BY <1>0, <2>2 DEF TypeOK
  <2>8. pc' \in [Mutation -> {"idle", "sent", "answered", "told", "refused"}]
    BY <1>0, <2>1 DEF TypeOK
  <2>9. QED
    BY <1>0, <2>1, <2>3, <2>4, <2>5, <2>6, <2>7, <2>8 DEF TypeInv, TypeOK
<1>10. CASE UNCHANGED vars
  BY <1>0, <1>10 DEF vars, entry, mutations, TypeInv, TypeOK
<1>11. QED
  BY <1>1, <1>3, <1>4, <1>5, <1>6, <1>7, <1>8, <1>9, <1>10 DEF Next, User

\* The types are an invariant.
LEMMA TypeInvariant == Spec => []TypeInv
BY TypeInit, TypeStep, PTL DEF Spec

\* Type correctness of the pages, the cache entry and the changes.
THEOREM TypeCorrect == Spec => []TypeOK
BY TypeInvariant, PTL DEF TypeInv

-----------------------------------------------------------------------------
(* What a page shows of the changes made in its tab. *)

\* The tab was told of the change, and its handler invalidates the query.
Told(m) == pc[m] = "told" /\ key \in Invalidates[kind[m]]

\* An answer that has every change of which the tab was told.
UpToDate(answer) == \A m \in Mutation : Told(m) => answer >= at[m]

\* No answer is ahead of the server, nor the one on its way behind the one shown.
OrderInv ==
  /\ data <= server /\ got <= server
  /\ \A m \in Mutation : at[m] <= server
  /\ fetch = "answered" => got >= data

\* An answer that counts, and is kept or on its way, is up to date, unless the
\* entry is marked and its page is not open.
ToldInv ==
  /\ fetch = "answered" /\ ~overtaken => UpToDate(got)
  /\ fetch = "idle" /\ data # None /\ ~failed /\ ~overtaken => UpToDate(data) \/ (stale /\ ~OnScreen)

AnswersInv == OrderInv /\ ToldInv

\* Initially nothing was asked.
LEMMA AnswersInit == Init => AnswersInv
BY DEF Init, AnswersInv, OrderInv, ToldInv, None

\* An answer stays up to date until the tab is told of another change.
LEMMA StaysUpToDate ==
  ASSUME key' = key, NEW answer, UpToDate(answer),
         \A m \in Mutation : Told(m)' => Told(m) /\ at'[m] = at[m]
  PROVE  UpToDate(answer)'
BY DEF UpToDate

\* No step but Succeed tells the tab of a change.
LEMMA NotTold ==
  ASSUME TypeInv, [Next]_vars, \A m \in Mutation : ~Succeed(m)
  PROVE  key' = key /\ \A m \in Mutation : Told(m)' => Told(m) /\ at'[m] = at[m]
<1>0. /\ pc \in [Mutation -> {"idle", "sent", "answered", "told", "refused"}]
      /\ at \in [Mutation -> Nat]
  BY DEF TypeInv, TypeOK
<1>1. CASE UNCHANGED <<key, kind, pc, at>>
  BY <1>1 DEF Told
<1>2. ASSUME NEW m \in Mutation, Click(m) \/ Fail(m) \/ LandLate(m) \/ Land(m)
      PROVE  key' = key /\ \A n \in Mutation : Told(n)' => Told(n) /\ at'[n] = at[n]
  <2>1. UNCHANGED <<key, kind>> /\ pc'[m] \in {pc[m], "sent", "answered", "refused"}
    BY <1>0, <1>2 DEF Click, Fail, LandLate, Land, GiveUp
  <2>2. \A n \in Mutation \ {m} : pc'[n] = pc[n] /\ at'[n] = at[n]
    BY <1>0, <1>2 DEF Click, Fail, LandLate, Land, GiveUp
  <2>3. pc'[m] = "told" => pc[m] = "told" /\ at'[m] = at[m]
    BY <1>0, <1>2 DEF Click, Fail, LandLate, Land, GiveUp
  <2>4. QED
    BY <2>1, <2>2, <2>3 DEF Told
<1>3. ASSUME NEW u, Reload(u)
      PROVE  key' = key /\ \A m \in Mutation : Told(m)' => Told(m) /\ at'[m] = at[m]
  BY <1>0, <1>3 DEF Reload, Told
<1>4. CASE \/ Answer \/ Arrive \/ FetchFails \/ Poll \/ Export \/ GrowStale \/ Collect \/ Elsewhere
           \/ Logout \/ (\E p \in Page : Open(p)) \/ (\E u \in UserRole : Login(u)) \/ UNCHANGED vars
  <2>1. UNCHANGED <<key, kind, pc, at>>
    BY <1>4 DEF Answer, Arrive, FetchFails, Poll, Export, GrowStale, Collect, Elsewhere, Logout, Open, Login,
                GoTo, vars, mutations
  <2>2. QED
    BY <1>1, <2>1
<1>5. QED
  BY <1>2, <1>3, <1>4 DEF Next

\* Opening a page drops the answers, asks for new ones, or leaves them.
LEMMA GoToKeeps ==
  ASSUME TypeInv, AnswersInv, NEW p, GoTo(p), \A a : UpToDate(a) => UpToDate(a)'
  PROVE  AnswersInv'
<1>0. data \in Nat /\ got \in Nat /\ server \in Nat /\ at \in [Mutation -> Nat]
  BY DEF TypeInv, TypeOK
<1>1. page' = p /\ UNCHANGED <<key, server, stale, at>>
  BY DEF GoTo
<1>2. CASE key = "export"
  <2>1. data' = None /\ fetch' = "idle" /\ got' = None
    BY <1>2 DEF GoTo
  <2>2. QED
    BY <1>0, <1>1, <2>1 DEF AnswersInv, OrderInv, ToldInv, None
<1>3. CASE key # "export" /\ p \in PagesOf[key] /\ ~OnScreen /\ fetch = "idle" /\ (data = None \/ stale)
  <2>1. fetch' = "asked" /\ got' = None /\ data' = data
    BY <1>3 DEF GoTo, Ask
  <2>2. QED
    BY <1>0, <1>1, <2>1 DEF AnswersInv, OrderInv, ToldInv, None
<1>4. CASE /\ key # "export"
           /\ ~(p \in PagesOf[key] /\ ~OnScreen /\ fetch = "idle" /\ (data = None \/ stale))
  <2>1. UNCHANGED <<fetch, got, overtaken, data, failed>>
    BY <1>4 DEF GoTo
  <2>2. OrderInv'
    BY <1>0, <1>1, <2>1 DEF AnswersInv, OrderInv
  <2>3. ToldInv'
    BY <1>0, <1>1, <1>4, <2>1 DEF AnswersInv, ToldInv, OnScreen
  <2>4. QED
    BY <2>2, <2>3 DEF AnswersInv
<1>5. QED
  BY <1>2, <1>3, <1>4

\* The handler of a change: what it invalidates is asked for again, or does not
\* count until it is.
LEMMA SucceedKeeps ==
  ASSUME TypeInv, AnswersInv, NEW m \in Mutation, Succeed(m)
  PROVE  AnswersInv'
<1>0. /\ data \in Nat /\ got \in Nat /\ server \in Nat /\ fetch \in {"idle", "asked", "answered"}
      /\ at \in [Mutation -> Nat] /\ pc \in [Mutation -> {"idle", "sent", "answered", "told", "refused"}]
  BY DEF TypeInv, TypeOK
<1>1. UNCHANGED <<key, page, kind, server, at>> /\ pc' = [pc EXCEPT ![m] = "told"]
  BY DEF Succeed
<1>2. CASE key \notin Invalidates[kind[m]]
  <2>1. UNCHANGED <<data, stale, failed, fetch, got, overtaken>>
    BY <1>2 DEF Succeed, entry
  <2>2. \A n \in Mutation : Told(n)' => Told(n) /\ at'[n] = at[n]
    BY <1>0, <1>1, <1>2 DEF Told
  <2>3. \A answer : UpToDate(answer) => UpToDate(answer)'
    BY <1>1, <2>2, StaysUpToDate
  <2>4. QED
    BY <1>0, <1>1, <2>1, <2>3 DEF AnswersInv, OrderInv, ToldInv, OnScreen
<1>3. CASE key \in Invalidates[kind[m]] /\ key = "export"
  <2>1. /\ UNCHANGED <<stale, failed, fetch, got>> /\ data' \in {data, None}
        /\ (data' = None \/ overtaken') /\ (fetch # "idle" => overtaken')
    BY <1>3 DEF Succeed, ClearExport
  <2>2. OrderInv'
    BY <1>0, <1>1, <2>1 DEF AnswersInv, OrderInv, None
  <2>3. ToldInv'
    BY <1>0, <2>1 DEF ToldInv
  <2>4. QED
    BY <2>2, <2>3 DEF AnswersInv
<1>4. CASE key \in Invalidates[kind[m]] /\ key # "export"
  <2> DEFINE restart == OnScreen /\ (fetch = "idle" \/ data # None)
  <2>1. Invalidate
    BY <1>4 DEF Succeed
  <2>2. CASE restart
    <3>1. fetch' = "asked" /\ got' = None /\ data' = data
      BY <2>1, <2>2 DEF Invalidate, Ask
    <3>2. QED
      BY <1>0, <1>1, <3>1 DEF AnswersInv, OrderInv, ToldInv, None
  <2>3. CASE ~restart
    <3>1. /\ UNCHANGED <<fetch, got, data, failed>> /\ stale' = TRUE
          /\ fetch # "idle" => overtaken'
      BY <2>1, <2>3 DEF Invalidate
    <3>2. fetch = "idle" => ~OnScreen'
      BY <1>1, <2>3 DEF OnScreen
    <3>3. OrderInv'
      BY <1>0, <1>1, <3>1 DEF AnswersInv, OrderInv
    <3>4. ToldInv'
      BY <1>0, <3>1, <3>2 DEF ToldInv
    <3>5. QED
      BY <3>3, <3>4 DEF AnswersInv
  <2>4. QED
    BY <2>2, <2>3
<1>5. QED
  BY <1>2, <1>3, <1>4

\* No step makes a page forget a change it was told of, or puts answers out of order.
LEMMA AnswersStep == TypeInv /\ AnswersInv /\ [Next]_vars => AnswersInv'
<1> SUFFICES ASSUME TypeInv, AnswersInv, [Next]_vars PROVE AnswersInv'
  OBVIOUS
<1>0. /\ data \in Nat /\ got \in Nat /\ server \in Nat
      /\ at \in [Mutation -> Nat] /\ fetch \in {"idle", "asked", "answered"}
  BY DEF TypeInv, TypeOK
<1>1. ASSUME NEW m \in Mutation, Succeed(m) PROVE AnswersInv'
  BY <1>1, SucceedKeeps
<1>2. CASE \A m \in Mutation : ~Succeed(m)
  <2>1. key' = key /\ \A answer : UpToDate(answer) => UpToDate(answer)'
    BY <1>2, NotTold, StaysUpToDate
  <2>2. CASE Answer
    <3>1. /\ fetch' = "answered" /\ got' = server
          /\ UNCHANGED <<data, server, at>>
      BY <2>2 DEF Answer, mutations
    <3>2. UpToDate(server)'
      BY <1>0, <3>1 DEF AnswersInv, OrderInv, UpToDate
    <3>3. QED
      BY <1>0, <3>1, <3>2 DEF AnswersInv, OrderInv, ToldInv
  <2>3. CASE Arrive
    <3>1. /\ fetch = "answered" /\ fetch' = "idle" /\ data' = got /\ got' = None
          /\ UNCHANGED <<overtaken, server, at>>
      BY <2>3 DEF Arrive, mutations
    <3>2. ~overtaken' => UpToDate(data)'
      <4>1. \A m \in Mutation : Told(m)' => Told(m) /\ at'[m] = at[m]
        BY <1>2, NotTold
      <4>2. QED
        BY <3>1, <4>1 DEF AnswersInv, ToldInv, UpToDate
    <3>3. OrderInv'
      BY <1>0, <3>1 DEF AnswersInv, OrderInv, None
    <3>4. QED
      BY <3>1, <3>2, <3>3 DEF AnswersInv, ToldInv
  <2>4. CASE FetchFails
    <3>1. fetch' = "idle" /\ failed' = TRUE /\ got' = None /\ UNCHANGED <<data, server, at>>
      BY <2>4 DEF FetchFails, mutations
    <3>2. QED
      BY <1>0, <3>1 DEF AnswersInv, OrderInv, ToldInv, None
  <2>5. CASE Poll \/ Export
    <3>1. fetch' = "asked" /\ got' = None /\ data' \in {data, None} /\ UNCHANGED <<server, at>>
      BY <2>5 DEF Poll, Export, Ask, mutations
    <3>2. QED
      BY <1>0, <3>1 DEF AnswersInv, OrderInv, ToldInv, None
  <2>6. CASE GrowStale
    <3>1. /\ stale' = TRUE
          /\ UNCHANGED <<key, page, data, failed, fetch, got, overtaken, server, at>>
      BY <2>6 DEF GrowStale, mutations
    <3>2. QED
      BY <1>0, <2>1, <3>1 DEF AnswersInv, OrderInv, ToldInv, OnScreen
  <2>7. CASE Collect
    <3>1. data' = None /\ fetch = "idle" /\ UNCHANGED <<fetch, got, server, at>>
      BY <2>7 DEF Collect, mutations
    <3>2. QED
      BY <1>0, <3>1 DEF AnswersInv, OrderInv, ToldInv, None
  <2>8. ASSUME NEW p, GoTo(p) PROVE AnswersInv'
    BY <2>1, <2>8, GoToKeeps
  <2>9. ASSUME NEW u, Reload(u) PROVE AnswersInv'
    <3>1. data' = None /\ got' = None /\ fetch' # "answered" /\ UNCHANGED <<server, at>>
      BY <2>9 DEF Reload
    <3>2. QED
      BY <1>0, <3>1 DEF AnswersInv, OrderInv, ToldInv, None
  <2>10. ASSUME server' \in {server, server + 1},
                UNCHANGED <<page, data, stale, failed, fetch, got, overtaken>>,
                \A m \in Mutation : at'[m] \in {at[m], server'}
         PROVE  AnswersInv'
    <3>1. OrderInv'
      BY <1>0, <2>10 DEF AnswersInv, OrderInv
    <3>2. ToldInv'
      BY <2>1, <2>10 DEF AnswersInv, ToldInv, OnScreen
    <3>3. QED
      BY <3>1, <3>2 DEF AnswersInv
  <2>11. CASE Elsewhere
    BY <1>0, <2>10, <2>11 DEF Elsewhere, entry, mutations
  <2>12. ASSUME NEW m \in Mutation, Click(m) \/ Fail(m) \/ LandLate(m) PROVE AnswersInv'
    BY <1>0, <2>10, <2>12 DEF Click, Fail, LandLate, entry
  <2>13. ASSUME NEW m \in Mutation, Land(m) PROVE AnswersInv'
    <3>1. /\ server' = server + 1
          /\ UNCHANGED <<page, data, stale, failed, fetch, got, overtaken>>
          /\ at' \in {[at EXCEPT ![m] = server'], at}
      BY <2>13 DEF Land, entry
    <3>2. QED
      BY <1>0, <2>10, <3>1
  <2>14. CASE UNCHANGED vars
    BY <1>0, <2>10, <2>14 DEF vars, entry, mutations
  <2>15. QED
    BY <1>2, <2>2, <2>3, <2>4, <2>5, <2>6, <2>7, <2>8, <2>9, <2>11, <2>12, <2>13, <2>14
       DEF Next, Open, Login, Logout
<1>3. QED
  BY <1>1, <1>2

\* What the pages keep of the answers of the server holds in every state.
LEMMA AnswersInvariant == Spec => []AnswersInv
BY TypeInvariant, AnswersInit, AnswersStep, PTL DEF Spec

\* A settled page shows every change of its tab that its query is invalidated by,
\* or a later one, unless the last fetch failed or the change overtook one.
THEOREM OwnChangesShow == Spec => []OwnChangeShown
<1>1. TypeInv /\ AnswersInv => OwnChangeShown
  <2> SUFFICES ASSUME TypeInv, AnswersInv, Settled, ~failed, ~overtaken, NEW m \in Mutation, Told(m)
               PROVE  data >= at[m]
    BY DEF OwnChangeShown, Told
  <2>1. data # None
    BY DEF Settled, Shown
  <2>2. UpToDate(data)
    BY <2>1 DEF Settled, AnswersInv, ToldInv
  <2>3. QED
    BY <2>2 DEF UpToDate
<1>2. QED
  BY <1>1, TypeInvariant, AnswersInvariant, PTL

\* However fetches, failures, changes and pages cross, an answer gives way to a
\* later one only.
THEOREM AnswersInOrder == Spec => AnswersGetNewer
<1> DEFINE Kept == data # None /\ data' # None => data' >= data
<1>1. TypeInv /\ AnswersInv /\ [Next]_vars => [Kept]_vars
  <2> SUFFICES ASSUME TypeInv, AnswersInv, Next, data' # None PROVE data' >= data
    OBVIOUS
  <2>1. data \in Nat
    BY DEF TypeInv, TypeOK
  <2>2. CASE Arrive
    BY <2>2 DEF Arrive, AnswersInv, OrderInv
  <2>3. CASE ~Arrive
    <3>1. data' \in {data, None}
      BY <2>3 DEF Next, Answer, FetchFails, Poll, Export, GrowStale, Collect, Open, Login, Logout, GoTo, Reload,
                  Elsewhere, Click, Land, Fail, LandLate, Succeed, Invalidate, ClearExport, entry
    <3>2. QED
      BY <2>1, <3>1
  <2>4. QED
    BY <2>2, <2>3
<1>2. QED
  BY <1>1, TypeInvariant, AnswersInvariant, PTL DEF Spec, AnswersGetNewer
=============================================================================
