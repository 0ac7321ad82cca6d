------------------------------ MODULE Console ------------------------------
(***************************************************************************)
(* The pages of the staff: the enquiry list, one enquiry, the dashboard,   *)
(* the queues and the GDPR tools.  Each shows answers kept by react-query  *)
(* in a cache by query key, asked again when a page opens on an old one,   *)
(* by the clock, and when a change made here succeeds (invalidateQueries). *)
(*                                                                         *)
(* The queries do not touch each other, so the model follows one of them,  *)
(* any one, and the changes that show in it.  What the server would answer *)
(* is a number that grows with every change; its own caches are            *)
(* EnquiryCache.  react-query 5 and axios are external.  Enquiries created *)
(* here count as changes made elsewhere.                                   *)
(*                                                                         *)
(* Who is logged in is kept in the tab and in localStorage, which all tabs *)
(* write whenever someone logs in or out and a tab reads only when it is   *)
(* loaded: there it may find anyone.                                       *)
(***************************************************************************)
EXTENDS Naturals

CONSTANTS
    Mutation,    \* changes made in this tab
    MaxTries,    \* MAX_RETRIES of the API client
    MaxElsewhere \* bound: changes made by others

ASSUME ConstantsOK == MaxTries \in Nat \ {0} /\ MaxElsewhere \in Nat

VARIABLES
    user,       \* who is logged in here (AuthProvider)
    key,        \* the query followed (never changes)
    page,       \* the page on the screen
    data,       \* the answer in its cache entry, None if it has none
    stale,      \* the entry is older than staleTime, or was invalidated
    failed,     \* its last fetch failed
    fetch,      \* "idle", "asked" or "answered"
    got,        \* the answer on its way
    server,     \* what the server would answer
    elsewhere,  \* changes made by others so far
    kind,       \* what each change does
    pc,         \* how far it is
    tries,      \* requests sent for it
    late,       \* those given up that may still reach the server
    mounted,    \* changes started since the page was opened
    at,         \* what the server had once it had made the change
    overtaken   \* history: this tab was told of a change while a fetch went on whose
                \* answer is kept, or of an erasure once the page had been left

None == 0
entry == <<data, stale, failed, fetch, got, overtaken>>
mutations == <<kind, pc, tries, late, mounted, at>>
vars == <<user, key, page, entry, server, elsewhere, mutations>>

UserRole == {"ADMIN", "AGENT", "VIEWER"}
NoUser == "none"

Permission ==
    [ADMIN |-> {"ENQUIRY_READ", "ENQUIRY_LIST", "ENQUIRY_UPDATE_STATUS", "PROPERTY_VIEW",
                "GDPR_EXPORT", "GDPR_ERASE", "QUEUE_MANAGE", "ADMIN_DASHBOARD"},
     AGENT |-> {"ENQUIRY_READ", "ENQUIRY_LIST", "ENQUIRY_UPDATE_STATUS", "PROPERTY_VIEW"},
     VIEWER |-> {"ENQUIRY_READ", "PROPERTY_VIEW"}]

HasPermission(u, permission) == u # NoUser /\ permission \in Permission[u]

\* The permission with which ProtectedRoute guards a page; the others are public.
PermissionOf ==
    [enquiries |-> "ENQUIRY_LIST", filtered |-> "ENQUIRY_LIST", enquiry |-> "ENQUIRY_READ",
     properties |-> "PROPERTY_VIEW", dashboard |-> "ADMIN_DASHBOARD",
     queues |-> "QUEUE_MANAGE", gdpr |-> "GDPR_EXPORT"]

Public == {"landing", "login", "unauthorized"}
Page == DOMAIN PermissionOf \cup Public
Kind == {"status", "retry", "pause", "resume", "erase"}

\* The pages that use each query: two filters of the list are two queries, the
\* one followed and the one of "filtered"; "counts" is each of the queries of the
\* dashboard about enquiries; "export" is the state of the GDPR page.
PagesOf ==
    [list |-> {"enquiries"}, detail |-> {"enquiry"}, counts |-> {"dashboard"},
     audit |-> {"dashboard"}, stats |-> {"dashboard", "queues"}, dlq |-> {"queues"},
     export |-> {"gdpr"}]

QueryKey == DOMAIN PagesOf
Polled == QueryKey \ {"detail", "export"}   \* refetchInterval

ClickedOn ==
    [status |-> {"enquiries", "filtered"}, retry |-> {"queues"}, pause |-> {"queues"},
     resume |-> {"queues"}, erase |-> {"gdpr"}]

\* The answers a change changes, and those that its onSuccess invalidates.
Affects ==
    [status |-> {"list", "detail", "counts", "audit"}, retry |-> {"dlq", "stats", "audit"},
     pause |-> {"stats"}, resume |-> {"stats"}, erase |-> {"export", "list", "detail", "audit"}]

Invalidates ==
    [status |-> {"list", "counts", "audit"}, retry |-> {"dlq", "stats"},
     pause |-> {"stats"}, resume |-> {"stats"}, erase |-> {"export"}]

TypeOK ==
    /\ user \in UserRole \cup {NoUser}
    /\ key \in QueryKey /\ page \in Page
    /\ data \in Nat /\ got \in Nat /\ server \in Nat \ {None}
    /\ stale \in BOOLEAN /\ failed \in BOOLEAN /\ overtaken \in BOOLEAN
    /\ fetch \in {"idle", "asked", "answered"}
    /\ elsewhere \in 0..MaxElsewhere
    /\ kind \in [Mutation -> Kind]
    /\ pc \in [Mutation -> {"idle", "sent", "answered", "told", "refused"}]
    /\ tries \in [Mutation -> 0..MaxTries]
    /\ late \in [Mutation -> Nat]
    /\ mounted \in SUBSET Mutation
    /\ at \in [Mutation -> Nat]

Init ==
    /\ user = NoUser /\ page = "landing"
    /\ key \in QueryKey
    /\ data = None /\ stale = FALSE /\ failed = FALSE /\ overtaken = FALSE
    /\ fetch = "idle" /\ got = None
    /\ server = 1 /\ elsewhere = 0
    /\ kind \in [Mutation -> {k \in Kind : key \in Affects[k]}]
    /\ pc = [m \in Mutation |-> "idle"]
    /\ tries = [m \in Mutation |-> 0]
    /\ late = [m \in Mutation |-> 0]
    /\ mounted = {}
    /\ at = [m \in Mutation |-> 0]

-----------------------------------------------------------------------------
(* The cache entry. *)

OnScreen == page \in PagesOf[key]

\* The list, the record and the queues have an error page; the other queries none.
Guarded == key \in {"list", "detail"} \/ (key = "stats" /\ page = "queues")

\* What the page makes of the entry.  Without data the dashboard shows zeros and a
\* made-up distribution, and the queues "No failed jobs. All clear!".
Shown ==
    IF failed /\ Guarded /\ (data # None \/ fetch = "idle") THEN "error"
    ELSE IF data # None THEN "data"
    ELSE IF fetch # "idle" /\ (Guarded \/ key = "dlq") THEN "skeleton"
    ELSE "made up"

\* Query.fetch of an idle query.
Ask == fetch' = "asked" /\ got' = None

Answer ==
    /\ fetch = "asked"
    /\ fetch' = "answered" /\ got' = server
    /\ UNCHANGED <<user, key, page, data, stale, failed, overtaken, server, elsewhere, mutations>>

Arrive ==
    /\ fetch = "answered"
    /\ data' = got /\ stale' = FALSE /\ failed' = FALSE
    /\ fetch' = "idle" /\ got' = None
    /\ UNCHANGED <<user, key, page, overtaken, server, elsewhere, mutations>>

\* After the repeats of the API client and of react-query.
FetchFails ==
    /\ fetch # "idle"
    /\ fetch' = "idle" /\ got' = None
    /\ failed' = TRUE
    /\ stale' \in {stale, TRUE}
    /\ UNCHANGED <<user, key, page, data, overtaken, server, elsewhere, mutations>>

\* Faulty variant: the clock asks only while all is well.
PollUnlessFailed ==
    /\ OnScreen /\ key \in Polled /\ fetch = "idle" /\ ~failed
    /\ Ask /\ overtaken' = FALSE
    /\ UNCHANGED <<user, key, page, data, stale, failed, server, elsewhere, mutations>>

\* refetchInterval, while the tab is visible; a fetch that goes on is joined.
Poll ==
    /\ OnScreen /\ key \in Polled /\ fetch = "idle"
    /\ Ask /\ overtaken' = FALSE
    /\ UNCHANGED <<user, key, page, data, stale, failed, server, elsewhere, mutations>>

\* The Export button: disabled while it runs, and what it found goes first.
Export ==
    /\ key = "export" /\ OnScreen /\ fetch = "idle"
    /\ Ask /\ data' = None /\ overtaken' = FALSE
    /\ UNCHANGED <<user, key, page, stale, failed, server, elsewhere, mutations>>

GrowStale ==
    /\ data # None /\ ~stale /\ key # "export"
    /\ stale' = TRUE
    /\ UNCHANGED <<user, key, page, data, failed, fetch, got, overtaken, server, elsewhere, mutations>>

\* gcTime after the last page that used it.
Collect ==
    /\ data # None /\ ~OnScreen /\ fetch = "idle"
    /\ data' = None /\ stale' = FALSE /\ failed' = FALSE /\ overtaken' = FALSE
    /\ UNCHANGED <<user, key, page, fetch, got, server, elsewhere, mutations>>

-----------------------------------------------------------------------------
(* The session and the pages. *)

\* RootRedirect.
Home(u) ==
    CASE u = NoUser -> "landing"
      [] HasPermission(u, "ADMIN_DASHBOARD") -> "dashboard"
      [] HasPermission(u, "ENQUIRY_LIST") /\ ~HasPermission(u, "ADMIN_DASHBOARD") -> "enquiries"
      [] OTHER -> "properties"

\* Where somebody who asks for the page ends up.
ProtectedRoute(u, p) ==
    CASE p = "login" \/ p = "landing" -> IF u = NoUser THEN p ELSE Home(u)
      [] p = "unauthorized" -> p
      [] u = NoUser /\ p \notin Public -> "login"
      [] OTHER -> IF HasPermission(u, PermissionOf[p]) THEN p ELSE "unauthorized"

\* The page on the screen gives way to another.  A query asks if it has nothing or
\* what it has is old; a fetch of a page left goes on.  The state of the GDPR
\* page is its own.
GoTo(p) ==
    /\ page' = p /\ mounted' = {}
    /\ IF key = "export"
       THEN /\ data' = None /\ failed' = FALSE /\ overtaken' = FALSE
            /\ fetch' = "idle" /\ got' = None
       ELSE /\ IF p \in PagesOf[key] /\ ~OnScreen /\ fetch = "idle" /\ (data = None \/ stale)
               THEN Ask /\ overtaken' = FALSE
               ELSE UNCHANGED <<fetch, got, overtaken>>
            /\ UNCHANGED <<data, failed>>
    /\ UNCHANGED <<key, stale, server, elsewhere, kind, pc, tries, late, at>>

Open(p) ==
    /\ ProtectedRoute(user, p) # page
    /\ GoTo(ProtectedRoute(user, p))
    /\ UNCHANGED user

Login(u) ==
    /\ page = "login"
    /\ user' = u
    /\ GoTo(Home(u))

\* What react-query keeps stays.
Logout ==
    /\ user # NoUser /\ page \notin Public
    /\ user' = NoUser
    /\ GoTo("login")

Pending == {m \in Mutation : pc[m] \in {"sent", "answered"}}

\* The tab is loaded again, finds u in localStorage, and knows nothing of its
\* answers nor of its requests, which may still reach the server.
Reload(u) ==
    /\ user' = u
    /\ page' = ProtectedRoute(u, page)
    /\ data' = None /\ stale' = FALSE /\ failed' = FALSE /\ overtaken' = FALSE
    /\ fetch' = IF page' \in PagesOf[key] /\ key # "export" THEN "asked" ELSE "idle"
    /\ got' = None
    /\ pc' = [m \in Mutation |-> IF m \in Pending THEN "refused" ELSE pc[m]]
    /\ \E arriving \in SUBSET {m \in Mutation : pc[m] = "sent"} :
           late' = [m \in Mutation |-> IF m \in arriving THEN late[m] + 1 ELSE late[m]]
    /\ mounted' = {}
    /\ UNCHANGED <<key, server, elsewhere, kind, tries, at>>

-----------------------------------------------------------------------------
(* Changes. *)

Elsewhere ==
    /\ elsewhere < MaxElsewhere
    /\ elsewhere' = elsewhere + 1 /\ server' = server + 1
    /\ UNCHANGED <<user, key, page, entry, mutations>>

\* The buttons of a page, and its selects, are disabled while a change of their
\* kind is pending; a page that was left and opened again knows of none.
Disabled(m) == \E n \in mounted \cap Pending : kind[n] = kind[m]

\* All changes but the erasure start from what the page shows; the list shows a
\* badge in place of the select to whom may not change a status.
Click(m) ==
    /\ pc[m] = "idle" /\ page \in ClickedOn[kind[m]] /\ ~Disabled(m)
    /\ OnScreen /\ kind[m] # "erase" => Shown = "data"
    /\ kind[m] = "status" => HasPermission(user, "ENQUIRY_UPDATE_STATUS")
    /\ pc' = [pc EXCEPT ![m] = "sent"]
    /\ tries' = [tries EXCEPT ![m] = 1]
    /\ mounted' = mounted \cup {m}
    /\ UNCHANGED <<user, key, page, entry, server, elsewhere, kind, late, at>>

\* An attempt without an answer, or with a 5xx: another one, or the end.
GiveUp(m) ==
    IF tries[m] < MaxTries
    THEN tries' = [tries EXCEPT ![m] = @ + 1] /\ UNCHANGED pc
    ELSE pc' = [pc EXCEPT ![m] = "refused"] /\ UNCHANGED tries

\* The server makes the change; its answer may be lost.
Land(m) ==
    /\ pc[m] = "sent"
    /\ server' = server + 1
    /\ \/ /\ pc' = [pc EXCEPT ![m] = "answered"] /\ at' = [at EXCEPT ![m] = server']
          /\ UNCHANGED tries
       \/ GiveUp(m) /\ UNCHANGED at
    /\ UNCHANGED <<user, key, page, entry, elsewhere, kind, late, mounted>>

\* The attempt is lost, times out and arrives later, or is refused (a 404 of a
\* job that an earlier attempt removed): onError tells, and invalidates nothing.
Fail(m) ==
    /\ pc[m] = "sent"
    /\ \/ GiveUp(m) /\ late' \in {late, [late EXCEPT ![m] = @ + 1]}
       \/ pc' = [pc EXCEPT ![m] = "refused"] /\ UNCHANGED <<tries, late>>
    /\ UNCHANGED <<user, key, page, entry, server, elsewhere, kind, mounted, at>>

LandLate(m) ==
    /\ late[m] > 0
    /\ late' = [late EXCEPT ![m] = @ - 1]
    /\ server' = server + 1
    /\ UNCHANGED <<user, key, page, entry, elsewhere, kind, pc, tries, mounted, at>>

\* invalidateQueries: a query on the screen asks again, in place of the fetch
\* that goes on if it has data, else joining it; another one is only marked, and
\* a fetch of it that goes on takes the mark away.
Invalidate ==
    LET restart == OnScreen /\ (fetch = "idle" \/ data # None)
    IN /\ stale' = TRUE
       /\ IF restart THEN Ask ELSE UNCHANGED <<fetch, got>>
       /\ overtaken' = (fetch # "idle" /\ ~restart)
       /\ UNCHANGED <<data, failed>>

\* The erasure empties the page it was asked on; an export that goes on is not
\* stopped.
ClearExport(m) ==
    /\ data' = IF m \in mounted THEN None ELSE data
    /\ overtaken' = (fetch # "idle" \/ m \notin mounted)
    /\ UNCHANGED <<stale, failed, fetch, got>>

\* Faulty variant: the handler given to mutate(), which ends with its page.
SucceedIfMounted(m) ==
    /\ pc[m] = "answered"
    /\ pc' = [pc EXCEPT ![m] = "told"]
    /\ IF m \in mounted /\ key \in Invalidates[kind[m]]
       THEN IF key = "export" THEN ClearExport(m) ELSE Invalidate
       ELSE UNCHANGED entry
    /\ UNCHANGED <<user, key, page, server, elsewhere, kind, tries, late, mounted, at>>

\* Faulty variant: the answer is put into the entry at once, and asked for by
\* nobody: a fetch that goes on is let go on.
SucceedInPlace(m) ==
    /\ pc[m] = "answered"
    /\ pc' = [pc EXCEPT ![m] = "told"]
    /\ data' = IF key \in Invalidates[kind[m]] /\ data # None THEN at[m] ELSE data
    /\ UNCHANGED <<user, key, page, stale, failed, fetch, got, overtaken, server, elsewhere>>
    /\ UNCHANGED <<kind, tries, late, mounted, at>>

\* onSuccess, which runs even if the page was left.
Succeed(m) ==
    /\ pc[m] = "answered"
    /\ pc' = [pc EXCEPT ![m] = "told"]
    /\ IF key \in Invalidates[kind[m]]
       THEN IF key = "export" THEN ClearExport(m) ELSE Invalidate
       ELSE UNCHANGED entry
    /\ UNCHANGED <<user, key, page, server, elsewhere, kind, tries, late, mounted, at>>

-----------------------------------------------------------------------------
Next ==
    \/ Answer \/ Arrive \/ FetchFails \/ Poll \/ Export \/ GrowStale \/ Collect
    \/ \E p \in Page : Open(p)
    \/ \E u \in UserRole : Login(u)
    \/ Logout
    \/ \E u \in UserRole \cup {NoUser} : Reload(u)
    \/ Elsewhere
    \/ \E m \in Mutation : Click(m) \/ Land(m) \/ Fail(m) \/ LandLate(m) \/ Succeed(m)

\* The clock of a visible page ticks, the server answers, and a query asked for
\* ever gets through again and again.
Fairness == WF_vars(Poll) /\ SF_vars(Answer) /\ SF_vars(Arrive)

Spec == Init /\ [][Next]_vars /\ Fairness

-----------------------------------------------------------------------------
(* Properties. *)

\* The page shows an answer and waits for none.
Settled == OnScreen /\ fetch = "idle" /\ Shown = "data"

\* Once this tab was told of a change, a page whose query the change invalidates
\* shows that change or a later one, whatever fetches, other changes and other
\* pages came between.  Three exceptions: the last fetch failed, and the page
\* shows what it had; the change overtook a fetch whose answer is kept, or was an
\* erasure on a page left; and the queries that show a change and that its
\* onSuccess does not invalidate, of which StatusChangeShown says more.
OwnChangeShown ==
    Settled /\ ~failed /\ ~overtaken =>
        \A m \in Mutation : (pc[m] = "told" /\ key \in Invalidates[kind[m]]) => data >= at[m]

\* The documentation says that a change of status invalidates the affected
\* queries.  It does not hold: the record of the enquiry has a query key that the
\* invalidated ones do not match, and a page opened on it while the answer is
\* young shows the status from before the change.
StatusChangeShown ==
    Settled /\ ~failed /\ ~overtaken =>
        \A m \in Mutation : (pc[m] = "told" /\ kind[m] = "status") => data >= at[m]

\* What a page shows is replaced by a later answer only, never by an earlier one
\* that took longer: also when a change, a failure, the clock and the opening of
\* a page ask for it while an answer is on its way.
AnswersGetNewer == [][data # None /\ data' # None => data' >= data]_vars

\* A polled page that stays open shows, again and again, what the server has.
PagesCatchUp ==
    <>[](OnScreen /\ key \in Polled) => []<>(Shown = "data" /\ data = server)
=============================================================================
