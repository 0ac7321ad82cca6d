------------------------- MODULE PropertyCatalogue -------------------------
(***************************************************************************)
(* The property catalogue of one process: PropertyService reads a page of  *)
(* the list through PropertyCacheService, or one property directly, from   *)
(* WordPressClient, whose calls go through a circuit breaker and leave a   *)
(* copy for the time when it is open.                                      *)
(*                                                                         *)
(* Data is named by its age, the time since WordPress gave it.  A tick is  *)
(* some minutes and a request takes seconds, so that ages grow only while  *)
(* no request is under way.  The breaker is opossum, which is external.    *)
(***************************************************************************)
EXTENDS Integers, FiniteSets

CONSTANTS
    ListRequest,    \* requests for one page of the list
    DetailRequest,  \* requests for one property, by slug or by WordPress id
    Stale, Expire,  \* staleTtl and expireTtl, which both caches share
    Volume,         \* volumeThreshold
    MaxFires        \* bound of the model: fires and failures in the rolling window

ASSUME CatalogueConstantsOK ==
    /\ ListRequest \cap DetailRequest = {}
    /\ Stale \in Nat /\ Expire \in Nat \ {0} /\ Stale <= Expire
    /\ Volume \in Nat /\ MaxFires \in Nat

VARIABLES
    breaker,   \* "closed", "open" or "halfOpen"
    probe,     \* half-open, and the next call is let through (pendingClose)
    fires,     \* calls of the rolling window, the rejected ones included
    failures,  \* failed calls of the rolling window
    copy,      \* wp:*, the copies of WordPress's answers
    list,      \* properties:list:*, the entry of the page
    pc,        \* what each request or background refresh is at
    data,      \* what it holds
    answer     \* the last answer given to a request

circuit  == <<breaker, probe, fires, failures>>
caches   == <<copy, list>>
requests == <<pc, data>>
catalogueVars == <<circuit, caches, requests, answer>>

Request == ListRequest \cup DetailRequest
Proc == (Request \X {"front"}) \cup (ListRequest \X {"back"})
Key(p) == IF p[1] \in ListRequest THEN "properties" ELSE "property"

Old == 2 * Expire     \* so old, or older
Nothing == -1         \* an empty connection, or "not found"
Data == 0..Old \cup {Nothing}
Entry == [data : Data, age : 0..Expire]
NoEntry == [data |-> Nothing, age |-> Expire]
Live(entry) == entry.age < Expire

CatalogueTypeOK ==
    /\ breaker \in {"closed", "open", "halfOpen"}
    /\ probe \in BOOLEAN /\ (probe => breaker = "halfOpen")
    /\ fires \in 0..MaxFires
    /\ failures \in 0..MaxFires
    /\ copy \in [{"properties", "property"} -> Entry]
    /\ list \in Entry
    /\ pc \in [Proc -> {"idle", "fire", "calling", "copy", "fallback", "put"}]
    /\ data \in [Proc -> Data]
    /\ answer \in Data

CatalogueInit ==
    /\ breaker = "closed" /\ probe = FALSE /\ fires = 0 /\ failures = 0
    /\ copy = [k \in {"properties", "property"} |-> NoEntry]
    /\ list = NoEntry
    /\ pc = [p \in Proc |-> "idle"]
    /\ data = [p \in Proc |-> Nothing]
    /\ answer = Nothing

-----------------------------------------------------------------------------
(* PropertyService and the cache before it. *)

Goto(p, stage, d) ==
    /\ pc' = [pc EXCEPT ![p] = stage]
    /\ data' = [data EXCEPT ![p] = d]

\* A request ends with an answer, a background refresh without.
Finish(p, d) ==
    /\ Goto(p, "idle", Nothing)
    /\ answer' = IF p[2] = "front" THEN d ELSE answer

\* getOrRefresh: fresh and stale entries are served, a stale one is refreshed
\* behind the answer; nothing keeps two requests from refreshing at once.
\* A cache that is down finds nothing.
FindProperties(r) ==
    /\ pc[<<r, "front">>] = "idle"
    /\ \/ /\ Live(list)
          /\ answer' = list.data
          /\ IF list.age >= Stale /\ pc[<<r, "back">>] = "idle"
             THEN Goto(<<r, "back">>, "fire", Nothing)
             ELSE UNCHANGED requests
       \/ Goto(<<r, "front">>, "fire", Nothing) /\ UNCHANGED answer
    /\ UNCHANGED <<circuit, caches>>

FindProperty(r) ==
    /\ pc[<<r, "front">>] = "idle"
    /\ Goto(<<r, "front">>, "fire", Nothing)
    /\ UNCHANGED <<circuit, caches, answer>>

\* Faulty variant: the empty answer to a failure is made inside the refresh.
RefreshFailsQuietly(p) ==
    IF Key(p) = "properties" THEN Goto(p, "put", Nothing) /\ UNCHANGED answer
    ELSE Finish(p, Nothing)

\* An error of WordPressClient: an empty list, or "not found".
RefreshFails(p) == Finish(p, Nothing)

\* The list's entry is written; a write that fails is swallowed.
Put(p) ==
    /\ pc[p] = "put"
    /\ list' \in {[data |-> data[p], age |-> 0], list}
    /\ Finish(p, data[p])
    /\ UNCHANGED <<circuit, copy>>

-----------------------------------------------------------------------------
(* WordPressClient.fireWithFallback and the breaker. *)

\* What to do with a result: the list goes through its cache, a property not.
Deliver(p, d) ==
    IF Key(p) = "properties" THEN Goto(p, "put", d) /\ UNCHANGED answer
    ELSE Finish(p, d)

\* The catch block: the copy is read only if the breaker is open by then.
Caught(p, state) ==
    IF state = "open" THEN Goto(p, "fallback", Nothing) /\ UNCHANGED answer
    ELSE RefreshFails(p)

\* Faulty variant: the probe does not use up the permission.
FireAsProbe(p) ==
    /\ pc[p] = "fire"
    /\ fires < MaxFires
    /\ fires' = fires + 1
    /\ IF breaker = "closed" \/ probe
       THEN Goto(p, "calling", Nothing) /\ UNCHANGED answer
       ELSE Caught(p, breaker)
    /\ UNCHANGED <<breaker, probe, failures, caches>>

\* A call is let through if the breaker is closed, or as its probe.
Fire(p) ==
    /\ pc[p] = "fire"
    /\ fires < MaxFires
    /\ fires' = fires + 1
    /\ IF breaker = "closed" \/ probe
       THEN probe' = FALSE /\ Goto(p, "calling", Nothing) /\ UNCHANGED answer
       ELSE Caught(p, breaker) /\ UNCHANGED probe
    /\ UNCHANGED <<breaker, failures, caches>>

CallSucceeds(p) ==
    /\ pc[p] = "calling"
    /\ Goto(p, "copy", 0)
    /\ breaker' = IF breaker = "halfOpen" THEN "closed" ELSE breaker
    /\ UNCHANGED <<probe, fires, failures, caches, answer>>

\* Faulty variant: a failed probe is counted like any other failure.
TripsByRate(failed) ==
    IF fires >= Volume /\ 2 * failed > fires THEN "open" ELSE breaker

\* More than half of at least volumeThreshold calls failed, or the probe did.
Trips(failed) ==
    IF breaker = "halfOpen" \/ (fires >= Volume /\ 2 * failed > fires) THEN "open" ELSE breaker

\* An error, GraphQL errors, or the timeout of the breaker or of the client.
CallFails(p) ==
    /\ pc[p] = "calling"
    /\ LET failed == IF failures < MaxFires THEN failures + 1 ELSE failures
       IN /\ failures' = failed
          /\ breaker' = Trips(failed)
          /\ Caught(p, breaker')
    /\ UNCHANGED <<probe, fires, caches>>

StoreCopy(p) ==
    /\ pc[p] = "copy"
    /\ \E stored \in BOOLEAN :
         copy' = IF stored THEN [copy EXCEPT ![Key(p)] = [data |-> data[p], age |-> 0]] ELSE copy
    /\ Deliver(p, data[p])
    /\ UNCHANGED <<circuit, list>>

\* Faulty variant: a copy that is served is stored anew.
FallbackRenewing(p) ==
    /\ pc[p] = "fallback"
    /\ \/ /\ Live(copy[Key(p)])
          /\ Goto(p, "copy", copy[Key(p)].data)
          /\ UNCHANGED answer
       \/ RefreshFails(p)
    /\ UNCHANGED <<circuit, caches>>

\* cacheService.get: any copy Redis still has, however old; without one, a 503.
Fallback(p) ==
    /\ pc[p] = "fallback"
    /\ \/ Live(copy[Key(p)]) /\ Deliver(p, copy[Key(p)].data)
       \/ RefreshFails(p)
    /\ UNCHANGED <<circuit, caches>>

\* resetTimeout (30 s) is longer than a call's timeout (5 s): when it has
\* passed, the calls from before the breaker opened have ended.
ResetTimeoutPasses ==
    /\ breaker = "open"
    /\ \A p \in Proc : pc[p] # "calling"
    /\ breaker' = "halfOpen" /\ probe' = TRUE
    /\ UNCHANGED <<fires, failures, caches, requests, answer>>

\* Old buckets leave the rolling window.
WindowRolls ==
    /\ fires > 0 \/ failures > 0
    /\ fires' \in 0..fires /\ failures' \in 0..failures
    /\ fires' < fires \/ failures' < failures
    /\ UNCHANGED <<breaker, probe, caches, requests, answer>>

Aged(entry) ==
    IF entry.age + 1 >= Expire THEN NoEntry
    ELSE [data |-> IF entry.data \in {Nothing, Old} THEN entry.data ELSE entry.data + 1,
          age |-> entry.age + 1]

TimePasses ==
    /\ \A p \in Proc : pc[p] = "idle"
    /\ list' = Aged(list)
    /\ copy' = [k \in DOMAIN copy |-> Aged(copy[k])]
    /\ UNCHANGED <<circuit, requests, answer>>

Call(p) == Fire(p) \/ CallSucceeds(p) \/ CallFails(p) \/ StoreCopy(p) \/ Fallback(p) \/ Put(p)

CatalogueNext ==
    \/ \E r \in ListRequest : FindProperties(r)
    \/ \E r \in DetailRequest : FindProperty(r)
    \/ \E p \in Proc : Call(p)
    \/ ResetTimeoutPasses \/ WindowRolls \/ TimePasses

\* A call ends by its timeout, Redis by its own; timers fire; the window rolls.
Fairness ==
    /\ \A p \in Proc : WF_catalogueVars(Call(p))
    /\ WF_catalogueVars(ResetTimeoutPasses) /\ WF_catalogueVars(WindowRolls)

CatalogueSpec == CatalogueInit /\ [][CatalogueNext]_catalogueVars /\ Fairness

-----------------------------------------------------------------------------
(* The two caches are filled one from the other, so an answer may be older  *)
(* than expireTtl, but never twice as old: a copy that is served while the  *)
(* breaker is open is not stored again.                                     *)
ServedWithinTwiceExpire == answer < 2 * Expire

(* An outage is never cached: the empty list that answers a failed request  *)
(* is not what the next request finds.                                      *)
OutageIsNotCached == Live(list) => list.data # Nothing

(* Once WordPress answers every call and requests keep reaching the client, *)
(* the breaker closes: no probe gets lost.                                  *)
BreakerRecovers ==
    (/\ <>[][\A p \in Proc : ~CallFails(p)]_catalogueVars
     /\ []<><<\E p \in Proc : Fire(p)>>_catalogueVars)
    => <>[](breaker = "closed")
=============================================================================
