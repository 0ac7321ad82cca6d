--------------------------- MODULE BrowserProofs ---------------------------
(***************************************************************************)
(* The form keeps what it was given: its queue loses nothing but by an     *)
(* overlap of two flushes, nobody is told that an enquiry was submitted    *)
(* that has no row, and the pages of the list follow one another.          *)
(***************************************************************************)
EXTENDS OfflineQueue, Browser, FiniteSetTheorems, TLAPS

Has(s, i) == \E n \in 1..Len(s) : s[n] = i

\* The first element and the rest of a sequence are all of it.
LEMMA HeadOrTail ==
  ASSUME NEW S, NEW s \in Seq(S), s # <<>>, NEW i, Has(s, i)
  PROVE  i = Head(s) \/ Has(Tail(s), i)
<1>1. PICK n \in 1..Len(s) : s[n] = i
  BY DEF Has
<1>2. CASE n = 1
  BY <1>1, <1>2
<1>3. CASE n # 1
  <2>1. n - 1 \in 1..Len(Tail(s)) /\ Tail(s)[n - 1] = s[n]
    BY <1>3
  <2>2. QED
    BY <1>1, <2>1 DEF Has
<1>4. QED
  BY <1>2, <1>3

\* An append keeps what there is and adds one element.
LEMMA AppendHas ==
  ASSUME NEW S, NEW s \in Seq(S), NEW e \in S
  PROVE  /\ Append(s, e) \in Seq(S)
         /\ Has(Append(s, e), e)
         /\ \A i : Has(s, i) => Has(Append(s, e), i)
<1>1. /\ Append(s, e) \in Seq(S) /\ Len(Append(s, e)) = Len(s) + 1
      /\ Append(s, e)[Len(s) + 1] = e
      /\ \A n \in 1..Len(s) : Append(s, e)[n] = s[n]
  OBVIOUS
<1>2. Len(s) \in Nat
  OBVIOUS
<1>3. QED
  BY <1>1, <1>2 DEF Has

-----------------------------------------------------------------------------
(* Types. *)

\* Idle and starting flushes, and those whose effect is cleaned up.
LEMMA FlushTypes ==
  /\ Idle \in FlushState
  /\ \A s \in Seq(Item), current \in BOOLEAN : Start(s, current) \in FlushState
  /\ TypeOK => CleanedUp \in [Flush -> FlushState]
<1>1. Idle \in FlushState /\ \A s \in Seq(Item), current \in BOOLEAN : Start(s, current) \in FlushState
  <2>1. <<>> \in Seq(Item)
    OBVIOUS
  <2>2. QED
    BY <2>1 DEF Idle, Start, FlushState
<1>2. ASSUME TypeOK PROVE CleanedUp \in [Flush -> FlushState]
  <2>1. \A f \in Flush : [flush[f] EXCEPT !.current = FALSE] \in FlushState
    BY <1>2 DEF TypeOK, FlushState
  <2>2. QED
    BY <2>1 DEF CleanedUp
<1>3. QED
  BY <1>1, <1>2

\* Every initial state has the types.
LEMMA TypeInit == Init => TypeOK
BY FlushTypes, ConstantsOK DEF Init, TypeOK

\* No step leaves the types.
LEMMA TypeStep == TypeOK /\ [Next]_vars => TypeOK'
<1> SUFFICES ASSUME TypeOK, [Next]_vars PROVE TypeOK'
  OBVIOUS
<1> USE FlushTypes DEF TypeOK, user, backend
<1>1. ASSUME NEW i \in Item, Enqueue(i) PROVE TypeOK'
  BY <1>1 DEF Enqueue
<1>2. ASSUME NEW i \in Item, WindowPasses(i) PROVE TypeOK'
  BY <1>2 DEF WindowPasses
<1>3. ASSUME NEW f \in Flush, PostItem(f) PROVE TypeOK'
  <2> DEFINE i == Head(flush[f].todo)
  <2>1. /\ i \in Item /\ flush[f].todo \in Seq(Item) /\ flush[f].kept \in Seq(Item)
        /\ Tail(flush[f].todo) \in Seq(Item)
    <3>1. /\ flush[f].todo \in Seq(Item) /\ flush[f].kept \in Seq(Item)
          /\ flush[f].todo # <<>>
      BY <1>3 DEF PostItem, FlushState
    <3>2. QED
      BY <3>1
  <2>2. PICK kept \in {flush[f].kept, Append(flush[f].kept, i)} :
          flush' = [flush EXCEPT ![f] = [active |-> TRUE, todo |-> Tail(flush[f].todo), kept |-> kept,
                                         current |-> flush[f].current]]
    BY <1>3 DEF PostItem
  <2>3. flush' \in [Flush -> FlushState]
    <3>1. flush[f].current \in BOOLEAN
      BY DEF FlushState
    <3>2. Append(flush[f].kept, i) \in Seq(Item)
      BY <2>1, AppendHas
    <3>3. kept \in Seq(Item)
      BY <2>1, <3>2
    <3>4. QED
      BY <2>1, <2>2, <3>1, <3>3 DEF FlushState
  <2>4. rows' \in [Item -> 0..MaxRows] /\ recent' \in SUBSET Item
    <3>1. Created(i) \/ UNCHANGED backend
      BY <1>3 DEF PostItem
    <3>2. QED
      BY <2>1, <3>1, ConstantsOK DEF Created
  <2>5. QED
    BY <1>3, <2>3, <2>4 DEF PostItem
<1>4. ASSUME NEW f \in Flush, FinishFlush(f) PROVE TypeOK'
  <2>1. queue' \in Seq(Item)
    BY <1>4 DEF FinishFlush, Remaining, FlushState
  <2>2. pendingCount' \in Nat
    <3>1. Len(queue') \in Nat
      BY <2>1
    <3>2. QED
      BY <1>4, <3>1 DEF FinishFlush
  <2>3. flush' \in [Flush -> FlushState]
    <3>1. \E s \in {Idle, Start(queue', TRUE)} : flush' = [flush EXCEPT ![f] = s]
      BY <1>4 DEF FinishFlush
    <3>2. QED
      BY <2>1, <3>1
  <2>4. QED
    BY <1>4, <2>1, <2>2, <2>3 DEF FinishFlush
<1>5. CASE GoOffline
  <2>1. Len(queue) \in Nat /\ CleanedUp \in [Flush -> FlushState]
    OBVIOUS
  <2>2. QED
    BY <1>5, <2>1 DEF GoOffline
<1>6. CASE GoOnline
  <2>1. flush' \in [Flush -> FlushState]
    <3>1. \/ \E f, g \in Flush :
               flush' = [CleanedUp EXCEPT ![f] = Start(queue, FALSE), ![g] = Start(queue, TRUE)]
          \/ \E f \in Flush : flush' = [CleanedUp EXCEPT ![f] = Start(queue, TRUE)]
          \/ flush' = CleanedUp
      BY <1>6 DEF GoOnline, Free
    <3>2. CleanedUp \in [Flush -> FlushState] /\ \A current \in BOOLEAN : Start(queue, current) \in FlushState
      OBVIOUS
    <3>3. QED
      BY <3>1, <3>2
  <2>2. QED
    BY <1>6, <2>1 DEF GoOnline
<1>7. CASE Reload
  <2>1. flush' \in [Flush -> FlushState]
    BY <1>7 DEF Reload
  <2>2. QED
    BY <1>7, <2>1 DEF Reload
<1>8. CASE UNCHANGED vars
  BY <1>8 DEF vars
<1>9. QED
  BY <1>1, <1>2, <1>3, <1>4, <1>5, <1>6, <1>7, <1>8 DEF Next

\* Type correctness of the queue, its flushes and the rows they make.
THEOREM TypeCorrect == Spec => []TypeOK
BY TypeInit, TypeStep, PTL DEF Spec
-----------------------------------------------------------------------------
(* Loss.  An enquiry that was not queued during a flush is in the queue, and *)
(* with every flush in progress, until the backend has it: whichever flush   *)
(* ends last, what it stores over the queue holds the enquiry.               *)

With(f, i) == Has(flush[f].todo, i) \/ Has(flush[f].kept, i)
KeptInv ==
  \A i \in submitted \ overlapped :
    rows[i] > 0 \/ (Has(queue, i) /\ \A f \in InProgress : With(f, i))

\* What a flush that starts takes along is the queue.
LEMMA StartedWithQueue ==
  ASSUME TypeOK, KeptInv, UNCHANGED <<queue, user, backend>>,
         \A f \in Flush : flush'[f].active =>
           \/ flush[f].active /\ flush'[f].todo = flush[f].todo /\ flush'[f].kept = flush[f].kept
           \/ flush'[f].todo = queue
  PROVE  KeptInv'
BY DEF KeptInv, InProgress, With, user, backend

\* No step loses an enquiry but one that was queued during a flush.
LEMMA KeptStep == TypeOK /\ KeptInv /\ [Next]_vars => KeptInv'
<1> SUFFICES ASSUME TypeOK, KeptInv, [Next]_vars PROVE KeptInv'
  OBVIOUS
<1> USE DEF user, backend
<1>1. ASSUME NEW i \in Item, Enqueue(i) PROVE KeptInv'
  <2>1. Has(queue', i) /\ \A k : Has(queue, k) => Has(queue', k)
    BY <1>1, AppendHas DEF Enqueue, TypeOK
  <2>2. UNCHANGED <<flush, rows>> /\ submitted' = submitted \cup {i} /\ overlapped \subseteq overlapped'
    BY <1>1 DEF Enqueue
  <2>3. i \in overlapped' \/ InProgress = {}
    BY <1>1 DEF Enqueue
  <2>4. QED
    BY <2>1, <2>2, <2>3 DEF KeptInv, InProgress, With
<1>2. ASSUME NEW i \in Item, WindowPasses(i) PROVE KeptInv'
  BY <1>2 DEF WindowPasses, KeptInv, InProgress, With
<1>3. ASSUME NEW f \in Flush, PostItem(f) PROVE KeptInv'
  <2> DEFINE i == Head(flush[f].todo)
  <2>1. /\ flush[f].active /\ flush[f].todo # <<>>
        /\ flush[f].todo \in Seq(Item) /\ flush[f].kept \in Seq(Item)
        /\ UNCHANGED <<queue, submitted, overlapped>>
    BY <1>3 DEF PostItem, TypeOK, FlushState
  <2>2. i \in Item
    BY <2>1
  <2>3. PICK kept \in {flush[f].kept, Append(flush[f].kept, i)} :
          /\ flush' = [flush EXCEPT ![f] = [active |-> TRUE, todo |-> Tail(flush[f].todo),
                                            kept |-> kept, current |-> flush[f].current]]
          /\ kept = Append(flush[f].kept, i) \/ Created(i)
    BY <1>3 DEF PostItem
  <2>4. /\ flush'[f].todo = Tail(flush[f].todo) /\ flush'[f].kept = kept
        /\ \A g \in Flush \ {f} : flush'[g] = flush[g]
    BY <2>3 DEF TypeOK
  <2>5. Created(i) \/ UNCHANGED <<rows, recent>>
    BY <1>3 DEF PostItem
  <2>6. /\ \A k \in Item : rows[k] > 0 => rows'[k] > 0
        /\ Created(i) => rows'[i] > 0
    <3>1. \A k \in Item : rows[k] \in Nat
      BY ConstantsOK DEF TypeOK
    <3>2. QED
      BY <2>2, <2>5, <3>1 DEF Created, TypeOK
  <2>7. \A k : Has(flush[f].kept, k) => Has(kept, k)
    <3>1. \A k : Has(flush[f].kept, k) => Has(Append(flush[f].kept, i), k)
      BY <2>1, <2>2, AppendHas
    <3>2. QED
      BY <3>1
  <2>8. kept = Append(flush[f].kept, i) => Has(kept, i)
    BY <2>1, <2>2, AppendHas
  <2>9. ASSUME NEW k \in submitted \ overlapped, ~(rows'[k] > 0)
        PROVE  Has(queue, k) /\ \A g \in InProgress' : With(g, k)'
    <3>1. k \in Item /\ Has(queue, k) /\ \A g \in InProgress : With(g, k)
      BY <2>6, <2>9 DEF KeptInv, TypeOK
    <3>2. With(f, k)'
      <4>1. Has(flush[f].kept, k) \/ k = i \/ Has(Tail(flush[f].todo), k)
        BY <2>1, <3>1, HeadOrTail DEF With, InProgress
      <4>2. k = i => Has(kept, k)
        BY <2>3, <2>6, <2>8, <2>9
      <4>3. QED
        BY <2>4, <2>7, <4>1, <4>2 DEF With
    <3>3. QED
      BY <2>4, <3>1, <3>2 DEF With, InProgress
  <2>10. QED
    BY <2>1, <2>9 DEF KeptInv
<1>4. ASSUME NEW f \in Flush, FinishFlush(f) PROVE KeptInv'
  <2>1. /\ flush[f].active /\ flush[f].todo = <<>> /\ queue' = flush[f].kept
        /\ UNCHANGED <<submitted, overlapped, rows>>
    BY <1>4 DEF FinishFlush, Remaining
  <2>2. \A i : ~Has(<<>>, i)
    BY DEF Has
  <2>3. \A i \in submitted \ overlapped : rows[i] > 0 \/ Has(queue', i)
    BY <2>1, <2>2 DEF KeptInv, InProgress, With
  <2>4. \E s \in {Idle, Start(queue', TRUE)} : flush' = [flush EXCEPT ![f] = s]
    BY <1>4 DEF FinishFlush
  <2>5. \A g \in Flush : flush'[g].active => flush'[g] = flush[g] \/ flush'[g].todo = queue'
    BY <2>4 DEF Idle, Start, TypeOK
  <2>6. \A g \in Flush \ {f} : flush'[g] = flush[g]
    BY <2>4 DEF TypeOK
  <2>7. flush'[f].active => flush'[f].todo = queue'
    BY <2>4 DEF Idle, Start, TypeOK
  <2>8. QED
    BY <2>1, <2>3, <2>6, <2>7 DEF KeptInv, InProgress, With
<1>5. CASE GoOffline
  BY <1>5, StartedWithQueue DEF GoOffline, CleanedUp, TypeOK, FlushState
<1>6. CASE GoOnline
  <2>1. \/ \E f, g \in Free :
             flush' = [CleanedUp EXCEPT ![f] = Start(queue, FALSE), ![g] = Start(queue, TRUE)]
        \/ \E f \in Free : flush' = [CleanedUp EXCEPT ![f] = Start(queue, TRUE)]
        \/ flush' = CleanedUp
    BY <1>6 DEF GoOnline
  <2>2. /\ CleanedUp \in [Flush -> FlushState]
        /\ \A f \in Flush : /\ CleanedUp[f].active = flush[f].active
                            /\ CleanedUp[f].todo = flush[f].todo
                            /\ CleanedUp[f].kept = flush[f].kept
    BY FlushTypes DEF CleanedUp, TypeOK, FlushState
  <2>3. \A f \in Flush : \/ flush'[f] = CleanedUp[f]
                         \/ \E current \in BOOLEAN : flush'[f] = Start(queue, current)
    BY <2>1, <2>2 DEF Free
  <2>4. QED
    BY <1>6, <2>2, <2>3, StartedWithQueue DEF GoOnline, Start
<1>7. CASE Reload
  <2>1. \A f \in Flush : flush'[f] \in {Idle, Start(queue, TRUE)}
    BY <1>7 DEF Reload
  <2>2. QED
    BY <1>7, <2>1, StartedWithQueue DEF Reload, Idle, Start
<1>8. CASE UNCHANGED vars
  BY <1>8 DEF vars, KeptInv, InProgress, With
<1>9. QED
  BY <1>1, <1>2, <1>3, <1>4, <1>5, <1>6, <1>7, <1>8 DEF Next

\* An enquiry that was not queued during a flush is in the queue until the
\* backend has it.
THEOREM NothingLost == Spec => []LostOnlyByOverlap
<1>1. Init => KeptInv
  BY DEF Init, KeptInv
<1>2. KeptInv => LostOnlyByOverlap
  BY DEF KeptInv, LostOnlyByOverlap, Has, Queued
<1>3. QED
  BY <1>1, <1>2, KeptStep, TypeCorrect, PTL DEF Spec

-----------------------------------------------------------------------------
(* The banner. *)

CurrentInv ==
  /\ \A f \in Flush : flush[f].current => online
  /\ \A f, g \in Flush : flush[f].current /\ flush[g].current => f = g

\* A flush becomes current only when no other is.
LEMMA CurrentStep == TypeOK /\ CurrentInv /\ [Next]_vars => CurrentInv'
<1> SUFFICES ASSUME TypeOK, CurrentInv, [Next]_vars PROVE CurrentInv'
  OBVIOUS
<1> USE DEF user, backend
<1>1. ASSUME NEW i \in Item, Enqueue(i) \/ WindowPasses(i) PROVE CurrentInv'
  BY <1>1 DEF Enqueue, WindowPasses, CurrentInv
<1>2. ASSUME NEW f \in Flush, PostItem(f) PROVE CurrentInv'
  <2>1. online' = online /\ \A g \in Flush : flush'[g].current = flush[g].current
    BY <1>2 DEF PostItem, TypeOK
  <2>2. QED
    BY <2>1 DEF CurrentInv
<1>3. ASSUME NEW f \in Flush, FinishFlush(f) PROVE CurrentInv'
  <2>1. /\ online' = online /\ \A g \in Flush \ {f} : flush'[g] = flush[g]
        /\ flush'[f].current => flush[f].current
    BY <1>3 DEF FinishFlush, Idle, Start, TypeOK
  <2>2. QED
    BY <2>1 DEF CurrentInv
<1>4. \A f \in Flush : CleanedUp[f].current = FALSE
  BY DEF CleanedUp, TypeOK, FlushState
<1>5. CASE GoOffline
  BY <1>4, <1>5 DEF GoOffline, CurrentInv
<1>6. CASE GoOnline
  <2>1. \/ \E f, g \in Flush :
             /\ f # g
             /\ flush' = [CleanedUp EXCEPT ![f] = Start(queue, FALSE), ![g] = Start(queue, TRUE)]
        \/ \E f \in Flush : flush' = [CleanedUp EXCEPT ![f] = Start(queue, TRUE)]
        \/ flush' = CleanedUp
    BY <1>6 DEF GoOnline, Free
  <2>2. \A f, g \in Flush : flush'[f].current /\ flush'[g].current => f = g
    <3>1. ASSUME NEW h \in Flush, NEW g \in Flush, h # g,
                 flush' = [CleanedUp EXCEPT ![h] = Start(queue, FALSE), ![g] = Start(queue, TRUE)]
          PROVE  \A f \in Flush : flush'[f].current => f = g
      BY <1>4, <3>1 DEF CleanedUp, Start
    <3>2. ASSUME NEW g \in Flush, flush' = [CleanedUp EXCEPT ![g] = Start(queue, TRUE)]
          PROVE  \A f \in Flush : flush'[f].current => f = g
      BY <1>4, <3>2 DEF CleanedUp, Start
    <3>3. QED
      BY <1>4, <2>1, <3>1, <3>2
  <2>3. online'
    BY <1>6 DEF GoOnline
  <2>4. QED
    BY <2>2, <2>3 DEF CurrentInv
<1>7. CASE Reload
  <2>1. online' = online
    BY <1>7 DEF Reload
  <2>2. \A f, g \in Flush : flush'[f].current /\ flush'[g].current => f = g /\ online
    BY <1>7 DEF Reload, Start, Idle
  <2>3. QED
    BY <2>1, <2>2 DEF CurrentInv
<1>8. CASE UNCHANGED vars
  BY <1>8 DEF vars, CurrentInv
<1>9. QED
  BY <1>1, <1>2, <1>3, <1>5, <1>6, <1>7, <1>8 DEF Next

\* At most one flush reports to the banner, and only while online.
THEOREM OneReports == Spec => []OneCurrentFlush
<1>1. Init => CurrentInv
  BY DEF Init, Idle, CurrentInv
<1>2. CurrentInv => OneCurrentFlush
  BY DEF CurrentInv, OneCurrentFlush, InProgress
<1>3. QED
  BY <1>1, <1>2, CurrentStep, TypeCorrect, PTL DEF Spec

\* A queue found at the reconnect is flushed at once.
THEOREM ReconnectTries == Spec => ReconnectFlushes
<1>1. ASSUME TypeOK, [Next]_vars, ~online, online', queue # <<>>
      PROVE  \E f \in Flush : flush'[f].current /\ flush'[f].todo = queue
  <2>1. GoOnline
    BY <1>1 DEF Next, vars, Enqueue, WindowPasses, PostItem, FinishFlush, GoOffline, Reload
  <2>2. Len(queue) \in Nat /\ Len(queue) # 0 /\ pendingCount \in Nat
    BY <1>1 DEF TypeOK
  <2>3. \/ \E f, g \in Flush :
             /\ f # g
             /\ flush' = [CleanedUp EXCEPT ![f] = Start(queue, FALSE), ![g] = Start(queue, TRUE)]
        \/ \E f \in Flush : flush' = [CleanedUp EXCEPT ![f] = Start(queue, TRUE)]
    <3> DEFINE first == pendingCount > 0 /\ queue # <<>>
               again == Len(queue) \notin {0, pendingCount}
    <3>1. first \/ again
      BY <1>1, <2>2
    <3>2. CASE first /\ again
      BY <2>1, <3>2 DEF GoOnline, Free
    <3>3. CASE first # again
      BY <2>1, <3>3 DEF GoOnline, Free
    <3>4. QED
      BY <3>1, <3>2, <3>3
  <2>4. DOMAIN CleanedUp = Flush
    BY DEF CleanedUp
  <2>5. \E f \in Flush : flush'[f] = Start(queue, TRUE)
    BY <2>3, <2>4
  <2>6. QED
    BY <2>5 DEF Start
<1>2. QED
  BY <1>1, TypeCorrect, PTL DEF Spec, ReconnectFlushes

-----------------------------------------------------------------------------
(* The form of the tab (Browser). *)

MutationState == [stage : {"idle", "waiting", "backoff"}, draft : Draft \cup {Empty},
                  attempt : 0..MaxRetries, mounted : BOOLEAN]
RequestState == [stage : {"free", "sent", "checked"}, draft : Draft \cup {Empty},
                 for : Mutation \cup {"nobody"}]

PageInv == page \in {"form", "properties"} /\ draft \in Draft \cup {Empty}

\* What is idle is about nothing; what is under way is about a draft.
MutationInv ==
  /\ mutation \in [Mutation -> MutationState]
  /\ \A m \in Mutation : IF mutation[m].stage = "idle" THEN mutation[m] = NoMutation
                         ELSE mutation[m].draft \in Draft
RequestInv ==
  /\ request \in [Attempt -> RequestState]
  /\ \A a \in Attempt : IF request[a].stage = "free" THEN request[a] = NoRequest
                        ELSE request[a].draft \in Draft

\* A submission that waits does so for one request, which is about its draft.
AwaitedInv ==
  /\ \A a \in Attempt : request[a].for # "nobody" =>
       /\ mutation[request[a].for].stage = "waiting"
       /\ mutation[request[a].for].draft = request[a].draft
  /\ \A a, b \in Attempt : request[a].for # "nobody" /\ request[a].for = request[b].for => a = b

\* Requests whose check has found no row.
Checked(d) == {a \in Attempt : request[a].stage = "checked" /\ request[a].draft = d}

\* There is no row for the check of a lone request to miss; in a crowd every
\* row took a request of its own.
RowsInv ==
  /\ made \in [Draft -> Nat]
  /\ assured \subseteq Draft /\ crowded \subseteq Draft
  /\ \A d \in assured : made[d] > 0
  /\ \A d \in Draft : made[d] + Cardinality(Checked(d)) <= Cardinality(Attempt)
  /\ \A d \in Draft \ crowded :
       /\ \A a, b \in Attempt : request[a].draft = d /\ request[b].draft = d => a = b
       /\ made[d] <= 1
       /\ Checked(d) # {} => made[d] = 0

FormInv == PageInv /\ MutationInv /\ RequestInv /\ AwaitedInv /\ RowsInv

\* Sets of requests are finite.
LEMMA Attempts ==
  /\ Empty \notin Draft /\ "nobody" \notin Mutation
  /\ \A S \in SUBSET Attempt : IsFiniteSet(S) /\ Cardinality(S) \in Nat /\ Cardinality(S) <= Cardinality(Attempt)
  /\ \A S \in SUBSET Attempt : \A T \in SUBSET S : Cardinality(T) <= Cardinality(S)
  /\ \A S \in SUBSET Attempt : \A a \in S : Cardinality(S \ {a}) = Cardinality(S) - 1
  /\ Cardinality({}) = 0
<1>1. IsFiniteSet(Attempt) /\ Empty \notin Draft /\ "nobody" \notin Mutation
  BY BrowserConstantsOK DEF Empty
<1>2. \A S \in SUBSET Attempt : IsFiniteSet(S) /\ Cardinality(S) \in Nat /\ Cardinality(S) <= Cardinality(Attempt)
  BY <1>1, FS_Subset, FS_CardinalityType
<1>3. \A S \in SUBSET Attempt : \A T \in SUBSET S : Cardinality(T) <= Cardinality(S)
  BY <1>2, FS_Subset
<1>4. \A S \in SUBSET Attempt : \A a \in S : Cardinality(S \ {a}) = Cardinality(S) - 1
  BY <1>2, FS_RemoveElement
<1>5. QED
  BY <1>1, <1>2, <1>3, <1>4, FS_EmptySet

\* The end of an attempt: its submission ends, or tries again for the same draft.
LEMMA SubmissionMoves ==
  ASSUME MutationInv, NEW m \in Mutation, Finish(m) \/ Again(m), mutation[m].stage = "waiting"
  PROVE  /\ MutationInv'
         /\ \A n \in Mutation \ {m} : mutation'[n] = mutation[n]
         /\ mutation'[m].stage # "waiting"
<1>1. /\ mutation \in [Mutation -> MutationState] /\ MaxRetries \in Nat
      /\ mutation[m].draft \in Draft /\ mutation[m].attempt \in 0..MaxRetries
  BY BrowserConstantsOK DEF MutationInv, MutationState
<1>2. CASE Finish(m)
  <2>1. NoMutation \in MutationState /\ NoMutation.stage = "idle"
    BY <1>1 DEF NoMutation, MutationState
  <2>2. QED
    BY <1>1, <1>2, <2>1 DEF Finish, MutationInv
<1>3. CASE Again(m) /\ ~Finish(m)
  <2> DEFINE x == [stage |-> "backoff", draft |-> mutation[m].draft, attempt |-> mutation[m].attempt + 1,
                   mounted |-> mutation[m].mounted]
  <2>1. mutation[m].attempt # MaxRetries
    BY <1>3 DEF Again
  <2>2. mutation' = [mutation EXCEPT ![m].stage = "backoff", ![m].attempt = @ + 1]
    BY <1>3, <2>1 DEF Again
  <2>3. mutation' = [mutation EXCEPT ![m] = x]
    BY <1>1, <2>2 DEF MutationState
  <2>4. x \in MutationState /\ x.stage = "backoff" /\ x.draft \in Draft
    BY <1>1, <2>1 DEF MutationState
  <2> HIDE DEF x
  <2>5. QED
    BY <1>1, <2>3, <2>4 DEF MutationInv
<1>4. QED
  BY <1>2, <1>3

\* An attempt ends, or goes on at the backend with nobody waiting for it.
LEMMA RequestMoves ==
  ASSUME MutationInv, RequestInv, AwaitedInv, NEW a \in Attempt, request[a].stage # "free",
         \/ request' = [request EXCEPT ![a] = NoRequest]
         \/ request' = [request EXCEPT ![a].for = "nobody"],
         IF request[a].for = "nobody" THEN mutation' = mutation
         ELSE Finish(request[a].for) \/ Again(request[a].for)
  PROVE  /\ MutationInv' /\ RequestInv' /\ AwaitedInv'
         /\ \A b \in Attempt \ {a} : request'[b] = request[b]
         /\ request'[a] = NoRequest \/ (/\ request'[a].draft = request[a].draft
                                        /\ request'[a].stage = request[a].stage)
         /\ request'[a].for = "nobody"
<1>1. request \in [Attempt -> RequestState] /\ "nobody" \notin Mutation
  BY Attempts DEF RequestInv
<1>2. /\ \A b \in Attempt \ {a} : request'[b] = request[b]
      /\ request'[a] = NoRequest \/ (/\ request'[a].draft = request[a].draft
                                     /\ request'[a].stage = request[a].stage)
      /\ request'[a].for = "nobody"
      /\ RequestInv'
  <2>1. CASE request' = [request EXCEPT ![a] = NoRequest]
    <3>1. NoRequest \in RequestState /\ NoRequest.stage = "free" /\ NoRequest.for = "nobody"
      BY DEF NoRequest, RequestState
    <3>2. /\ request' \in [Attempt -> RequestState] /\ request'[a] = NoRequest
          /\ \A b \in Attempt \ {a} : request'[b] = request[b]
      BY <1>1, <2>1, <3>1
    <3>3. ASSUME NEW b \in Attempt
          PROVE  IF request'[b].stage = "free" THEN request'[b] = NoRequest ELSE request'[b].draft \in Draft
      <4>1. CASE b = a
        BY <3>1, <3>2, <4>1
      <4>2. CASE b # a
        BY <3>2, <4>2 DEF RequestInv
      <4>3. QED
        BY <4>1, <4>2
    <3>4. RequestInv'
      BY <3>2, <3>3 DEF RequestInv
    <3>5. QED
      BY <3>1, <3>2, <3>4
  <2>2. CASE request' = [request EXCEPT ![a].for = "nobody"]
    <3> DEFINE x == [stage |-> request[a].stage, draft |-> request[a].draft, for |-> "nobody"]
    <3>1. request' = [request EXCEPT ![a] = x] /\ x \in RequestState
      <4>1. request[a] \in RequestState
        BY <1>1
      <4>2. [request[a] EXCEPT !.for = "nobody"] = x /\ x \in RequestState
        BY <4>1 DEF RequestState
      <4> HIDE DEF x
      <4>3. QED
        BY <2>2, <4>2
    <3>2. x.stage = request[a].stage /\ x.draft = request[a].draft /\ x.for = "nobody" /\ x.draft \in Draft
      BY DEF RequestInv
    <3> HIDE DEF x
    <3>3. QED
      BY <1>1, <3>1, <3>2 DEF RequestInv
  <2>3. QED
    BY <2>1, <2>2
<1>3. CASE request[a].for = "nobody"
  <2>1. mutation' = mutation
    BY <1>3
  <2>2. AwaitedInv'
    BY <1>2, <2>1 DEF AwaitedInv
  <2>3. QED
    BY <1>2, <2>1, <2>2 DEF MutationInv
<1>4. CASE request[a].for # "nobody"
  <2> DEFINE m == request[a].for
  <2>1. m \in Mutation /\ mutation[m].stage = "waiting" /\ (Finish(m) \/ Again(m))
    BY <1>1, <1>4 DEF RequestState, AwaitedInv
  <2>2. MutationInv' /\ \A n \in Mutation \ {m} : mutation'[n] = mutation[n]
    BY <2>1, SubmissionMoves
  <2>3. ASSUME NEW b \in Attempt, request'[b].for # "nobody"
        PROVE  b # a /\ request'[b] = request[b] /\ request[b].for \in Mutation \ {m}
    <3>1. b # a /\ request'[b] = request[b]
      BY <1>2, <2>3
    <3>2. request[b].for \in Mutation \cup {"nobody"}
      BY <1>1 DEF RequestState
    <3>3. QED
      BY <1>4, <2>3, <3>1, <3>2 DEF AwaitedInv
  <2>4. AwaitedInv'
    BY <2>2, <2>3 DEF AwaitedInv
  <2>5. QED
    BY <1>2, <2>2, <2>4
<1>5. QED
  BY <1>3, <1>4

\* A request leaves for a submission that awaits none.
LEMMA RequestLeaves ==
  ASSUME MutationInv, RequestInv, AwaitedInv, RowsInv, NEW m \in Mutation, NEW a \in Attempt, NEW d \in Draft,
         mutation[m].stage # "waiting", Send(m, a, d),
         NEW x \in MutationState, x.stage = "waiting", x.draft = d, mutation' = [mutation EXCEPT ![m] = x],
         made' = made, assured' = assured
  PROVE  MutationInv' /\ RequestInv' /\ AwaitedInv' /\ RowsInv'
<1> DEFINE y == [stage |-> "sent", draft |-> d, for |-> m]
<1>1. /\ request \in [Attempt -> RequestState] /\ mutation \in [Mutation -> MutationState]
      /\ "nobody" \notin Mutation /\ Empty \notin Draft
  BY Attempts DEF RequestInv, MutationInv
<1>2. MutationInv'
  BY <1>1 DEF MutationInv
<1>3. y \in RequestState /\ y.stage = "sent" /\ y.draft = d /\ y.for = m /\ request' = [request EXCEPT ![a] = y]
  BY DEF RequestState, Send
<1> HIDE DEF y
<1>4. request'[a] = y /\ \A b \in Attempt \ {a} : request'[b] = request[b]
  BY <1>1, <1>3
<1>5. RequestInv'
  BY <1>1, <1>3 DEF RequestInv
<1>6. \A b \in Attempt : request[b].for # m
  BY <1>1 DEF AwaitedInv
<1>7. AwaitedInv'
  <2>1. ASSUME NEW b \in Attempt \ {a}, request'[b].for # "nobody"
        PROVE  /\ request'[b].for # m /\ mutation'[request'[b].for] = mutation[request[b].for]
               /\ request'[b] = request[b]
    <3>1. request'[b] = request[b] /\ request[b].for \in Mutation
      BY <1>1, <1>4, <2>1 DEF RequestState
    <3>2. QED
      BY <1>1, <1>6, <3>1
  <2>2. request'[a].for = m /\ mutation'[m] = x /\ request'[a].draft = d
    BY <1>1, <1>3, <1>4
  <2>3. QED
    BY <2>1, <2>2 DEF AwaitedInv
<1>8. RowsInv'
  <2>1. /\ request[a].stage = "free" /\ request[a].draft = Empty
        /\ crowded' = IF \E b \in Attempt : request[b].draft = d THEN crowded \cup {d} ELSE crowded
    BY DEF Send, RequestInv, NoRequest
  <2>2. \A e \in Draft : Checked(e)' = Checked(e)
    BY <1>3, <1>4, <2>1 DEF Checked
  <2>3. crowded' \subseteq Draft /\ crowded \subseteq crowded'
    BY <2>1 DEF RowsInv
  <2>4. ASSUME NEW e \in Draft \ crowded', NEW b \in Attempt, NEW c \in Attempt,
               request'[b].draft = e, request'[c].draft = e
        PROVE  b = c
    <3>1. CASE e = d
      <4>1. \A q \in Attempt : request[q].draft # d
        BY <2>1, <2>4, <3>1
      <4>2. QED
        BY <1>4, <2>4, <3>1, <4>1
    <3>2. CASE e # d
      <4>1. b # a /\ c # a /\ request[b].draft = e /\ request[c].draft = e
        BY <1>3, <1>4, <2>4, <3>2
      <4>2. QED
        BY <2>3, <2>4, <4>1 DEF RowsInv
    <3>3. QED
      BY <3>1, <3>2
  <2>5. QED
    BY <2>2, <2>3, <2>4 DEF RowsInv
<1>9. QED
  BY <1>2, <1>5, <1>7, <1>8

\* Requests that end, are given up or are not heard of make no row.
LEMMA RowsKept ==
  ASSUME RowsInv, made' = made, crowded' = crowded,
         assured' \subseteq Draft, \A d \in assured' : made[d] > 0,
         \A a \in Attempt : \/ request'[a] = NoRequest
                            \/ /\ request'[a].draft = request[a].draft
                               /\ request'[a].stage = request[a].stage
  PROVE  RowsInv'
<1>1. /\ Empty \notin Draft
      /\ \A d \in Draft : \A a \in Attempt : request'[a].draft = d => request[a].draft = d
  BY Attempts DEF NoRequest
<1>2. ASSUME NEW d \in Draft
      PROVE  Checked(d)' \subseteq Checked(d) /\ made[d] + Cardinality(Checked(d)') <= Cardinality(Attempt)
  <2>1. Checked(d)' \in SUBSET Checked(d) /\ Checked(d) \in SUBSET Attempt
    BY DEF Checked, NoRequest
  <2>2. /\ Cardinality(Checked(d)') <= Cardinality(Checked(d)) /\ Cardinality(Attempt) \in Nat
        /\ Cardinality(Checked(d)') \in Nat /\ Cardinality(Checked(d)) \in Nat
    BY <2>1, Attempts
  <2>3. made[d] \in Nat /\ made[d] + Cardinality(Checked(d)) <= Cardinality(Attempt)
    BY DEF RowsInv
  <2>4. QED
    BY <2>1, <2>2, <2>3
<1>3. ASSUME NEW d \in Draft \ crowded
      PROVE  /\ \A a, b \in Attempt : request'[a].draft = d /\ request'[b].draft = d => a = b
             /\ made[d] <= 1
             /\ Checked(d)' # {} => made[d] = 0
  <2>1. Checked(d)' \subseteq Checked(d)
    BY <1>2
  <2>2. QED
    BY <1>1, <2>1 DEF RowsInv
<1>4. made' \in [Draft -> Nat] /\ crowded' \subseteq Draft
  BY DEF RowsInv
<1>5. QED
  BY <1>2, <1>3, <1>4 DEF RowsInv

\* A request is awaited only while it is at the backend.
LEMMA AwaitedIsBusy ==
  ASSUME RequestInv, NEW a \in Attempt, request[a].for # "nobody"
  PROVE  request[a].stage # "free" /\ request[a].for \in Mutation /\ request[a].draft \in Draft
BY DEF RequestInv, RequestState, NoRequest

\* Initially nothing was submitted.
LEMMA FormInit == BrowserInit => FormInv
<1> SUFFICES ASSUME BrowserInit PROVE FormInv
  OBVIOUS
<1>1. PageInv /\ MutationInv
  <2>1. NoMutation \in MutationState /\ NoMutation.stage = "idle"
    BY BrowserConstantsOK DEF NoMutation, MutationState
  <2>2. QED
    BY <2>1 DEF BrowserInit, PageInv, MutationInv
<1>2. RequestInv /\ AwaitedInv
  <2>1. NoRequest \in RequestState /\ NoRequest.stage = "free" /\ NoRequest.for = "nobody"
    BY DEF NoRequest, RequestState
  <2>2. QED
    BY <2>1 DEF BrowserInit, RequestInv, AwaitedInv
<1>3. RowsInv
  <2>1. \A d : Checked(d) = {}
    BY DEF BrowserInit, Checked, NoRequest
  <2>2. /\ made \in [Draft -> Nat] /\ \A d \in Draft : made[d] = 0
        /\ \A a \in Attempt : request[a].draft \notin Draft
        /\ assured = {} /\ crowded = {}
    BY Attempts DEF BrowserInit, NoRequest
  <2>3. Cardinality(Attempt) \in Nat /\ Cardinality({}) = 0
    BY Attempts
  <2>4. QED
    BY <2>1, <2>2, <2>3 DEF RowsInv
<1>4. QED
  BY <1>1, <1>2, <1>3 DEF FormInv

\* The backend's check: a duplicate is answered, another request is checked.
LEMMA CheckKeeps ==
  ASSUME FormInv, NEW a \in Attempt, FindDuplicate(a), NEW d, d = request[a].draft
  PROVE  FormInv'
<1> USE DEF FormInv
<1>1. /\ request[a].stage = "sent" /\ request[a].draft \in Draft /\ request \in [Attempt -> RequestState]
      /\ UNCHANGED <<page, draft, made, crowded, shown>>
  BY DEF FindDuplicate, RequestInv
<1>2. PageInv'
  BY <1>1 DEF PageInv
<1>3. CASE Duplicate(a)
  <2>1. /\ request' = [request EXCEPT ![a] = NoRequest] /\ made[request[a].draft] > 0
        /\ IF request[a].for = "nobody" THEN mutation' = mutation /\ assured' = assured
           ELSE Refused(request[a].for, "DUPLICATE_ENQUIRY")
    BY <1>3 DEF FindDuplicate, Duplicate
  <2>2. IF request[a].for = "nobody" THEN mutation' = mutation
        ELSE Finish(request[a].for) \/ Again(request[a].for)
    BY <2>1 DEF Refused
  <2>3. assured' \subseteq assured \cup {request[a].draft}
    BY <2>1 DEF Refused, AwaitedInv
  <2>4. /\ MutationInv' /\ RequestInv' /\ AwaitedInv'
        /\ \A b \in Attempt \ {a} : request'[b] = request[b]
        /\ request'[a] = NoRequest \/ (/\ request'[a].draft = request[a].draft
                                       /\ request'[a].stage = request[a].stage)
    BY <1>1, <2>1, <2>2, RequestMoves
  <2>5. assured' \subseteq Draft /\ \A e \in assured' : made[e] > 0
    BY <1>1, <2>1, <2>3 DEF RowsInv
  <2>6. RowsInv'
    BY <1>1, <2>4, <2>5, RowsKept
  <2>7. QED
    BY <1>2, <2>4, <2>6
<1>4. CASE ~Duplicate(a)
  <2> DEFINE x == [stage |-> "checked", draft |-> request[a].draft, for |-> request[a].for]
  <2>1. /\ request' = [request EXCEPT ![a].stage = "checked"] /\ mutation' = mutation /\ assured' = assured
        /\ ~(made[d] > 0)
    BY <1>4 DEF FindDuplicate, Duplicate
  <2>2. request' = [request EXCEPT ![a] = x] /\ x \in RequestState
    <3>1. [request[a] EXCEPT !.stage = "checked"] = x /\ x \in RequestState
      BY <1>1 DEF RequestState
    <3>2. QED
      BY <1>1, <2>1, <3>1
  <2>3. x.stage = "checked" /\ x.draft = d /\ x.for = request[a].for
    OBVIOUS
  <2>4. made[d] = 0
    BY <1>1, <2>1 DEF RowsInv
  <2> HIDE DEF x
  <2>5. /\ request'[a] = x /\ \A b \in Attempt \ {a} : request'[b] = request[b]
        /\ \A b \in Attempt : request'[b].draft = request[b].draft /\ request'[b].for = request[b].for
    BY <1>1, <2>2, <2>3
  <2>6. MutationInv' /\ RequestInv' /\ AwaitedInv'
    BY <1>1, <2>1, <2>2, <2>3, <2>5 DEF MutationInv, RequestInv, AwaitedInv
  <2>7. RowsInv'
    <3>1. \A e \in Draft \ {d} : Checked(e)' = Checked(e)
      BY <2>3, <2>5 DEF Checked
    <3>2. Cardinality(Checked(d)') <= Cardinality(Attempt) /\ Cardinality(Checked(d)') \in Nat
      <4>1. Checked(d)' \in SUBSET Attempt
        BY DEF Checked
      <4>2. QED
        BY <4>1, Attempts
    <3>3. \A e \in Draft : made[e] + Cardinality(Checked(e)') <= Cardinality(Attempt)
      <4>1. made[d] + Cardinality(Checked(d)') <= Cardinality(Attempt)
        BY <2>4, <3>2
      <4>2. QED
        BY <1>1, <3>1, <4>1 DEF RowsInv
    <3>4. \A e \in Draft \ crowded : Checked(e)' # {} => made[e] = 0
      BY <2>4, <3>1 DEF RowsInv
    <3>5. QED
      BY <1>1, <2>1, <2>5, <3>3, <3>4 DEF RowsInv
  <2>8. QED
    BY <1>2, <2>6, <2>7
<1>5. QED
  BY <1>3, <1>4

\* The row is made: a lone request makes the only one.
LEMMA InsertKeeps ==
  ASSUME FormInv, NEW a \in Attempt, InsertRow(a), NEW d, d = request[a].draft
  PROVE  FormInv'
<1> USE DEF FormInv
<1> DEFINE m == request[a].for
<1>1. /\ request[a].stage = "checked" /\ d \in Draft /\ request \in [Attempt -> RequestState]
      /\ made' = [made EXCEPT ![d] = @ + 1] /\ request' = [request EXCEPT ![a] = NoRequest]
      /\ UNCHANGED <<page, crowded>>
      /\ IF m = "nobody" THEN mutation' = mutation ELSE Finish(m) \/ Again(m)
      /\ assured' \subseteq assured \cup {d}
  BY DEF InsertRow, RequestInv
<1>2. PageInv'
  <2>1. draft' \in {draft, Empty}
    BY DEF InsertRow, ResetIfMounted, Reset
  <2>2. QED
    BY <1>1, <2>1 DEF PageInv
<1>3. /\ MutationInv' /\ RequestInv' /\ AwaitedInv'
      /\ \A b \in Attempt \ {a} : request'[b] = request[b]
  BY <1>1, RequestMoves
<1>4. request'[a] = NoRequest
  BY <1>1
<1>5. /\ made' \in [Draft -> Nat] /\ made'[d] = made[d] + 1 /\ made[d] \in Nat
      /\ \A e \in Draft \ {d} : made'[e] = made[e]
  BY <1>1 DEF RowsInv
<1>6. assured' \subseteq Draft /\ \A e \in assured' : made'[e] > 0
  BY <1>1, <1>5 DEF RowsInv
<1>7. Checked(d)' = Checked(d) \ {a} /\ \A e \in Draft \ {d} : Checked(e)' = Checked(e)
  <2>1. NoRequest.stage = "free"
    BY DEF NoRequest
  <2>2. QED
    BY <1>3, <1>4, <2>1 DEF Checked
<1>8. \A e \in Draft : made'[e] + Cardinality(Checked(e)') <= Cardinality(Attempt)
  <2>1. Checked(d) \in SUBSET Attempt /\ a \in Checked(d)
    BY <1>1 DEF Checked
  <2>2. Cardinality(Checked(d)') = Cardinality(Checked(d)) - 1 /\ Cardinality(Checked(d)) \in Nat
    BY <1>7, <2>1, Attempts
  <2>3. made[d] + Cardinality(Checked(d)) <= Cardinality(Attempt) /\ Cardinality(Attempt) \in Nat
    BY <1>1, Attempts DEF RowsInv
  <2>4. made'[d] + Cardinality(Checked(d)') <= Cardinality(Attempt)
    BY <1>5, <2>2, <2>3
  <2>5. QED
    BY <1>5, <1>7, <2>4 DEF RowsInv
<1>9. ASSUME NEW e \in Draft \ crowded
      PROVE  /\ \A b, c \in Attempt : request'[b].draft = e /\ request'[c].draft = e => b = c
             /\ made'[e] <= 1
             /\ Checked(e)' # {} => made'[e] = 0
  <2>1. \A b \in Attempt : request'[b].draft = e => request[b].draft = e
    BY <1>3, <1>4, Attempts DEF NoRequest
  <2>2. CASE e = d
    <3>1. a \in Checked(d)
      BY <1>1 DEF Checked
    <3>2. Checked(d) \ {a} = {}
      BY <1>1, <2>2 DEF RowsInv, Checked
    <3>3. made[d] = 0
      BY <2>2, <3>1 DEF RowsInv
    <3>4. QED
      BY <1>5, <1>7, <2>1, <2>2, <3>2, <3>3 DEF RowsInv
  <2>3. CASE e # d
    BY <1>5, <1>7, <2>1, <2>3 DEF RowsInv
  <2>4. QED
    BY <2>2, <2>3
<1>10. RowsInv'
  BY <1>1, <1>5, <1>6, <1>8, <1>9 DEF RowsInv
<1>11. QED
  BY <1>2, <1>3, <1>10

\* No step of the tab or the backend leaves the invariant.
LEMMA FormStep == FormInv /\ [BrowserNext]_browserVars => FormInv'
<1> SUFFICES ASSUME FormInv, [BrowserNext]_browserVars PROVE FormInv'
  OBVIOUS
<1> USE DEF FormInv
<1>1. ASSUME NEW d \in Draft, Type(d) PROVE FormInv'
  BY <1>1 DEF Type, PageInv, MutationInv, RequestInv, AwaitedInv, RowsInv, Checked
<1>2. ASSUME NEW d \in Draft, TenMinutesPass(d) PROVE FormInv'
  <2>1. /\ UNCHANGED <<page, draft, mutation, request, crowded>>
        /\ \A a \in Attempt : request[a].draft # d
        /\ made' = [made EXCEPT ![d] = 0] /\ assured' = assured \ {d}
    BY <1>2 DEF TenMinutesPass
  <2>2. PageInv' /\ MutationInv' /\ RequestInv' /\ AwaitedInv'
    BY <2>1 DEF PageInv, MutationInv, RequestInv, AwaitedInv
  <2>3. /\ made' \in [Draft -> Nat] /\ made'[d] = 0
        /\ \A e \in Draft \ {d} : made'[e] = made[e]
    BY <2>1 DEF RowsInv
  <2>4. Checked(d) = {} /\ \A e : Checked(e)' = Checked(e)
    BY <2>1 DEF Checked
  <2>5. \A e \in Draft : made'[e] + Cardinality(Checked(e)') <= Cardinality(Attempt)
    <3>1. Cardinality({}) = 0 /\ Cardinality(Attempt) \in Nat
      BY Attempts
    <3>2. QED
      BY <2>3, <2>4, <3>1 DEF RowsInv
  <2>6. RowsInv'
    BY <2>1, <2>3, <2>4, <2>5 DEF RowsInv
  <2>7. QED
    BY <2>2, <2>6
<1>3. ASSUME NEW m \in Mutation, NEW a \in Attempt, Submit(m, a) PROVE FormInv'
  <2> DEFINE x == [stage |-> "waiting", draft |-> draft, attempt |-> 1, mounted |-> TRUE]
  <2>1. /\ mutation[m].stage # "waiting" /\ draft \in Draft /\ Send(m, a, draft)
        /\ mutation' = [mutation EXCEPT ![m] = x] /\ UNCHANGED <<page, draft, made, assured>>
    BY <1>3 DEF Submit, PageInv
  <2>2. x \in MutationState /\ x.stage = "waiting" /\ x.draft = draft
    BY <2>1, BrowserConstantsOK DEF MutationState
  <2> HIDE DEF x
  <2>3. MutationInv' /\ RequestInv' /\ AwaitedInv' /\ RowsInv'
    BY <2>1, <2>2, RequestLeaves
  <2>4. QED
    BY <2>1, <2>3 DEF PageInv
<1>4. ASSUME NEW m \in Mutation, NEW a \in Attempt, ConnectionFails(m, a) PROVE FormInv'
  <2>1. /\ request[a].for = m /\ m # "nobody" /\ Again(m) /\ UNCHANGED <<page, draft, made, assured, crowded>>
        /\ \/ request' = [request EXCEPT ![a] = NoRequest]
           \/ request' = [request EXCEPT ![a].for = "nobody"]
    BY <1>4, Attempts DEF ConnectionFails
  <2>2. request[a].stage # "free"
    BY <2>1, AwaitedIsBusy
  <2>3. /\ MutationInv' /\ RequestInv' /\ AwaitedInv'
        /\ \A b \in Attempt \ {a} : request'[b] = request[b]
        /\ request'[a] = NoRequest \/ (/\ request'[a].draft = request[a].draft
                                       /\ request'[a].stage = request[a].stage)
    BY <2>1, <2>2, RequestMoves
  <2>4. assured' \subseteq Draft /\ \A d \in assured' : made[d] > 0
    BY <2>1 DEF RowsInv
  <2>5. RowsInv'
    BY <2>1, <2>3, <2>4, RowsKept
  <2>6. QED
    BY <2>1, <2>3, <2>5 DEF PageInv
<1>5. ASSUME NEW m \in Mutation, NEW a \in Attempt, Retry(m, a) PROVE FormInv'
  <2> DEFINE d == mutation[m].draft
             x == [stage |-> "waiting", draft |-> d, attempt |-> mutation[m].attempt,
                   mounted |-> mutation[m].mounted]
  <2>1. /\ mutation[m].stage = "backoff" /\ d \in Draft /\ mutation[m] \in MutationState /\ Send(m, a, d)
        /\ mutation' = [mutation EXCEPT ![m].stage = "waiting"] /\ UNCHANGED <<page, draft, made, assured>>
    BY <1>5 DEF Retry, MutationInv
  <2>2. mutation' = [mutation EXCEPT ![m] = x] /\ x \in MutationState /\ x.stage = "waiting" /\ x.draft = d
    <3>1. [mutation[m] EXCEPT !.stage = "waiting"] = x /\ x \in MutationState
      BY <2>1 DEF MutationState
    <3>2. QED
      BY <2>1, <3>1
  <2> HIDE DEF x
  <2>3. MutationInv' /\ RequestInv' /\ AwaitedInv' /\ RowsInv'
    BY <2>1, <2>2, RequestLeaves
  <2>4. QED
    BY <2>1, <2>3 DEF PageInv
<1>6. ASSUME NEW a \in Attempt, FindDuplicate(a) PROVE FormInv'
  BY <1>6, CheckKeeps
<1>7. ASSUME NEW a \in Attempt, InsertRow(a) PROVE FormInv'
  BY <1>7, InsertKeeps
<1>8. ASSUME NEW a \in Attempt, Reject(a) PROVE FormInv'
  <2>1. /\ request[a].stage # "free" /\ request' = [request EXCEPT ![a] = NoRequest]
        /\ UNCHANGED <<page, draft, made, crowded>> /\ assured' = assured
        /\ IF request[a].for = "nobody" THEN mutation' = mutation
           ELSE Finish(request[a].for) \/ Again(request[a].for)
    BY <1>8 DEF Reject, Refused
  <2>2. /\ MutationInv' /\ RequestInv' /\ AwaitedInv'
        /\ \A b \in Attempt \ {a} : request'[b] = request[b]
        /\ request'[a] = NoRequest \/ (/\ request'[a].draft = request[a].draft
                                       /\ request'[a].stage = request[a].stage)
    BY <2>1, RequestMoves
  <2>3. assured' \subseteq Draft /\ \A d \in assured' : made[d] > 0
    BY <2>1 DEF RowsInv
  <2>4. RowsInv'
    BY <2>1, <2>2, <2>3, RowsKept
  <2>5. QED
    BY <2>1, <2>2, <2>4 DEF PageInv
<1>9. ASSUME NEW to \in {"form", "properties"}, Navigate(to) PROVE FormInv'
  <2>1. /\ page' = to /\ draft' = Empty /\ mutation' = Leave
        /\ UNCHANGED <<request, made, assured, crowded>>
    BY <1>9 DEF Navigate
  <2>2. PageInv' /\ RequestInv'
    BY <2>1 DEF PageInv, RequestInv
  <2>3. RowsInv'
    BY <2>1 DEF RowsInv, Checked
  <2>4. ASSUME NEW m \in Mutation
        PROVE  /\ mutation'[m] \in MutationState
               /\ mutation'[m].stage = mutation[m].stage /\ mutation'[m].draft = mutation[m].draft
               /\ mutation[m] = NoMutation => mutation'[m] = NoMutation
    <3>1. mutation[m] \in MutationState /\ mutation'[m] = [mutation[m] EXCEPT !.mounted = FALSE]
      BY <2>1 DEF MutationInv, Leave
    <3>2. /\ mutation'[m] = [stage |-> mutation[m].stage, draft |-> mutation[m].draft,
                             attempt |-> mutation[m].attempt, mounted |-> FALSE]
          /\ mutation'[m] \in MutationState
      BY <3>1 DEF MutationState
    <3>3. mutation'[m].stage = mutation[m].stage /\ mutation'[m].draft = mutation[m].draft
      BY <3>2
    <3>4. CASE mutation[m] = NoMutation
      <4>1. mutation[m].stage = "idle" /\ mutation[m].draft = Empty /\ mutation[m].attempt = 0
        BY <3>4 DEF NoMutation
      <4>2. mutation'[m] = NoMutation
        BY <3>2, <4>1 DEF NoMutation
      <4>3. QED
        BY <3>2, <3>3, <4>2
    <3>5. QED
      BY <3>2, <3>3, <3>4
  <2>5. mutation' \in [Mutation -> MutationState]
    BY <2>1, <2>4 DEF Leave
  <2>6. MutationInv' /\ AwaitedInv'
    <3>1. \A a \in Attempt : request[a].for # "nobody" => request[a].for \in Mutation
      BY AwaitedIsBusy
    <3>2. QED
      BY <2>1, <2>4, <2>5, <3>1 DEF MutationInv, AwaitedInv
  <2>7. QED
    BY <2>2, <2>3, <2>6
<1>10. ASSUME UNCHANGED <<page, form>> PROVE FormInv'
  BY <1>10 DEF form, PageInv, MutationInv, RequestInv, AwaitedInv, RowsInv, Checked
<1>11. CASE \/ Search \/ SearchResult \/ SearchFails \/ LoadMore \/ UNCHANGED browserVars
            \/ \E p \in 1..Pages : MoreResult(p) \/ MoreFails(p)
  BY <1>10, <1>11 DEF Search, SearchResult, SearchFails, LoadMore, MoreResult, MoreFails, browserVars
<1>12. QED
  BY <1>1, <1>2, <1>3, <1>4, <1>5, <1>6, <1>7, <1>8, <1>9, <1>11 DEF BrowserNext

\* Drafts, submissions and the rows they made agree in every state.
LEMMA FormInvariant == BrowserSpec => []FormInv
BY FormInit, FormStep, PTL DEF BrowserSpec

\* A user told that an enquiry was submitted has a row at the backend, whatever
\* was lost, repeated or answered late.
THEOREM AssuredAreStored == BrowserSpec => []AssuredIsStored
<1>1. FormInv => AssuredIsStored
  BY DEF FormInv, RowsInv, AssuredIsStored
<1>2. QED
  BY <1>1, FormInvariant, PTL

\* However many attempts a submission makes, it makes one row, unless two of
\* them were at the backend at once.
THEOREM OneRowPerDraft == BrowserSpec => []OneRowUnlessCrowded
<1>1. FormInv => OneRowUnlessCrowded
  BY DEF FormInv, RowsInv, OneRowUnlessCrowded
<1>2. QED
  BY <1>1, FormInvariant, PTL

\* A reset removes nothing from the form that is not stored, unless it was
\* typed over a submission that was pending.
THEOREM WipedAreStored == BrowserSpec => WipedIsStored
<1> DEFINE Wipe == draft \in Draft /\ draft' = Empty /\ page' = page
           Excused == \/ made'[draft] > 0
                      \/ \E m \in Mutation : mutation[m].mounted /\ mutation[m].draft # draft
<1>1. FormInv /\ [BrowserNext]_browserVars => [Wipe => Excused]_browserVars
  <2> SUFFICES ASSUME FormInv, BrowserNext, Wipe PROVE Excused
    OBVIOUS
  <2>1. draft' # draft /\ Empty \notin Draft
    BY Attempts
  <2>2. PICK a \in Attempt : InsertRow(a)
    <3>1. \A d \in Draft : ~Type(d)
      BY <2>1 DEF Type
    <3>2. QED
      BY <2>1, <3>1 DEF BrowserNext, TenMinutesPass, Submit, ConnectionFails, Retry, FindDuplicate, Reject,
                        Search, SearchResult, SearchFails, LoadMore, MoreResult, MoreFails, Navigate, form
  <2> DEFINE m == request[a].for
             d == request[a].draft
  <2>3. m # "nobody" /\ mutation[m].mounted /\ made' = [made EXCEPT ![d] = @ + 1]
    BY <2>1, <2>2 DEF InsertRow, ResetIfMounted
  <2>4. m \in Mutation /\ d \in Draft /\ mutation[m].draft = d
    BY <2>3, AwaitedIsBusy DEF FormInv, AwaitedInv
  <2>5. CASE d = draft
    BY <2>3, <2>4, <2>5 DEF FormInv, RowsInv
  <2>6. CASE d # draft
    BY <2>3, <2>4, <2>6
  <2>7. QED
    BY <2>5, <2>6
<1>2. QED
  BY <1>1, FormInvariant, PTL DEF BrowserSpec, WipedIsStored

-----------------------------------------------------------------------------
(* The property list of the tab. *)

\* The entry and the pages that are awaited are pages of the catalogue.
ListTypes == /\ list \in Seq(1..Pages) /\ Len(list) <= MaxShown
             /\ cursor \in 0..Pages /\ more \in SUBSET (1..Pages)

FlagTypes == /\ hasNext \in BOOLEAN /\ searching \in BOOLEAN /\ error \in BOOLEAN
             /\ mixed \in BOOLEAN /\ outage \in BOOLEAN

\* The cursor stands at the last page exactly when there is no next one, and it
\* is lost only when nothing was loaded or the catalogue was down.
EndInv ==
  /\ hasNext => cursor > 0 /\ cursor < Pages
  /\ cursor > 0 /\ ~hasNext => cursor = Pages
  /\ cursor = 0 => list = <<>> \/ outage

\* The pages follow one another while every answer finds the list it was asked
\* for; the page that is awaited is the one after the cursor.
OrderInv ==
  ~mixed => /\ \A i \in 1..Len(list) : list[i] = i
            /\ cursor > 0 => cursor = Len(list)
            /\ more # {} => cursor > 0 /\ more = {cursor + 1}

PagesInv == ListTypes /\ FlagTypes /\ EndInv /\ OrderInv

\* There is a page to show.
LEMMA PageCounts == Pages \in Nat /\ Pages > 0 /\ MaxShown \in Nat /\ MaxShown > 0
BY BrowserConstantsOK

\* A list of the first page alone, and the list of nothing.
LEMMA FirstPage ==
  /\ <<1>> \in Seq(1..Pages) /\ Len(<<1>>) = 1 /\ \A i \in 1..Len(<<1>>) : <<1>>[i] = i
BY PageCounts

\* The empty list is no list of pages.
LEMMA NoPage ==
  /\ <<>> \in Seq(1..Pages) /\ Len(<<>>) = 0 /\ \A i \in 1..Len(<<>>) : <<>>[i] = i
BY PageCounts

\* Initially nothing is loaded.
LEMMA PagesInit == BrowserInit => PagesInv
<1> SUFFICES ASSUME BrowserInit PROVE PagesInv
  OBVIOUS
<1>1. /\ list = <<>> /\ cursor = 0 /\ hasNext = FALSE /\ searching = TRUE /\ more = {}
      /\ error = FALSE /\ mixed = FALSE /\ outage = FALSE
  BY DEF BrowserInit, NotLoaded
<1>2. ListTypes
  BY <1>1, NoPage, PageCounts DEF ListTypes
<1>3. FlagTypes
  BY <1>1 DEF FlagTypes
<1>4. EndInv
  BY <1>1 DEF EndInv
<1>5. OrderInv
  BY <1>1, NoPage DEF OrderInv
<1>6. QED
  BY <1>2, <1>3, <1>4, <1>5 DEF PagesInv

\* An answer to fetchMore is the page after the last one, if nothing overtook it.
LEMMA MoreKeeps ==
  ASSUME PagesInv, NEW p \in 1..Pages, MoreResult(p)
  PROVE  PagesInv'
<1> USE DEF PagesInv
<1>1. /\ p \in more /\ Len(list) < MaxShown /\ more' = more \ {p}
      /\ searching' = searching /\ mixed' = mixed /\ error' \in BOOLEAN
  BY DEF MoreResult, FlagTypes
<1>2. /\ list \in Seq(1..Pages) /\ Len(list) \in Nat /\ more' \in SUBSET (1..Pages)
  BY <1>1 DEF ListTypes
<1>3. ASSUME ~mixed PROVE p = cursor + 1 /\ cursor = Len(list) /\ more' = {}
                          /\ \A i \in 1..Len(list) : list[i] = i
  BY <1>1, <1>3 DEF OrderInv
<1>4. CASE list' = Append(list, p) /\ cursor' = p /\ hasNext' = HasNext(p) /\ outage' = outage
  <2>1. /\ list' \in Seq(1..Pages) /\ Len(list') = Len(list) + 1 /\ list'[Len(list) + 1] = p
        /\ \A i \in 1..Len(list) : list'[i] = list[i]
    BY <1>2, <1>4
  <2>2. ListTypes'
    BY <1>1, <1>2, <1>4, <2>1, PageCounts DEF ListTypes
  <2>3. FlagTypes'
    BY <1>1, <1>4 DEF FlagTypes, HasNext
  <2>4. EndInv'
    <3>1. cursor' > 0 /\ cursor' # 0 /\ ~(cursor' < Pages) => cursor' = Pages
      BY <1>4, PageCounts
    <3>2. cursor' # 0 /\ cursor' > 0
      BY <1>4, PageCounts
    <3>3. hasNext' <=> cursor' < Pages
      BY <1>4 DEF HasNext
    <3>4. QED
      BY <3>1, <3>2, <3>3 DEF EndInv
  <2>5. OrderInv'
    <3> SUFFICES ASSUME ~mixed PROVE /\ \A i \in 1..Len(list') : list'[i] = i
                                     /\ cursor' = Len(list') /\ more' = {}
      BY <1>1 DEF OrderInv
    <3>1. p = Len(list) + 1 /\ \A i \in 1..Len(list) : list[i] = i
      BY <1>3
    <3>2. \A i \in 1..Len(list') : i \in 1..Len(list) \/ i = Len(list) + 1
      BY <1>2, <2>1
    <3>3. QED
      BY <1>3, <1>4, <2>1, <3>1, <3>2
  <2>6. QED
    BY <2>2, <2>3, <2>4, <2>5
<1>5. CASE cursor' = 0 /\ hasNext' = FALSE /\ outage' = TRUE /\ list' = list
  <2>1. ListTypes'
    BY <1>2, <1>5, PageCounts DEF ListTypes
  <2>2. FlagTypes'
    BY <1>1, <1>5 DEF FlagTypes
  <2>3. EndInv'
    BY <1>5 DEF EndInv
  <2>4. OrderInv'
    BY <1>1, <1>3, <1>5 DEF OrderInv
  <2>5. QED
    BY <2>1, <2>2, <2>3, <2>4
<1>6. QED
  BY <1>4, <1>5 DEF MoreResult

\* The answer of a search replaces the list with its first page, or with nothing.
LEMMA SearchKeeps ==
  ASSUME PagesInv, SearchResult
  PROVE  PagesInv'
<1> USE DEF PagesInv
<1>1. /\ searching' = FALSE /\ error' = error /\ more' = more /\ mixed' = (more # {})
      /\ more \in SUBSET (1..Pages)
  BY DEF SearchResult, ListTypes
<1>2. ~mixed' => more' = {}
  BY <1>1
<1>3. CASE list' = <<1>> /\ cursor' = 1 /\ hasNext' = HasNext(1) /\ outage' = FALSE
  <2>1. ListTypes'
    BY <1>1, <1>3, FirstPage, PageCounts DEF ListTypes
  <2>2. FlagTypes'
    <3>1. HasNext(1) \in BOOLEAN /\ (more # {}) \in BOOLEAN
      BY DEF HasNext
    <3>2. hasNext' \in BOOLEAN /\ searching' \in BOOLEAN /\ error' \in BOOLEAN /\ outage' \in BOOLEAN
      BY <1>1, <1>3, <3>1 DEF FlagTypes
    <3>3. mixed' \in BOOLEAN
      BY <1>1, <3>1
    <3>4. QED
      BY <3>2, <3>3 DEF FlagTypes
  <2>3. EndInv'
    <3>1. hasNext' <=> 1 < Pages
      BY <1>3 DEF HasNext
    <3>2. 1 > 0 /\ 1 # 0 /\ (~(1 < Pages) => 1 = Pages)
      BY PageCounts
    <3>3. QED
      BY <1>3, <3>1, <3>2 DEF EndInv
  <2>4. OrderInv'
    BY <1>2, <1>3, FirstPage DEF OrderInv
  <2>5. QED
    BY <2>1, <2>2, <2>3, <2>4
<1>4. CASE list' = <<>> /\ cursor' = 0 /\ hasNext' = FALSE /\ outage' = TRUE
  <2>1. ListTypes'
    BY <1>1, <1>4, NoPage, PageCounts DEF ListTypes
  <2>2. FlagTypes'
    BY <1>1, <1>4 DEF FlagTypes
  <2>3. EndInv'
    BY <1>4 DEF EndInv
  <2>4. OrderInv'
    BY <1>2, <1>4, NoPage DEF OrderInv
  <2>5. QED
    BY <2>1, <2>2, <2>3, <2>4
<1>5. QED
  BY <1>3, <1>4 DEF SearchResult, Merged

\* Load More asks for the page after the cursor, and for it alone unless the
\* list was replaced under a fetchMore.
LEMMA LoadKeeps ==
  ASSUME PagesInv, LoadMore
  PROVE  PagesInv'
<1> USE DEF PagesInv
<1>1. /\ cursor \in 1..Pages - 1 /\ more' = more \cup {cursor + 1} /\ (more = {} \/ mixed)
      /\ UNCHANGED <<list, cursor, hasNext, searching, error, mixed, outage>>
  BY DEF LoadMore, CanLoadMore
<1>2. cursor + 1 \in 1..Pages /\ cursor > 0
  BY <1>1, PageCounts
<1>3. ListTypes'
  BY <1>1, <1>2 DEF ListTypes
<1>4. FlagTypes'
  BY <1>1 DEF FlagTypes
<1>5. EndInv'
  BY <1>1 DEF EndInv
<1>6. OrderInv'
  BY <1>1, <1>2 DEF OrderInv
<1>7. QED
  BY <1>3, <1>4, <1>5, <1>6

\* A fetchMore that fails leaves the list, and nothing is awaited but by a list
\* that was replaced under another one.
LEMMA FailKeeps ==
  ASSUME PagesInv, NEW p \in 1..Pages, MoreFails(p)
  PROVE  PagesInv'
<1> USE DEF PagesInv
<1>1. /\ p \in more /\ more' = more \ {p}
      /\ UNCHANGED <<list, cursor, hasNext, searching, error, mixed, outage>>
  BY DEF MoreFails
<1>2. ListTypes'
  BY <1>1 DEF ListTypes
<1>3. FlagTypes' /\ EndInv'
  BY <1>1 DEF FlagTypes, EndInv
<1>4. ~mixed => more' = {}
  BY <1>1 DEF OrderInv
<1>5. OrderInv'
  BY <1>1, <1>4 DEF OrderInv
<1>6. QED
  BY <1>2, <1>3, <1>5

\* No search, page or answer breaks the order, but a search that overtakes a fetchMore.
LEMMA PagesStep == PagesInv /\ [BrowserNext]_browserVars => PagesInv'
<1> SUFFICES ASSUME PagesInv, [BrowserNext]_browserVars PROVE PagesInv'
  OBVIOUS
<1>1. CASE SearchResult
  BY <1>1, SearchKeeps
<1>2. CASE LoadMore
  BY <1>2, LoadKeeps
<1>3. ASSUME NEW p \in 1..Pages, MoreResult(p) PROVE PagesInv'
  BY <1>3, MoreKeeps
<1>4. ASSUME UNCHANGED <<list, cursor, hasNext, more, mixed, outage>>,
             searching' \in {searching, TRUE, FALSE}, error' \in {error, TRUE, FALSE}
      PROVE  PagesInv'
  BY <1>4 DEF PagesInv, ListTypes, FlagTypes, EndInv, OrderInv
<1>5. CASE Search \/ SearchFails \/ (\E to \in {"form", "properties"} : Navigate(to))
  BY <1>4, <1>5 DEF Search, SearchFails, Navigate
<1>6. ASSUME NEW p \in 1..Pages, MoreFails(p) PROVE PagesInv'
  BY <1>6, FailKeeps
<1>7. CASE UNCHANGED shown
  BY <1>4, <1>7 DEF shown
<1>8. CASE \/ UNCHANGED browserVars
           \/ \E d \in Draft : Type(d) \/ TenMinutesPass(d)
           \/ \E m \in Mutation, a \in Attempt : Submit(m, a) \/ ConnectionFails(m, a) \/ Retry(m, a)
           \/ \E a \in Attempt : FindDuplicate(a) \/ InsertRow(a) \/ Reject(a)
  BY <1>7, <1>8 DEF browserVars, Type, TenMinutesPass, Submit, ConnectionFails, Retry, FindDuplicate,
                    InsertRow, Reject
<1>9. QED
  BY <1>1, <1>2, <1>3, <1>5, <1>6, <1>8 DEF BrowserNext

\* The pages, and what will be appended to them, agree in every state.
LEMMA PagesInvariant == BrowserSpec => []PagesInv
BY PagesInit, PagesStep, PTL DEF BrowserSpec

\* The list is the catalogue's pages in order and to the end, unless a search
\* overtook a fetchMore or the catalogue was down for an answer.
THEOREM PagesAreInOrder == BrowserSpec => []PagesInOrder
<1>1. PagesInv => PagesInOrder
  <2> SUFFICES ASSUME PagesInv, ~mixed PROVE PagesInOrder
    BY DEF PagesInOrder
  <2>1. DOMAIN list = 1..Len(list) /\ \A i \in 1..Len(list) : list[i] = i
    BY DEF PagesInv, ListTypes, OrderInv
  <2>2. ASSUME list # <<>>, ~hasNext, ~outage PROVE list[Len(list)] = Pages
    <3>1. cursor # 0
      BY <2>2 DEF PagesInv, EndInv
    <3>2. cursor > 0
      BY <3>1, PageCounts DEF PagesInv, ListTypes
    <3>3. cursor = Pages /\ cursor = Len(list)
      BY <2>2, <3>2 DEF PagesInv, EndInv, OrderInv
    <3>4. Len(list) \in 1..Len(list)
      BY <3>3, PageCounts
    <3>5. QED
      BY <2>1, <3>3, <3>4
  <2>3. QED
    BY <2>1, <2>2 DEF PagesInOrder
<1>2. QED
  BY <1>1, PagesInvariant, PTL

\* A set whose members are all equal has at most one.
LEMMA AtMostOne ==
  ASSUME NEW S, \A a, b \in S : a = b
  PROVE  Cardinality(S) <= 1
<1>1. CASE S = {}
  <2>1. Cardinality(S) = 0
    BY <1>1, FS_EmptySet
  <2>2. QED
    BY <2>1
<1>2. CASE S # {}
  <2>1. PICK a \in S : S = {a}
    BY <1>2
  <2>2. Cardinality({a}) = 1
    BY FS_Singleton
  <2>3. QED
    BY <2>1, <2>2
<1>3. QED
  BY <1>1, <1>2

\* Every variable of the tab has its type, no submission awaits two requests,
\* and nothing is awaited for a submission that has ended.
THEOREM BrowserTypeCorrect == BrowserSpec => []BrowserTypeOK
<1>1. FormInv /\ PagesInv => BrowserTypeOK
  <2> SUFFICES ASSUME FormInv, PagesInv PROVE BrowserTypeOK
    OBVIOUS
  <2> USE DEF FormInv
  <2>1. page \in {"form", "properties"} /\ draft \in Draft \cup {Empty}
    BY DEF PageInv
  <2>2. /\ mutation \in [Mutation -> [stage : {"idle", "waiting", "backoff"}, draft : Draft \cup {Empty},
                                      attempt : 0..MaxRetries, mounted : BOOLEAN]]
        /\ request \in [Attempt -> [stage : {"free", "sent", "checked"}, draft : Draft \cup {Empty},
                                    for : Mutation \cup {"nobody"}]]
    BY DEF MutationInv, RequestInv, MutationState, RequestState
  <2>3. made \in [Draft -> 0..Cardinality(Attempt)] /\ \A s \in {assured, crowded} : s \subseteq Draft
    <3>1. ASSUME NEW d \in Draft PROVE made[d] \in 0..Cardinality(Attempt)
      <4>1. Checked(d) \in SUBSET Attempt
        BY DEF Checked
      <4>2. Cardinality(Checked(d)) \in Nat /\ Cardinality(Attempt) \in Nat
        BY <4>1, Attempts
      <4>3. made[d] \in Nat /\ made[d] + Cardinality(Checked(d)) <= Cardinality(Attempt)
        BY DEF RowsInv
      <4>4. QED
        BY <4>2, <4>3
    <3>2. QED
      BY <3>1 DEF RowsInv
  <2>4. /\ Len(list) <= MaxShown /\ \A i \in DOMAIN list : list[i] \in 1..Pages
        /\ cursor \in 0..Pages /\ more \subseteq 1..Pages
    <3>1. list \in Seq(1..Pages) /\ Len(list) <= MaxShown /\ cursor \in 0..Pages /\ more \in SUBSET (1..Pages)
      BY DEF PagesInv, ListTypes
    <3>2. \A S : \A s \in Seq(S) : \A i \in DOMAIN s : s[i] \in S
      OBVIOUS
    <3>3. \A i \in DOMAIN list : list[i] \in 1..Pages
      BY <3>1, <3>2
    <3>4. QED
      BY <3>1, <3>3
  <2>5. {hasNext, searching, error, mixed, outage} \subseteq BOOLEAN
    BY DEF PagesInv, FlagTypes
  <2>6. ASSUME NEW m \in Mutation PROVE Cardinality({a \in Attempt : request[a].for = m}) <= 1
    <3>1. \A a, b \in {c \in Attempt : request[c].for = m} : a = b
      BY <2>6, Attempts DEF AwaitedInv
    <3>2. QED
      BY <3>1, AtMostOne
  <2>7. \A a \in Attempt : request[a].for # "nobody" => mutation[request[a].for].stage = "waiting"
    BY DEF AwaitedInv
  <2>8. QED
    BY <2>1, <2>2, <2>3, <2>4, <2>5, <2>6, <2>7 DEF BrowserTypeOK
<1>2. QED
  BY <1>1, FormInvariant, PagesInvariant, PTL
=============================================================================
