----------------------------- MODULE ListProofs -----------------------------
(***************************************************************************)
(* What a walk through a list promises (ListPaging), for any rows, any page *)
(* size and any number of writes between the pages; and what the catalogue *)
(* behind the property list promises (PropertyCatalogue), for any expiry   *)
(* and any number of requests, failures and probes.                        *)
(***************************************************************************)
EXTENDS ListPaging, PropertyCatalogue, FiniteSetTheorems, TLAPS

-----------------------------------------------------------------------------
(* The order of a list, and its first rows. *)

\* The types of what the order depends on.
Rows == query \in Query /\ row \in [Id -> Row]

\* The order of a list is a strict total order of its rows.
LEMMA BeforeIsTotal ==
  ASSUME Rows, NEW i \in Id, NEW j \in Id, NEW k \in Id
  PROVE  /\ ~Before(i, i)
         /\ Before(i, j) /\ Before(j, k) => Before(i, k)
         /\ i # j => Before(i, j) \/ Before(j, i)
<1>1. \A l \in Id : /\ l \in Nat /\ row[l].kind \in {"enquiry", "audit"}
                    /\ SortKey(l) \in Nat
  BY ConstantsOK DEF Rows, Row, Kind, Time, SortKey
<1>2. QED
  BY <1>1 DEF Before, Less

\* The rows before a row of a finite set are fewer than the set.
LEMMA RankBound ==
  ASSUME Rows, NEW S \in SUBSET Id, NEW i \in S
  PROVE  Rank(i, S) \in Nat /\ Rank(i, S) < Cardinality(S)
<1> DEFINE B == {j \in S : Before(j, i)}
<1>1. IsFiniteSet(S) /\ B \in SUBSET S /\ i \notin B
  BY FS_Subset, ConstantsOK, BeforeIsTotal
<1>2. /\ IsFiniteSet(B) /\ Cardinality(B) <= Cardinality(S)
      /\ Cardinality(B) = Cardinality(S) => B = S
  BY <1>1, FS_Subset
<1>3. Cardinality(B) \in Nat /\ Cardinality(S) \in Nat
  BY <1>1, <1>2, FS_CardinalityType
<1>4. Rank(i, S) = Cardinality(B)
  BY DEF Rank
<1> HIDE DEF B
<1>5. QED
  BY <1>1, <1>2, <1>3, <1>4

\* A row before another has the lower rank.
LEMMA RankOrder ==
  ASSUME Rows, NEW S \in SUBSET Id, NEW i \in S, NEW j \in S, Before(i, j)
  PROVE  Rank(i, S) < Rank(j, S)
<1> DEFINE B(k) == {l \in S : Before(l, k)}
<1>1. IsFiniteSet(S)
  BY FS_Subset, ConstantsOK
<1>2. B(i) \subseteq B(j) /\ i \in B(j) /\ i \notin B(i)
  BY BeforeIsTotal
<1>3. IsFiniteSet(B(j)) /\ IsFiniteSet(B(i)) /\ Cardinality(B(i)) \in Nat /\ Cardinality(B(j)) \in Nat
  BY <1>1, FS_Subset, FS_CardinalityType
<1>4. Cardinality(B(i)) <= Cardinality(B(j)) /\ (Cardinality(B(i)) = Cardinality(B(j)) => B(i) = B(j))
  BY <1>2, <1>3, FS_Subset
<1>5. Rank(i, S) = Cardinality(B(i)) /\ Rank(j, S) = Cardinality(B(j))
  BY DEF Rank
<1> HIDE DEF B
<1>6. QED
  BY <1>2, <1>3, <1>4, <1>5

\* Every nonempty set of rows has a first one.
LEMMA FirstExists ==
  ASSUME Rows, NEW S \in SUBSET Id, S # {}
  PROVE  \E i \in S : \A j \in S : ~Before(j, i)
<1> DEFINE B(k) == {l \in S : Before(l, k)}
           T == {B(k) : k \in S}
<1>1. IsFiniteSet(S)
  BY FS_Subset, ConstantsOK
<1>2. T \subseteq FiniteSubsetsOf(S) /\ T # {}
  <2>1. \A k \in S : B(k) \in SUBSET S
    OBVIOUS
  <2> HIDE DEF B
  <2>2. QED
    BY <1>1, <2>1, FS_FiniteSubsetsOfFinite
<1>3. \E x \in T : \A y \in T : ~(<<y, x>> \in StrictSubsetOrdering(S))
  <2> HIDE DEF T
  <2>1. QED
    BY <1>2, FS_StrictSubsetOrderingWellFounded, WFMin
<1>4. PICK i \in S : \A y \in T : ~(<<y, B(i)>> \in StrictSubsetOrdering(S))
  BY <1>3
<1>5. ASSUME NEW j \in S, Before(j, i) PROVE FALSE
  <2>1. B(j) \subseteq B(i) /\ j \in B(i) /\ j \notin B(j)
    BY <1>5, BeforeIsTotal
  <2>2. <<B(j), B(i)>> \in StrictSubsetOrdering(S)
    BY <2>1 DEF StrictSubsetOrdering
  <2>3. QED
    BY <1>4, <2>2
<1>6. QED
  BY <1>5

\* If the first n rows of a set are fewer than n, they are all of it.
LEMMA FirstIsAll ==
  ASSUME Rows, NEW S \in SUBSET Id, NEW n \in Nat
  PROVE  /\ First(n, S) \in SUBSET S
         /\ Cardinality(S) <= n => First(n, S) = S
         /\ Cardinality(First(n, S)) < n => First(n, S) = S
         /\ IsFiniteSet(S) /\ Cardinality(S) \in Nat
<1>1. IsFiniteSet(S) /\ Cardinality(S) \in Nat
  BY FS_Subset, FS_CardinalityType, ConstantsOK
<1>2. Cardinality(S) <= n => First(n, S) = S
  BY <1>1, RankBound DEF First
<1>3. ASSUME Cardinality(First(n, S)) < n, First(n, S) # S PROVE FALSE
  <2> DEFINE F == First(n, S)
  <2>1. S \ F \in SUBSET Id /\ S \ F # {}
    BY <1>3 DEF First
  <2>2. PICK i \in S \ F : \A j \in S \ F : ~Before(j, i)
    BY <2>1, FirstExists
  <2>3. {j \in S : Before(j, i)} \in SUBSET F
    BY <2>2
  <2>4. F \in SUBSET S /\ IsFiniteSet(F) /\ Cardinality(F) \in Nat
    BY <1>1, FS_Subset, FS_CardinalityType DEF First
  <2>5. Rank(i, S) <= Cardinality(F)
    BY <2>3, <2>4, FS_Subset DEF Rank
  <2>6. Rank(i, S) \in Nat /\ ~(Rank(i, S) < n)
    BY <2>2, RankBound DEF First
  <2> HIDE DEF F
  <2>7. QED
    BY <1>3, <2>4, <2>5, <2>6 DEF F
<1>4. QED
  BY <1>1, <1>2, <1>3 DEF First

\* The first m of the first n rows are the first m rows.
LEMMA FirstOfFirst ==
  ASSUME Rows, NEW S \in SUBSET Id, NEW n \in Nat, NEW m \in Nat, m <= n
  PROVE  First(m, First(n, S)) = First(m, S)
<1>1. ASSUME NEW i \in First(n, S) PROVE Rank(i, First(n, S)) = Rank(i, S)
  <2>1. \A j \in S : Before(j, i) => j \in First(n, S)
    <3> SUFFICES ASSUME NEW j \in S, Before(j, i) PROVE j \in First(n, S)
      OBVIOUS
    <3>1. Rank(j, S) < Rank(i, S) /\ Rank(i, S) < n /\ Rank(i, S) \in Nat /\ Rank(j, S) \in Nat
      BY RankOrder, RankBound DEF First
    <3>2. QED
      BY <3>1 DEF First
  <2>2. {j \in S : Before(j, i)} = {j \in First(n, S) : Before(j, i)}
    BY <2>1 DEF First
  <2>3. QED
    BY <2>2 DEF Rank
<1>2. \A i \in S : Rank(i, S) \in Nat
  BY RankBound
<1>3. First(m, S) \subseteq First(n, S)
  BY <1>2 DEF First
<1>4. QED
  BY <1>1, <1>3 DEF First

\* The first rows of a set are an initial part of it.
LEMMA FirstIsInitial ==
  ASSUME Rows, NEW S \in SUBSET Id, NEW n \in Nat, NEW l \in First(n, S), NEW i \in S,
         i = l \/ Before(i, l)
  PROVE  i \in First(n, S)
<1>1. Rank(l, S) < n /\ l \in S
  BY DEF First
<1>2. Rank(l, S) \in Nat /\ Rank(i, S) \in Nat
  BY <1>1, RankBound
<1>3. CASE Before(i, l)
  BY <1>1, <1>2, <1>3, RankOrder DEF First
<1>4. QED
  BY <1>3

-----------------------------------------------------------------------------
(* Types. *)

\* A list of one entity holds rows of one kind.
OneKind == query.list # "export" => \A i \in Id : row[i].kind = "enquiry"

\* A cursor that a page of the list has returned.
KeyCursor(c) ==
  \/ c = None
  \/ /\ c \in [kind : Kind, created : Time, id : Id]
     /\ query.list # "export" => c.kind = "enquiry"
     /\ query.entity \in {c.kind, "all"}

IndexCursor(c) == c = None \/ c \in [index : Nat]

GoodCursor(c) == IF query.list = "jobs" THEN IndexCursor(c) ELSE KeyCursor(c)

\* What is shown was listed; the history begins with the first page.
History ==
  /\ steady \subseteq Listed
  /\ \A i \in seen : /\ status[i] # "new"
                     /\ status[i] = "deleted" \/ query.entity \in {row[i].kind, "all"}
  /\ walking = "new" => seen = {} /\ steady = {} /\ twice = {} /\ used = None /\ previous = None
  /\ walking = "new" => next = None
  /\ twice \subseteq seen

TypeInv ==
  /\ TypeOK /\ OneKind /\ History
  /\ GoodCursor(next) /\ GoodCursor(previous) /\ GoodCursor(used)

\* A cursor names a position or a row, or is none.
LEMMA CursorKinds ==
  /\ \A n \in Nat : Index(n) \in [index : Nat] /\ Index(n) # None /\ Start(Index(n)) = n
  /\ Start(None) = 0
  /\ \A c : IndexCursor(c) => Start(c) \in Nat
  /\ \A c \in [kind : Kind, created : Time, id : Id] : c # None
<1>1. DOMAIN None = {"none"}
  BY DEF None
<1>2. \A n \in Nat : /\ Index(n) \in [index : Nat] /\ Index(n).index = n
                    /\ DOMAIN Index(n) = {"index"}
  BY DEF Index
<1>3. ASSUME NEW n \in Nat, Index(n) = None PROVE FALSE
  <2>1. DOMAIN Index(n) = {"index"}
    BY <1>2
  <2>2. QED
    BY <1>1, <1>3, <2>1
<1>4. ASSUME NEW c \in [kind : Kind, created : Time, id : Id], c = None PROVE FALSE
  <2>1. "kind" \in DOMAIN c
    OBVIOUS
  <2>2. QED
    BY <1>1, <1>4, <2>1
<1>5. \A c \in [index : Nat] : c.index \in Nat
  OBVIOUS
<1>6. QED
  BY <1>2, <1>3, <1>4, <1>5 DEF Start, IndexCursor

\* Every page holds listed rows; its cursors are those of the list.
LEMMA PageType ==
  ASSUME TypeInv, NEW c, GoodCursor(c)
  PROVE  /\ Page(c).rows \subseteq Listed
         /\ Page(c).more \in BOOLEAN
         /\ \A d \in NextCursor(c, Page(c)) \cup PreviousCursor(c, Page(c)) : GoodCursor(d)
         /\ c = None => PreviousCursor(c, Page(c)) = {None}
<1>0. \A n, S : First(n, S) \subseteq S
  BY DEF First
<1>1. Page(c).rows \subseteq Listed /\ Page(c).more \in BOOLEAN
  <2>1. KeysetPage(c).rows \subseteq Listed /\ KeysetPage(c).more \in BOOLEAN
    <3> DEFINE left == {i \in Listed : After(i, c)}
    <3>1. First(Limit, left) \subseteq Listed
      BY <1>0
    <3>2. QED
      BY <3>1 DEF KeysetPage
  <2>2. IndexPage(c).rows \subseteq Listed /\ IndexPage(c).more \in BOOLEAN
    BY DEF IndexPage
  <2>3. ExportPage(c).rows \subseteq Listed /\ ExportPage(c).more \in BOOLEAN
    <3>1. Records("enquiry", c) \subseteq Listed /\ Records("audit", c) \subseteq Listed
      BY DEF Records
    <3>2. Enquiries(c) \subseteq Listed /\ \A n : First(n, Records("audit", c)) \subseteq Listed
      BY <1>0, <3>1 DEF Enquiries
    <3>3. QED
      BY <1>0, <3>2 DEF ExportPage
  <2>4. query.list \in {"enquiries", "audits", "events", "jobs", "export"}
    BY DEF TypeInv, TypeOK, Query
  <2>5. QED
    BY <2>1, <2>2, <2>3, <2>4 DEF Page, FindEnquiries, FindAuditLogs, FindEvents
<1> DEFINE p == Page(c)
<1> HIDE DEF p
<1>2. ASSUME NEW i \in p.rows, query.list # "jobs" PROVE GoodCursor(CursorOf(i))
  <2>1. i \in Id /\ row[i] \in Row /\ query.entity \in {row[i].kind, "all"}
    BY <1>1, <1>2 DEF p, Listed, TypeInv, TypeOK
  <2>2. QED
    BY <1>2, <2>1 DEF GoodCursor, KeyCursor, CursorOf, Row, TypeInv, OneKind
<1>3. query.list = "jobs" => /\ Start(c) \in Nat
                             /\ c # None => c.index \in Nat
  BY CursorKinds DEF GoodCursor, IndexCursor
<1>4. GoodCursor(None)
  BY CursorKinds DEF GoodCursor, KeyCursor, IndexCursor
<1>5. query.list = "jobs" => /\ GoodCursor(Index(Start(c) + Limit))
                             /\ c # None => GoodCursor(Index(IF c.index < Limit THEN 0 ELSE c.index - Limit))
  BY <1>3, CursorKinds, ConstantsOK DEF GoodCursor, IndexCursor
<1>6. \A d \in NextCursor(c, p) : GoodCursor(d)
  BY <1>2, <1>4, <1>5 DEF NextCursor
<1>7. /\ \A d \in PreviousCursor(c, p) : GoodCursor(d)
      /\ c = None => PreviousCursor(c, p) = {None}
  <2>1. CASE c = None \/ (p.rows = {} /\ query.list # "jobs")
    <3>1. PreviousCursor(c, p) = {None}
      BY <2>1 DEF PreviousCursor
    <3>2. QED
      BY <1>4, <3>1
  <2>2. CASE ~(c = None \/ p.rows = {}) /\ query.list # "jobs"
    BY <1>2, <2>2 DEF PreviousCursor
  <2>3. CASE c # None /\ query.list = "jobs"
    BY <1>4, <1>5, <2>3 DEF PreviousCursor
  <2>4. QED
    BY <2>1, <2>2, <2>3
<1>8. QED
  BY <1>1, <1>6, <1>7 DEF p

\* Initially nothing was shown.
LEMMA TypeInit == Init => TypeInv
<1> SUFFICES ASSUME Init PROVE TypeInv
  OBVIOUS
<1>1. NoRow \in Row /\ 0 \in Time
  BY ConstantsOK DEF NoRow, Row, Kind, Time
<1>2. \A d : d = None => GoodCursor(d) /\ d \in Cursor
  BY CursorKinds DEF GoodCursor, KeyCursor, IndexCursor, Cursor
<1>3. TypeOK
  BY <1>1, <1>2 DEF Init, TypeOK
<1>4. QED
  BY <1>2, <1>3 DEF Init, TypeInv, OneKind, History, NoRow

\* What every page leaves in its types.
LEMMA ShowType ==
  ASSUME TypeInv, NEW c, GoodCursor(c), Show(c), UNCHANGED <<query, table>>
  PROVE  /\ page' \in SUBSET Listed /\ seen' = seen \cup page' /\ used' = c
         /\ walking' \in {"reading", "ended"}
         /\ GoodCursor(next)' /\ GoodCursor(previous)' /\ GoodCursor(used)'
         /\ next' \in Cursor /\ previous' \in Cursor /\ used' \in Cursor
         /\ used' = None => previous' = None
         /\ \A i \in seen' : /\ status[i] # "new"
                             /\ status[i] = "deleted" \/ query.entity \in {row[i].kind, "all"}
<1>1. /\ page' = Page(c).rows /\ seen' = seen \cup Page(c).rows /\ used' = c
      /\ next' \in NextCursor(c, Page(c)) /\ previous' \in PreviousCursor(c, Page(c))
      /\ walking' = IF Page(c).more THEN "reading" ELSE "ended"
  BY DEF Show
<1>2. GoodCursor(next') /\ GoodCursor(previous') /\ (used' = None => previous' = None)
  BY <1>1, PageType
<1>3. \A d : GoodCursor(d) => d \in Cursor
  BY CursorKinds DEF GoodCursor, KeyCursor, IndexCursor, Cursor
<1>4. GoodCursor(next)' /\ GoodCursor(previous)' /\ GoodCursor(used)'
  BY <1>1, <1>2 DEF GoodCursor, KeyCursor, IndexCursor
<1>5. page' \subseteq Listed
  BY <1>1, PageType
<1>6. QED
  BY <1>1, <1>2, <1>3, <1>4, <1>5 DEF Listed, TypeInv, History

\* No step leaves the types.
LEMMA TypeStep == TypeInv /\ [Next]_vars => TypeInv'
<1> SUFFICES ASSUME TypeInv, [Next]_vars PROVE TypeInv'
  OBVIOUS
<1>0. TypeOK
  BY DEF TypeInv
<1>1. ASSUME NEW c, GoodCursor(c), Show(c), UNCHANGED <<query, table, added, removed>>,
             straight' \in BOOLEAN, steady' \subseteq Listed, twice' \subseteq seen'
      PROVE  TypeInv'
  <2>1. /\ page' \in SUBSET Listed /\ seen' = seen \cup page'
        /\ walking' \in {"reading", "ended"}
        /\ GoodCursor(next)' /\ GoodCursor(previous)' /\ GoodCursor(used)'
        /\ next' \in Cursor /\ previous' \in Cursor /\ used' \in Cursor
        /\ used' = None => previous' = None
        /\ \A i \in seen' : /\ status[i] # "new"
                            /\ status[i] = "deleted" \/ query.entity \in {row[i].kind, "all"}
    BY <1>1, ShowType
  <2>2. Listed \subseteq Id /\ UNCHANGED <<query, status, row, clock>> /\ Listed' = Listed
    BY <1>1 DEF Listed, table
  <2>3. TypeOK'
    BY <1>0, <1>1, <2>1, <2>2 DEF TypeOK
  <2>4. History' /\ OneKind'
    BY <1>1, <2>1, <2>2 DEF History, OneKind, TypeInv
  <2>5. QED
    BY <2>1, <2>3, <2>4 DEF TypeInv
<1>2. CASE FirstPage
  <2>1. GoodCursor(None)
    BY CursorKinds DEF GoodCursor, KeyCursor, IndexCursor
  <2>2. seen = {} /\ twice = {} /\ straight \in BOOLEAN
    BY <1>0, <1>2 DEF FirstPage, TypeInv, History, TypeOK
  <2>3. QED
    BY <1>1, <1>2, <2>1, <2>2 DEF FirstPage
<1>3. CASE NextPage
  <2>1. seen' = seen \cup page'
    BY <1>3, ShowType DEF NextPage, TypeInv
  <2>2. QED
    BY <1>0, <1>1, <1>3, <2>1 DEF NextPage, TypeInv, History, TypeOK
<1>4. CASE PreviousPage \/ Refetch
  <2>1. PICK c \in {previous, used} : Show(c)
    BY <1>4 DEF PreviousPage, Refetch
  <2>2. GoodCursor(c) /\ UNCHANGED <<query, table, twice, steady, added, removed>> /\ straight' = FALSE
    BY <1>4, <2>1 DEF PreviousPage, Refetch, TypeInv
  <2>3. seen' = seen \cup page'
    BY <2>1, <2>2, ShowType
  <2>4. QED
    BY <1>1, <2>1, <2>2, <2>3 DEF TypeInv, History
<1>5. ASSUME query' = query, view' = view, seen' = seen, twice' = twice, TypeOK', OneKind', steady' \subseteq Listed',
             \A i \in seen : /\ status'[i] # "new"
                             /\ status'[i] = "deleted" \/ query.entity \in {row'[i].kind, "all"},
             walking = "new" => steady' = {}
      PROVE  TypeInv'
  <2>1. History'
    BY <1>5 DEF TypeInv, History, view
  <2>2. GoodCursor(next)' /\ GoodCursor(previous)' /\ GoodCursor(used)'
    BY <1>5 DEF TypeInv, GoodCursor, KeyCursor, IndexCursor, view
  <2>3. QED
    BY <1>5, <2>1, <2>2 DEF TypeInv
<1>6. ASSUME NEW i \in Id, Insert(i) PROVE TypeInv'
  <2>1. /\ row' \in [Id -> Row] /\ status' \in [Id -> {"new", "listed", "hidden", "deleted"}]
        /\ query.list # "export" => row'[i].kind = "enquiry"
        /\ status'[i] \in {"listed", "hidden"}
        /\ \A j \in Id \ {i} : row'[j] = row[j] /\ status'[j] = status[j]
    BY <1>0, <1>6 DEF Insert, TypeOK, Row, Kind
  <2>2. /\ UNCHANGED <<query, clock, view, seen, twice, straight, steady, removed>>
        /\ added' \in Nat /\ status[i] = "new"
    BY <1>0, <1>6 DEF Insert, TypeOK
  <2>3. TypeOK'
    BY <1>0, <2>1, <2>2 DEF TypeOK, view
  <2>4. OneKind'
    BY <2>1, <2>2 DEF OneKind, TypeInv
  <2>5. /\ i \notin seen /\ i \notin steady /\ steady \subseteq Id /\ seen \subseteq Id
        /\ steady \subseteq Listed /\ (walking = "new" => steady = {})
    BY <1>0, <2>2 DEF TypeInv, History, Listed, TypeOK
  <2>6. steady \subseteq Listed'
    BY <2>1, <2>2, <2>5 DEF TypeInv, History, Listed
  <2>7. \A j \in seen : /\ status'[j] # "new"
                        /\ status'[j] = "deleted" \/ query.entity \in {row'[j].kind, "all"}
    BY <2>1, <2>5 DEF TypeInv, History
  <2>8. QED
    BY <1>5, <2>2, <2>3, <2>4, <2>5, <2>6, <2>7
<1>7. ASSUME NEW i \in Id, Touch(i) PROVE TypeInv'
  <2>1. PICK s \in {"listed", "hidden"}, o \in Time :
          /\ status' = [status EXCEPT ![i] = s] /\ row' = [row EXCEPT ![i].other = o]
          /\ steady' = IF s = "hidden" THEN steady \ {i} ELSE steady
    BY <1>7 DEF Touch
  <2>2. row' = [row EXCEPT ![i] = [row[i] EXCEPT !.other = o]]
    BY <2>1
  <2>3. LET r == [row[i] EXCEPT !.other = o] IN r \in Row /\ r.kind = row[i].kind
    BY <1>0 DEF TypeOK, Row
  <2>4. /\ row' \in [Id -> Row] /\ status' \in [Id -> {"new", "listed", "hidden", "deleted"}]
        /\ \A j \in Id : row'[j].kind = row[j].kind
        /\ status'[i] = s /\ \A j \in Id \ {i} : status'[j] = status[j]
    BY <1>0, <2>1, <2>2, <2>3 DEF TypeOK
  <2>5. /\ UNCHANGED <<query, clock, view, seen, twice, straight, added, removed>>
        /\ status[i] \in {"listed", "hidden"}
    BY <1>7 DEF Touch
  <2>6. TypeOK'
    BY <1>0, <2>1, <2>4, <2>5 DEF TypeOK, view
  <2>7. OneKind'
    BY <2>4, <2>5 DEF OneKind, TypeInv
  <2>8. steady' \subseteq Listed'
    BY <2>1, <2>4, <2>5 DEF TypeInv, History, Listed
  <2>9. seen \subseteq Id /\ (walking = "new" => steady' = {})
    BY <1>0, <2>1 DEF TypeInv, History, TypeOK
  <2>10. \A j \in seen : /\ status'[j] # "new"
                         /\ status'[j] = "deleted" \/ query.entity \in {row'[j].kind, "all"}
    BY <2>1, <2>4, <2>5, <2>9 DEF TypeInv, History
  <2>11. QED
    BY <1>5, <2>5, <2>6, <2>7, <2>8, <2>9, <2>10
<1>8. ASSUME NEW i \in Id, Delete(i) PROVE TypeInv'
  <2>1. NoRow \in Row /\ NoRow.kind = "enquiry"
    BY ConstantsOK DEF NoRow, Row, Kind, Time
  <2>2. /\ row' \in [Id -> Row] /\ status' \in [Id -> {"new", "listed", "hidden", "deleted"}]
        /\ row'[i] = NoRow /\ status'[i] = "deleted"
        /\ \A j \in Id \ {i} : row'[j] = row[j] /\ status'[j] = status[j]
    BY <1>0, <1>8, <2>1 DEF Delete, TypeOK
  <2>3. /\ UNCHANGED <<query, clock, view, seen, twice, straight, added>>
        /\ removed' \in Nat /\ steady' = steady \ {i} /\ query.list # "export"
    BY <1>0, <1>8 DEF Delete, TypeOK
  <2>4. TypeOK'
    BY <1>0, <2>2, <2>3 DEF TypeOK, view
  <2>5. OneKind'
    BY <2>1, <2>2, <2>3 DEF OneKind, TypeInv
  <2>6. steady' \subseteq Listed'
    BY <2>2, <2>3 DEF TypeInv, History, Listed
  <2>7. seen \subseteq Id /\ (walking = "new" => steady' = {})
    BY <1>0, <2>3 DEF TypeInv, History, TypeOK
  <2>8. \A j \in seen : /\ status'[j] # "new"
                        /\ status'[j] = "deleted" \/ query.entity \in {row'[j].kind, "all"}
    BY <2>2, <2>7 DEF TypeInv, History
  <2>9. QED
    BY <1>5, <2>3, <2>4, <2>5, <2>6, <2>7, <2>8
<1>9. CASE Tick \/ UNCHANGED vars
  <2>1. UNCHANGED <<query, status, row, view, history>> /\ clock' \in Time
    BY <1>0, <1>9, ConstantsOK DEF Tick, vars, table, TypeOK, Time
  <2>2. UNCHANGED <<seen, twice, straight, steady, added, removed>> /\ Listed' = Listed
    BY <2>1 DEF history, Listed
  <2>3. TypeOK' /\ OneKind'
    BY <1>0, <2>1, <2>2 DEF view, TypeOK, TypeInv, OneKind
  <2>4. \A j \in seen : /\ status'[j] # "new"
                        /\ status'[j] = "deleted" \/ query.entity \in {row'[j].kind, "all"}
    BY <2>1 DEF TypeInv, History
  <2>5. steady' \subseteq Listed' /\ (walking = "new" => steady' = {})
    BY <2>2 DEF TypeInv, History
  <2>6. QED
    BY <1>5, <2>1, <2>2, <2>3, <2>4, <2>5
<1>10. CASE Erase
  <2>1. PICK S \in SUBSET {i \in Id : status[i] \in {"listed", "hidden"}}, s \in {"listed", "hidden"} :
          /\ status' = [i \in Id |-> IF i \in S THEN s ELSE status[i]]
          /\ steady' = IF s = "hidden" THEN steady \ S ELSE steady
    BY <1>10 DEF Erase
  <2>2. UNCHANGED <<query, row, clock, view, seen, twice, straight, added, removed>>
    BY <1>10 DEF Erase
  <2>3. status' \in [Id -> {"new", "listed", "hidden", "deleted"}]
    BY <1>0, <2>1 DEF TypeOK
  <2>4. TypeOK'
    BY <1>0, <2>1, <2>2, <2>3 DEF TypeOK, view
  <2>5. OneKind'
    BY <2>2 DEF OneKind, TypeInv
  <2>6. steady' \subseteq Listed'
    BY <2>1, <2>2 DEF TypeInv, History, Listed
  <2>7. seen \subseteq Id /\ (walking = "new" => steady' = {})
    BY <1>0, <2>1 DEF TypeInv, History, TypeOK
  <2>8. \A j \in seen : /\ status'[j] # "new"
                        /\ status'[j] = "deleted" \/ query.entity \in {row'[j].kind, "all"}
    BY <2>1, <2>2, <2>7 DEF TypeInv, History
  <2>9. QED
    BY <1>5, <2>2, <2>4, <2>5, <2>6, <2>7, <2>8
<1>11. QED
  BY <1>2, <1>3, <1>4, <1>6, <1>7, <1>8, <1>9, <1>10 DEF Next

\* The types are an invariant.
LEMMA TypeInvariant == Spec => []TypeInv
BY TypeInit, TypeStep, PTL DEF Spec

\* Type correctness of the walk; a page asked for without a cursor has no
\* previous one.
THEOREM TypeCorrect == Spec => []TypeOK
BY TypeInvariant, PTL DEF TypeInv

-----------------------------------------------------------------------------
(* The pages of a list with cursors. *)

\* An export whose enquiries alone do not fill a page.
FewEnquiries ==
  query.list = "export" /\ Cardinality({i \in Listed : row[i].kind = "enquiry"}) < Limit

Walkable == Keyset \/ FewEnquiries

\* The rows a request with cursor c has not passed yet: its records of the
\* other kind, if there are any, are not compared with it.
Left(c) == {i \in Listed : c = None \/ c.kind # row[i].kind \/ After(i, c)}

\* The row is at the cursor or before it.
UpTo(i, c) ==
  /\ c # None
  /\ IF c.kind = row[i].kind THEN ~After(i, c) ELSE c.kind = "audit"

\* What sort of list a walkable one is.
LEMMA WalkableQuery ==
  ASSUME TypeInv, Walkable
  PROVE  /\ query.list \in {"enquiries", "audits", "events", "export"} /\ query.list # "jobs"
         /\ query.sortBy = "created"
         /\ query.list = "export" => query.desc
         /\ query.entity \in Kind \cup {"all"}
         /\ query.list # "export" => query.entity = "all"
         /\ query.list = "export" /\ query.entity = "all" => FewEnquiries
         /\ Rows
BY DEF Walkable, FewEnquiries, Keyset, TypeInv, TypeOK, Query, Rows

\* A row is at or before the cursor of another if it is that row or comes before it.
LEMMA CursorPlace ==
  ASSUME TypeInv, Walkable, NEW i \in Id, NEW l \in Id
  PROVE  UpTo(i, CursorOf(l)) <=> i = l \/ Before(i, l)
<1>1. /\ row[i].created \in Nat /\ row[l].created \in Nat /\ i \in Nat /\ l \in Nat
      /\ row[i].kind \in Kind /\ row[l].kind \in Kind
  BY ConstantsOK DEF TypeInv, TypeOK, Row, Time
<1>2. /\ SortKey(i) = row[i].created /\ SortKey(l) = row[l].created
      /\ query.list # "jobs" /\ query.desc \in BOOLEAN
  BY WalkableQuery DEF SortKey, Rows, Query
<1>3. CursorOf(l) \in [kind : Kind, created : Time, id : Id]
  BY <1>1 DEF CursorOf, TypeInv, TypeOK, Row
<1>4. CursorOf(l) # None
  BY <1>3, CursorKinds
<1>5. /\ CursorOf(l).kind = row[l].kind /\ CursorOf(l).created = row[l].created
      /\ CursorOf(l).id = l
  BY DEF CursorOf
<1>6. CASE row[i].kind # row[l].kind
  BY <1>1, <1>4, <1>5, <1>6 DEF UpTo, Before, Kind
<1>7. CASE row[i].kind = row[l].kind
  BY <1>1, <1>2, <1>4, <1>5, <1>7 DEF UpTo, After, Before, Less
<1>8. QED
  BY <1>6, <1>7

\* A listed row that is not left is at the cursor or before it.
LEMMA LeftOrUpTo ==
  ASSUME NEW c, NEW i \in Listed
  PROVE  i \in Left(c) \/ UpTo(i, c)
BY DEF Left, UpTo

\* Limit rows of the first Limit + 1 are a page, and the last tells of more.
LEMMA PageOfFirst ==
  ASSUME Rows, NEW S \in SUBSET Id
  PROVE  /\ First(Limit, First(Limit + 1, S)) = First(Limit, S)
         /\ Cardinality(First(Limit + 1, S)) > Limit <=> Cardinality(S) > Limit
<1>1. Limit \in Nat /\ Limit + 1 \in Nat /\ Limit <= Limit + 1
  BY ConstantsOK
<1>2. First(Limit, First(Limit + 1, S)) = First(Limit, S)
  BY <1>1, FirstOfFirst
<1> DEFINE F == First(Limit + 1, S)
<1>3. /\ F \in SUBSET S /\ IsFiniteSet(S) /\ Cardinality(S) \in Nat
      /\ Cardinality(S) <= Limit + 1 => F = S
      /\ Cardinality(F) < Limit + 1 => F = S
  BY <1>1, FirstIsAll
<1>4. Cardinality(F) <= Cardinality(S) /\ Cardinality(F) \in Nat
  BY <1>3, FS_Subset, FS_CardinalityType
<1> HIDE DEF F
<1>5. Cardinality(F) > Limit <=> Cardinality(S) > Limit
  BY <1>1, <1>3, <1>4
<1>6. QED
  BY <1>2, <1>5 DEF F

\* The first rows of two sets, one all before the other.
LEMMA FirstOfTwo ==
  ASSUME Rows, NEW S \in SUBSET Id, NEW T \in SUBSET Id, NEW n \in Nat,
         \A i \in S, j \in T : Before(i, j), Cardinality(S) <= n
  PROVE  First(n, S \cup T) = S \cup First(n - Cardinality(S), T)
<1>1. /\ IsFiniteSet(S) /\ IsFiniteSet(T) /\ Cardinality(S) \in Nat
      /\ S \subseteq Id /\ T \subseteq Id
  BY FS_Subset, FS_CardinalityType, ConstantsOK
<1>2. \A i \in S, j \in T : ~Before(j, i) /\ i # j
  BY <1>1, BeforeIsTotal
<1>3. ASSUME NEW i \in S PROVE i \in First(n, S \cup T)
  <2>1. {j \in S \cup T : Before(j, i)} = {j \in S : Before(j, i)}
    BY <1>2
  <2>2. Rank(i, S \cup T) = Rank(i, S)
    BY <2>1 DEF Rank
  <2>3. Rank(i, S) \in Nat /\ Rank(i, S) < Cardinality(S)
    BY RankBound
  <2>4. QED
    BY <1>1, <2>2, <2>3 DEF First
<1>4. ASSUME NEW j \in T
      PROVE  j \in First(n, S \cup T) <=> j \in First(n - Cardinality(S), T)
  <2> DEFINE B == {k \in T : Before(k, j)}
  <2>1. {k \in S \cup T : Before(k, j)} = S \cup B /\ S \cap B = {}
    BY <1>2
  <2>2. IsFiniteSet(B) /\ Cardinality(B) \in Nat /\ IsFiniteSet(S \cap B) /\ Cardinality(S \cap B) = 0
    BY <1>1, <2>1, FS_Subset, FS_CardinalityType, FS_EmptySet
  <2>3. Cardinality(S \cup B) = Cardinality(S) + Cardinality(B)
    <3> HIDE DEF B
    <3>1. Cardinality(S \cup B) = Cardinality(S) + Cardinality(B) - Cardinality(S \cap B)
      BY <1>1, <2>2, FS_Union
    <3>2. QED
      BY <1>1, <2>2, <3>1
  <2>4. Rank(j, S \cup T) = Cardinality(S) + Rank(j, T) /\ Rank(j, T) = Cardinality(B)
    BY <2>1, <2>3 DEF Rank
  <2>5. Rank(j, S \cup T) < n <=> Rank(j, T) < n - Cardinality(S)
    <3> HIDE DEF B
    <3>1. QED
      BY <1>1, <2>2, <2>4
  <2>6. QED
    BY <2>5 DEF First
<1>5. First(n, S \cup T) \subseteq S \cup T /\ First(n - Cardinality(S), T) \subseteq T
  BY DEF First
<1>6. QED
  BY <1>3, <1>4, <1>5

\* A page of an export that can be walked is the first rows that are left,
\* the enquiries before the audit records.
LEMMA ExportFound ==
  ASSUME TypeInv, Walkable, query.list = "export", NEW c
  PROVE  LET audits == IF Room(c) = 0 THEN {} ELSE First(Room(c) + 1, Records("audit", c))
         IN  Enquiries(c) \cup audits = First(Limit + 1, Left(c))
<1> DEFINE E == Records("enquiry", c)
           A == Records("audit", c)
<1>0. Rows /\ query.list # "jobs" /\ Limit \in Nat /\ Limit >= 1 /\ Listed \subseteq Id
  BY WalkableQuery, ConstantsOK DEF Listed
<1>1. Left(c) = E \cup A /\ E \in SUBSET Id /\ A \in SUBSET Id
  BY <1>0 DEF Left, Records, TypeInv, TypeOK, Row, Kind, Listed
<1>2. \A i \in E, j \in A : Before(i, j)
  BY DEF Records, Before
<1>3. Enquiries(c) = First(Limit + 1, E)
  BY DEF Enquiries
<1>4. First(Limit + 1, {}) = {}
  BY DEF First
<1>5. CASE query.entity = "enquiry"
  <2>1. A = {}
    BY <1>5 DEF Records, Listed
  <2>2. \A n : First(n, A) = {}
    BY <2>1 DEF First
  <2>3. QED
    BY <1>1, <1>3, <2>1, <2>2
<1>6. CASE query.entity # "enquiry"
  <2>1. Cardinality(E) < Limit /\ Cardinality(E) \in Nat
    <3>1. CASE query.entity = "audit"
      <4>1. E = {}
        BY <3>1 DEF Records, Listed
      <4>2. QED
        BY <1>0, <4>1, FS_EmptySet
    <3>2. CASE query.entity = "all"
      <4> DEFINE Q == {i \in Listed : row[i].kind = "enquiry"}
      <4>1. Cardinality(Q) < Limit
        BY <3>2, WalkableQuery DEF FewEnquiries
      <4>2. E \in SUBSET Q
        BY DEF Records
      <4>3. IsFiniteSet(Q)
        BY <1>0, FS_Subset, ConstantsOK
      <4>4. Cardinality(E) <= Cardinality(Q) /\ Cardinality(Q) \in Nat /\ Cardinality(E) \in Nat
        BY <4>2, <4>3, FS_Subset, FS_CardinalityType
      <4> HIDE DEF Q, E
      <4>5. QED
        BY <1>0, <4>1, <4>4
    <3>3. QED
      BY <1>6, <3>1, <3>2, WalkableQuery DEF Kind
  <2>2. Enquiries(c) = E
    <3> HIDE DEF E
    <3>1. QED
      BY <1>0, <1>1, <1>3, <2>1, FirstIsAll
  <2>3. Room(c) = Limit - Cardinality(E) /\ Room(c) # 0 /\ Room(c) + 1 = (Limit + 1) - Cardinality(E)
    <3> HIDE DEF E
    <3>1. QED
      BY <1>0, <2>1, <2>2 DEF Room
  <2>4. First(Limit + 1, E \cup A) = E \cup First((Limit + 1) - Cardinality(E), A)
    <3> HIDE DEF E, A
    <3>1. QED
      BY <1>0, <1>1, <1>2, <2>1, FirstOfTwo
  <2>5. QED
    BY <1>1, <2>2, <2>3, <2>4
<1>7. QED
  BY <1>5, <1>6

\* Every page of a list that can be walked is the first rows that are left.
LEMMA PageIsFirst ==
  ASSUME TypeInv, Walkable, NEW c, KeyCursor(c)
  PROVE  /\ Page(c).rows = First(Limit, Left(c))
         /\ Page(c).more = (Cardinality(Left(c)) > Limit)
<1>1. Left(c) \in SUBSET Id /\ Rows
  BY WalkableQuery DEF Left, Listed
<1>2. CASE query.list # "export"
  <2>1. Left(c) = {i \in Listed : After(i, c)}
    <3>1. \A i \in Listed : c # None => c.kind = row[i].kind
      BY <1>2 DEF KeyCursor, TypeInv, OneKind, Listed
    <3>2. c = None => \A i \in Listed : After(i, c)
      BY DEF After
    <3>3. QED
      BY <3>1, <3>2 DEF Left
  <2>2. Page(c) = KeysetPage(c)
    BY <1>2, WalkableQuery DEF Page, FindEnquiries, FindAuditLogs, FindEvents
  <2>3. Page(c) = [rows |-> First(Limit, Left(c)), more |-> Cardinality(Left(c)) > Limit]
    BY <2>1, <2>2 DEF KeysetPage
  <2>4. QED
    BY <2>3
<1>3. CASE query.list = "export"
  <2>1. Page(c) = ExportPage(c)
    BY <1>3 DEF Page
  <2>2. ExportPage(c) = [rows |-> First(Limit, First(Limit + 1, Left(c))),
                         more |-> Cardinality(First(Limit + 1, Left(c))) > Limit]
    BY <1>3, ExportFound DEF ExportPage
  <2>3. /\ First(Limit, First(Limit + 1, Left(c))) = First(Limit, Left(c))
        /\ Cardinality(First(Limit + 1, Left(c))) > Limit <=> Cardinality(Left(c)) > Limit
    BY <1>1, PageOfFirst
  <2>4. Page(c) = [rows |-> First(Limit, Left(c)),
                   more |-> Cardinality(First(Limit + 1, Left(c))) > Limit]
    BY <2>1, <2>2, <2>3
  <2>5. Page(c).rows = First(Limit, Left(c))
    BY <2>4
  <2>6. Page(c).more = (Cardinality(First(Limit + 1, Left(c))) > Limit)
    BY <2>4
  <2>7. QED
    BY <2>3, <2>5, <2>6
<1>4. QED
  BY <1>2, <1>3

-----------------------------------------------------------------------------
(* The walk through a list with cursors. *)

\* What has stayed in the list up to the cursor has been shown.
SeenUpTo(c) == \A i \in steady : UpTo(i, c) => i \in seen

Complete ==
  Walkable => /\ SeenUpTo(next) /\ SeenUpTo(previous) /\ SeenUpTo(used)
              /\ walking = "ended" => steady \subseteq seen

\* Nothing that was shown is after the cursor.
NoRepeat ==
  Keyset /\ straight => /\ twice = {}
                        /\ walking = "reading" => \A i \in seen : status[i] = "deleted" \/ UpTo(i, next)

WalkInv == Complete /\ NoRepeat

\* Initially nothing was shown.
LEMMA WalkInit == Init => WalkInv
BY DEF Init, WalkInv, Complete, NoRepeat, SeenUpTo

\* What a page of a list with cursors shows.
LEMMA ShowPage ==
  ASSUME TypeInv, Walkable, NEW c, KeyCursor(c), Show(c)
  PROVE  /\ Left(c) \in SUBSET Id /\ Left(c) \subseteq Listed
         /\ page' = First(Limit, Left(c)) /\ page' \subseteq Left(c)
         /\ seen' = seen \cup page' /\ used' = c
         /\ walking' = "ended" => page' = Left(c)
         /\ next' \in {None} \cup {CursorOf(l) : l \in page'}
         /\ previous' \in {None} \cup {CursorOf(l) : l \in page'}
         /\ walking' = "reading" => \E l \in page' : IsLast(l, page') /\ next' = CursorOf(l)
<1>1. /\ page' = Page(c).rows /\ seen' = seen \cup Page(c).rows /\ used' = c
      /\ next' \in NextCursor(c, Page(c)) /\ previous' \in PreviousCursor(c, Page(c))
      /\ walking' = IF Page(c).more THEN "reading" ELSE "ended"
  BY DEF Show
<1>2. /\ Page(c).rows = First(Limit, Left(c)) /\ Page(c).more = (Cardinality(Left(c)) > Limit)
  BY PageIsFirst
<1>3. Left(c) \in SUBSET Id /\ Rows /\ query.list # "jobs" /\ Limit \in Nat
  BY WalkableQuery, ConstantsOK DEF Left, Listed
<1>4. /\ First(Limit, Left(c)) \in SUBSET Left(c) /\ Cardinality(Left(c)) \in Nat
      /\ Cardinality(Left(c)) <= Limit => First(Limit, Left(c)) = Left(c)
  BY <1>3, FirstIsAll
<1>5. walking' = "ended" => page' = Left(c)
  <2>1. CASE Cardinality(Left(c)) <= Limit
    BY <1>1, <1>2, <1>4, <2>1
  <2>2. CASE Cardinality(Left(c)) > Limit
    BY <1>1, <1>2, <2>2
  <2>3. QED
    BY <1>3, <1>4, <2>1, <2>2
<1>6. /\ next' \in {None} \cup {CursorOf(l) : l \in page'}
      /\ walking' = "reading" => \E l \in page' : IsLast(l, page') /\ next' = CursorOf(l)
  <2>1. CASE Page(c).more
    BY <1>1, <1>3, <2>1 DEF NextCursor, IsLast
  <2>2. CASE ~Page(c).more
    BY <1>1, <2>2 DEF NextCursor
  <2>3. QED
    BY <2>1, <2>2
<1>7. previous' \in {None} \cup {CursorOf(l) : l \in page'}
  BY <1>1, <1>3 DEF PreviousCursor, IsFirst
<1>8. QED
  BY <1>1, <1>2, <1>3, <1>4, <1>5, <1>6, <1>7 DEF Left

\* A page leaves no row out that is not after its cursors.
LEMMA ShowComplete ==
  ASSUME TypeInv, Walkable, NEW c, KeyCursor(c), Show(c), UNCHANGED <<query, table>>,
         steady' \subseteq Listed, \A i \in steady' : UpTo(i, c) => i \in seen
  PROVE  Complete'
<1>1. /\ Left(c) \in SUBSET Id /\ page' = First(Limit, Left(c))
      /\ seen' = seen \cup page' /\ used' = c
      /\ page' \subseteq Left(c)
      /\ walking' = "ended" => page' = Left(c)
      /\ next' \in {None} \cup {CursorOf(l) : l \in page'}
      /\ previous' \in {None} \cup {CursorOf(l) : l \in page'}
  BY ShowPage
<1>2. \A i \in steady' : i \in Left(c) \/ i \in seen
  BY LeftOrUpTo
<1>3. ASSUME NEW l \in page', NEW i \in steady', UpTo(i, CursorOf(l)) PROVE i \in seen'
  <2>1. CASE i \in Left(c)
    <3>1. i \in Id /\ l \in Id /\ Rows /\ Limit \in Nat
      BY <1>1, <2>1, WalkableQuery, ConstantsOK
    <3>2. i = l \/ Before(i, l)
      BY <1>3, <3>1, CursorPlace
    <3>3. i \in First(Limit, Left(c))
      BY <1>1, <2>1, <3>1, <3>2, FirstIsInitial
    <3>4. QED
      BY <1>1, <3>3
  <2>2. QED
    BY <1>1, <1>2, <2>1
<1>4. \A i, d : /\ UpTo(i, next)' <=> UpTo(i, next')
                /\ UpTo(i, previous)' <=> UpTo(i, previous')
                /\ UpTo(i, used)' <=> UpTo(i, used')
  BY DEF UpTo, After, table
<1>5. \A i : ~UpTo(i, None)
  BY DEF UpTo
<1>6. SeenUpTo(next)' /\ SeenUpTo(previous)'
  BY <1>1, <1>3, <1>4, <1>5 DEF SeenUpTo
<1>7. SeenUpTo(used)'
  BY <1>1, <1>4 DEF SeenUpTo
<1>8. walking' = "ended" => steady' \subseteq seen'
  BY <1>1, <1>2
<1>9. QED
  BY <1>6, <1>7, <1>8 DEF Complete

\* The next page of a straight walk has nothing that was shown.
LEMMA ShowNew ==
  ASSUME TypeInv, NoRepeat, Keyset, straight, NextPage
  PROVE  NoRepeat'
<1>1. /\ walking = "reading" /\ Show(next) /\ twice' = twice \cup (seen \cap page')
      /\ UNCHANGED <<query, table, straight>>
  BY DEF NextPage
<1>2. Walkable /\ Rows /\ query.list # "jobs" /\ KeyCursor(next)
  BY WalkableQuery DEF Walkable, TypeInv, GoodCursor
<1>3. /\ page' \subseteq Left(next) /\ Left(next) \subseteq Listed /\ seen' = seen \cup page'
      /\ walking' = "reading" => \E l \in page' : IsLast(l, page') /\ next' = CursorOf(l)
  BY <1>1, <1>2, ShowPage
<1>4. \A i \in Id : (status[i] # "deleted" /\ i \in seen) \/ i \in Listed =>
                      next = None \/ next.kind = row[i].kind
  BY <1>2 DEF Keyset, KeyCursor, TypeInv, OneKind, History, Listed
<1>5. seen \subseteq Id /\ Listed \subseteq Id
  BY DEF TypeInv, TypeOK, Listed
<1>6. \A i \in seen : status[i] = "deleted" \/ UpTo(i, next)
  BY <1>1 DEF NoRepeat
<1>7. seen \cap page' = {}
  <2> SUFFICES ASSUME NEW i \in seen, i \in page' PROVE FALSE
    OBVIOUS
  <2>1. i \in Listed /\ status[i] # "deleted" /\ i \in Left(next)
    BY <1>3 DEF Listed
  <2>2. UpTo(i, next)
    BY <1>6, <2>1
  <2>3. next # None /\ next.kind = row[i].kind
    BY <1>4, <1>5, <2>1, <2>2 DEF UpTo
  <2>4. QED
    BY <2>1, <2>2, <2>3 DEF UpTo, Left
<1>8. ASSUME walking' = "reading", NEW i \in seen', status[i] # "deleted" PROVE UpTo(i, next')
  <2>1. PICK l \in page' : IsLast(l, page') /\ next' = CursorOf(l)
    BY <1>3, <1>8
  <2>2. i \in Id /\ l \in Id /\ l \in Listed
    BY <1>3, <1>5
  <2>3. CASE i \in page'
    <3>1. i = l \/ Before(i, l)
      BY <2>1, <2>3 DEF IsLast
    <3>2. QED
      BY <1>2, <2>1, <2>2, <3>1, CursorPlace
  <2>4. CASE i \in seen /\ i # l
    <3>1. UpTo(i, next)
      BY <1>6, <1>8, <2>4
    <3>2. next # None /\ next.kind = row[i].kind /\ next.kind = row[l].kind
      BY <1>4, <1>8, <2>2, <2>4, <3>1 DEF UpTo
    <3>3. ~After(i, next) /\ After(l, next)
      BY <1>3, <3>1, <3>2 DEF UpTo, Left
    <3>4. /\ row[i].created \in Nat /\ row[l].created \in Nat /\ i \in Nat /\ l \in Nat
          /\ next.created \in Nat /\ next.id \in Nat /\ query.desc \in BOOLEAN
          /\ SortKey(i) = row[i].created /\ SortKey(l) = row[l].created
      <4>1. row[i] \in Row /\ row[l] \in Row /\ query.desc \in BOOLEAN
        BY <1>2, <2>2 DEF Rows, Query
      <4>2. next.created \in Time /\ next.id \in Id
        BY <1>2, <3>2 DEF KeyCursor
      <4>3. SortKey(i) = row[i].created /\ SortKey(l) = row[l].created
        BY <1>2, WalkableQuery DEF SortKey
      <4>4. row[i].created \in Nat /\ row[l].created \in Nat
        BY <4>1, ConstantsOK DEF Row, Time
      <4>5. \A n \in Id : n \in Nat
        BY ConstantsOK
      <4>6. \A t \in Time : t \in Nat
        BY ConstantsOK DEF Time
      <4>7. QED
        BY <2>2, <4>1, <4>2, <4>3, <4>4, <4>5, <4>6
    <3>5. Before(i, l)
      BY <1>2, <2>4, <3>2, <3>3, <3>4 DEF After, Before, Less
    <3>6. QED
      BY <1>2, <2>1, <2>2, <3>5, CursorPlace
  <2>5. QED
    BY <1>3, <1>7, <2>3, <2>4
<1>9. \A i : UpTo(i, next)' <=> UpTo(i, next')
  BY <1>1 DEF UpTo, After, table
<1>10. UNCHANGED status /\ twice' = {}
  BY <1>1, <1>7 DEF table, NoRepeat
<1>11. QED
  BY <1>8, <1>9, <1>10 DEF NoRepeat

\* No step of a writer takes a row out of the walk that has stayed.
LEMMA WriterKeeps ==
  ASSUME TypeInv, WalkInv, query' = query, view' = view, seen' = seen, twice' = twice,
         straight' = straight, steady' \subseteq steady, Walkable' => Walkable,
         \A i \in steady' : row'[i].kind = row[i].kind /\ row'[i].created = row[i].created,
         \A i \in seen : \/ status'[i] = "deleted"
                         \/ /\ status[i] # "deleted"
                            /\ row'[i].kind = row[i].kind /\ row'[i].created = row[i].created
  PROVE  WalkInv'
<1> UNCHANGED <<next, previous, used, walking>>
  BY DEF view
<1>1. \A i, d : row'[i].kind = row[i].kind /\ row'[i].created = row[i].created =>
                  /\ UpTo(i, next)' <=> UpTo(i, next)
                  /\ UpTo(i, previous)' <=> UpTo(i, previous)
                  /\ UpTo(i, used)' <=> UpTo(i, used)
  BY DEF UpTo, After
<1>2. Complete'
  BY <1>1 DEF WalkInv, Complete, SeenUpTo
<1>3. NoRepeat'
  BY <1>1 DEF WalkInv, NoRepeat, Keyset
<1>4. QED
  BY <1>2, <1>3 DEF WalkInv

\* The enquiries of an export do not become fewer.
LEMMA FewBefore ==
  ASSUME TypeInv, query' = query, Listed' \subseteq Id,
         query.list = "export" => /\ Listed \subseteq Listed'
                                  /\ \A i \in Listed : row'[i].kind = row[i].kind
  PROVE  Walkable' => Walkable
<1> SUFFICES ASSUME FewEnquiries' PROVE FewEnquiries
  BY DEF Walkable, Keyset
<1> DEFINE Q == {i \in Listed : row[i].kind = "enquiry"}
<1>1. query.list = "export" /\ Cardinality(Q') < Limit
  BY DEF FewEnquiries
<1>2. Q \in SUBSET Q' /\ Q' \in SUBSET Id
  BY <1>1
<1>3. IsFiniteSet(Q') /\ IsFiniteSet(Q)
  BY <1>2, FS_Subset, ConstantsOK
<1>4. Cardinality(Q) <= Cardinality(Q') /\ Cardinality(Q) \in Nat /\ Cardinality(Q') \in Nat /\ Limit \in Nat
  BY <1>2, <1>3, FS_Subset, FS_CardinalityType, ConstantsOK
<1>5. Cardinality(Q) < Limit
  <2> HIDE DEF Q
  <2>1. QED
    BY <1>1, <1>4
<1>6. QED
  BY <1>1, <1>5 DEF FewEnquiries

\* No step shows a row twice or passes over one that has stayed.
LEMMA WalkStep == TypeInv /\ TypeInv' /\ WalkInv /\ [Next]_vars => WalkInv'
<1> SUFFICES ASSUME TypeInv, TypeInv', WalkInv, [Next]_vars PROVE WalkInv'
  OBVIOUS
<1>0. /\ TypeOK /\ steady \subseteq Listed /\ Listed \subseteq Id /\ seen \subseteq Id
      /\ steady \subseteq Id /\ Listed' \subseteq Id /\ steady' \subseteq Listed'
  BY DEF TypeInv, TypeOK, History, Listed
<1>1. ASSUME Walkable, NEW c \in {next, previous, used}, Show(c), UNCHANGED <<query, table, steady>>
      PROVE  Complete'
  <2>1. KeyCursor(c)
    BY <1>1, WalkableQuery DEF TypeInv, GoodCursor
  <2>2. SeenUpTo(c)
    BY <1>1 DEF WalkInv, Complete
  <2>3. QED
    BY <1>0, <1>1, <2>1, <2>2, ShowComplete DEF SeenUpTo
<1>2. ASSUME UNCHANGED <<query, table>> PROVE Walkable' <=> Walkable
  BY <1>2 DEF Walkable, FewEnquiries, Keyset, Listed, table
<1>3. CASE FirstPage
  <2>1. /\ walking = "new" /\ Show(None) /\ steady' = Listed
        /\ UNCHANGED <<query, table, twice, straight>> /\ seen = {} /\ twice = {}
    BY <1>3 DEF FirstPage, TypeInv, History
  <2>2. KeyCursor(None) /\ \A i : ~UpTo(i, None)
    BY DEF KeyCursor, UpTo
  <2>3. Walkable => Complete'
    BY <2>1, <2>2, ShowComplete
  <2>4. Complete'
    BY <1>2, <2>1, <2>3 DEF Complete
  <2>5. ASSUME Keyset, walking' = "reading", NEW i \in seen' PROVE UpTo(i, next)'
    <3>1. Walkable
      BY <2>5 DEF Walkable
    <3>2. /\ seen' = page' /\ page' \subseteq Id
          /\ \E l \in page' : IsLast(l, page') /\ next' = CursorOf(l)
      BY <2>1, <2>2, <2>5, <3>1, ShowPage
    <3>3. PICK l \in page' : IsLast(l, page') /\ next' = CursorOf(l)
      BY <3>2
    <3>4. i = l \/ Before(i, l)
      BY <2>5, <3>2, <3>3 DEF IsLast
    <3>5. UpTo(i, next')
      BY <2>5, <3>1, <3>2, <3>3, <3>4, CursorPlace
    <3>6. QED
      BY <2>1, <3>5 DEF UpTo, After, table
  <2>6. NoRepeat'
    BY <2>1, <2>5 DEF NoRepeat, Keyset
  <2>7. QED
    BY <2>4, <2>6 DEF WalkInv
<1>4. CASE NextPage
  <2>1. Show(next) /\ UNCHANGED <<query, table, straight, steady>>
    BY <1>4 DEF NextPage
  <2>2. Complete'
    BY <1>1, <1>2, <2>1 DEF Complete
  <2>3. Keyset /\ straight => NoRepeat'
    BY <1>4, ShowNew DEF WalkInv
  <2>4. NoRepeat'
    BY <2>1, <2>3 DEF NoRepeat, Keyset
  <2>5. QED
    BY <2>2, <2>4 DEF WalkInv
<1>5. CASE PreviousPage \/ Refetch
  <2>1. PICK c \in {previous, used} : Show(c)
    BY <1>5 DEF PreviousPage, Refetch
  <2>2. UNCHANGED <<query, table, steady>> /\ straight' = FALSE
    BY <1>5 DEF PreviousPage, Refetch
  <2>3. Complete'
    BY <1>1, <1>2, <2>1, <2>2 DEF Complete
  <2>4. QED
    BY <2>2, <2>3 DEF WalkInv, NoRepeat
<1>6. ASSUME NEW i \in Id, Insert(i) PROVE WalkInv'
  <2>1. /\ UNCHANGED <<query, view, seen, twice, straight, steady>> /\ status[i] = "new"
        /\ \A j \in Id \ {i} : row'[j] = row[j] /\ status'[j] = status[j]
        /\ status'[i] \in {"listed", "hidden"}
    BY <1>0, <1>6 DEF Insert, TypeOK
  <2>2. i \notin seen /\ i \notin Listed
    BY <2>1 DEF TypeInv, History, Listed
  <2>3. Listed \subseteq Listed' /\ \A j \in Listed : row'[j].kind = row[j].kind
    BY <2>1, <2>2 DEF Listed
  <2>4. Walkable' => Walkable
    BY <1>0, <2>1, <2>3, FewBefore
  <2>5. \A j \in seen : j \in Id \ {i} /\ (status[j] = "deleted" => status'[j] = "deleted")
    BY <1>0, <2>1, <2>2
  <2>6. \A j \in steady : j \in Id \ {i}
    BY <1>0, <2>2
  <2>7. QED
    BY <2>1, <2>4, <2>5, <2>6, WriterKeeps
<1>7. ASSUME NEW i \in Id, Touch(i) PROVE WalkInv'
  <2>1. PICK o : row' = [row EXCEPT ![i] = [row[i] EXCEPT !.other = o]]
    BY <1>7 DEF Touch
  <2>2. \A j \in Id : row'[j].kind = row[j].kind /\ row'[j].created = row[j].created
    BY <1>0, <2>1 DEF TypeOK, Row
  <2>3. /\ UNCHANGED <<query, view, seen, twice, straight>> /\ steady' \subseteq steady
        /\ query.list \in {"enquiries", "events"} /\ status[i] # "deleted"
        /\ \A j \in Id \ {i} : status'[j] = status[j]
    BY <1>0, <1>7 DEF Touch, TypeOK
  <2>4. Walkable' => Walkable
    BY <1>0, <2>3, FewBefore
  <2>5. \A j \in seen : j \in Id /\ (status[j] = "deleted" => status'[j] = "deleted")
    BY <1>0, <2>3
  <2>6. \A j \in steady' : j \in Id
    BY <1>0, <2>3
  <2>7. QED
    BY <2>2, <2>3, <2>4, <2>5, <2>6, WriterKeeps
<1>8. ASSUME NEW i \in Id, Delete(i) PROVE WalkInv'
  <2>1. /\ UNCHANGED <<query, view, seen, twice, straight>> /\ steady' = steady \ {i}
        /\ query.list \in {"events", "jobs"} /\ status'[i] = "deleted"
        /\ \A j \in Id \ {i} : row'[j] = row[j] /\ status'[j] = status[j]
    BY <1>0, <1>8 DEF Delete, TypeOK
  <2>2. Walkable' => Walkable
    BY <1>0, <2>1, FewBefore
  <2>3. \A j \in steady' : row'[j] = row[j]
    BY <1>0, <2>1
  <2>4. \A j \in seen : status'[j] = "deleted" \/ (status[j] # "deleted" /\ row'[j] = row[j])
    BY <1>0, <2>1
  <2>5. QED
    BY <2>1, <2>2, <2>3, <2>4, WriterKeeps
<1>9. CASE Tick \/ UNCHANGED vars
  <2>1. UNCHANGED <<query, status, row, view, seen, twice, straight, steady>>
    BY <1>9 DEF Tick, vars, table, history
  <2>2. Walkable' => Walkable
    BY <2>1 DEF Walkable, FewEnquiries, Keyset, Listed
  <2>3. QED
    BY <2>1, <2>2, WriterKeeps
<1>10. CASE Erase
  <2>1. PICK S \in SUBSET {i \in Id : status[i] \in {"listed", "hidden"}}, s \in {"listed", "hidden"} :
          /\ query.list = "export" => S = {i \in Id : status[i] \in {"listed", "hidden"}} /\ s = "hidden"
          /\ status' = [i \in Id |-> IF i \in S THEN s ELSE status[i]]
          /\ steady' = IF s = "hidden" THEN steady \ S ELSE steady
    BY <1>10 DEF Erase
  <2>2. /\ UNCHANGED <<query, row, view, seen, twice, straight>> /\ steady' \subseteq steady
        /\ UNCHANGED <<next, previous, used, walking>>
    BY <1>10, <2>1 DEF Erase, view
  <2>3. \A j \in seen : j \in Id /\ (status[j] = "deleted" => status'[j] = "deleted")
    BY <1>0, <2>1
  <2>4. CASE query.list = "export"
    <3>1. \A j \in Listed : j \in S
      BY <2>1, <2>4 DEF Listed
    <3>2. steady' = {}
      BY <1>0, <2>1, <2>4, <3>1
    <3>3. Complete'
      BY <3>2 DEF Complete, SeenUpTo
    <3>4. \A j : UpTo(j, next)' <=> UpTo(j, next)
      BY <2>2 DEF UpTo, After
    <3>5. NoRepeat'
      BY <2>2, <2>3, <3>4 DEF NoRepeat, Keyset, WalkInv
    <3>6. QED
      BY <3>3, <3>5 DEF WalkInv
  <2>5. CASE query.list # "export"
    <3>1. Walkable' => Walkable
      BY <1>0, <2>2, <2>5, FewBefore
    <3>2. QED
      BY <2>2, <2>3, <3>1, WriterKeeps
  <2>6. QED
    BY <2>4, <2>5
<1>11. QED
  BY <1>3, <1>4, <1>5, <1>6, <1>7, <1>8, <1>9, <1>10 DEF Next

\* The walk keeps its invariant.
LEMMA WalkInvariant == Spec => []WalkInv
BY TypeInvariant, WalkInit, WalkStep, PTL DEF Spec

\* Following nextCursor never shows a row a second time, for any number of
\* rows, of pages and of writes between them.
THEOREM NothingShownTwice == Spec => []NoRowTwice
<1>1. WalkInv => NoRowTwice
  BY DEF WalkInv, NoRepeat, NoRowTwice
<1>2. QED
  BY <1>1, WalkInvariant, PTL

\* A walk that has come to its end has shown every row that was listed all
\* along, whatever entered, changed or left the list, backwards and refetches included.
THEOREM NothingMissed == Spec => []NoRowMissed
<1>1. WalkInv => NoRowMissed
  BY DEF WalkInv, Complete, Walkable, NoRowMissed
<1>2. QED
  BY <1>1, WalkInvariant, PTL

\* An export of all entities shows every record that was there all along if
\* its enquiries do not fill a page.
THEOREM ExportIsComplete == Spec => []ExportWithRoomIsComplete
<1>1. WalkInv => ExportWithRoomIsComplete
  BY DEF WalkInv, Complete, Walkable, FewEnquiries, ExportWithRoomIsComplete
<1>2. QED
  BY <1>1, WalkInvariant, PTL

-----------------------------------------------------------------------------
(* The walk through the dead-letter list. *)

\* Jobs that have stayed, were not shown, and are before position k.
Passed(k) == {i \in steady \ seen : Rank(i, Listed) < k}

\* Jobs that were shown and are at position k or after it.
Again(k) == {i \in seen \cap Listed : Rank(i, Listed) >= k}

JobsInv ==
  query.list = "jobs" /\ straight =>
    /\ walking # "reading" => Cardinality(twice) <= added
    /\ walking = "ended" => Cardinality(steady \ seen) <= removed
    /\ walking = "reading" => /\ Cardinality(Passed(Start(next))) <= removed
                              /\ Cardinality(twice) + Cardinality(Again(Start(next))) <= added

\* Sets of jobs are finite, and their sizes compare as they do.
LEMMA Sizes ==
  /\ \A S \in SUBSET Id : IsFiniteSet(S) /\ Cardinality(S) \in Nat
  /\ \A S \in SUBSET Id : \A T \in SUBSET S : Cardinality(T) <= Cardinality(S)
  /\ \A S, T \in SUBSET Id : /\ Cardinality(S \cup T) <= Cardinality(S) + Cardinality(T)
                             /\ S \cap T = {} => Cardinality(S \cup T) = Cardinality(S) + Cardinality(T)
  /\ Cardinality({}) = 0
<1>1. \A S \in SUBSET Id : IsFiniteSet(S) /\ Cardinality(S) \in Nat
  BY FS_Subset, FS_CardinalityType, ConstantsOK
<1>2. \A S \in SUBSET Id : \A T \in SUBSET S : Cardinality(T) <= Cardinality(S)
  BY <1>1, FS_Subset
<1>3. Cardinality({}) = 0
  BY FS_EmptySet
<1>4. ASSUME NEW S \in SUBSET Id, NEW T \in SUBSET Id
      PROVE  /\ Cardinality(S \cup T) <= Cardinality(S) + Cardinality(T)
             /\ S \cap T = {} => Cardinality(S \cup T) = Cardinality(S) + Cardinality(T)
  <2>1. S \cap T \in SUBSET Id /\ S \cup T \in SUBSET Id
    OBVIOUS
  <2>2. Cardinality(S \cup T) = Cardinality(S) + Cardinality(T) - Cardinality(S \cap T)
    BY <1>1, FS_Union
  <2>3. /\ Cardinality(S \cap T) \in Nat /\ Cardinality(S) \in Nat /\ Cardinality(T) \in Nat
        /\ S \cap T = {} => Cardinality(S \cap T) = 0
    BY <1>1, <1>3, <2>1
  <2>4. QED
    BY <2>2, <2>3
<1>5. QED
  BY <1>1, <1>2, <1>3, <1>4

\* No two rows have one rank.
LEMMA OneAtRank ==
  ASSUME Rows, NEW S \in SUBSET Id, NEW n
  PROVE  Cardinality({i \in S : Rank(i, S) = n}) <= 1
<1> DEFINE T == {i \in S : Rank(i, S) = n}
<1>1. \A i, j \in T : i = j
  <2> SUFFICES ASSUME NEW i \in T, NEW j \in T, i # j PROVE FALSE
    OBVIOUS
  <2>1. Before(i, j) \/ Before(j, i)
    BY BeforeIsTotal
  <2>2. Rank(i, S) < Rank(j, S) \/ Rank(j, S) < Rank(i, S)
    BY <2>1, RankOrder
  <2>3. Rank(i, S) = n /\ Rank(j, S) = n /\ Rank(i, S) \in Nat
    BY RankBound
  <2>4. QED
    BY <2>2, <2>3
<1>2. CASE T = {}
  BY <1>2, FS_EmptySet
<1>3. CASE T # {}
  <2>1. PICK i \in T : T = {i}
    BY <1>1, <1>3
  <2>2. QED
    BY <2>1, FS_Singleton
<1>4. QED
  BY <1>2, <1>3

\* A row more or less shifts the others by one position at most.
LEMMA RankShift ==
  ASSUME Rows, Rows', query' = query, NEW S \in SUBSET Id, NEW T \in SUBSET Id,
         NEW i \in Id, i \notin S, T = S \cup {i},
         \A k \in Id \ {i} : row'[k] = row[k], NEW j \in S
  PROVE  /\ Cardinality({k \in T : Before(k, j)'}) \in {Rank(j, S), Rank(j, S) + 1}
         /\ Cardinality({k \in S : Before(k, j)'}) \in {Rank(j, T), Rank(j, T) - 1}
<1>1. \A k \in S : Before(k, j)' <=> Before(k, j)
  BY DEF Before, SortKey
<1> DEFINE B == {k \in S : Before(k, j)}
<1>2. {k \in S : Before(k, j)'} = B
  BY <1>1
<1>3. {k \in T : Before(k, j)'} \in {B, B \cup {i}} /\ {k \in T : Before(k, j)} \in {B, B \cup {i}}
  BY <1>1
<1>4. IsFiniteSet(B) /\ Cardinality(B) \in Nat /\ i \notin B
  BY Sizes
<1>5. Cardinality(B \cup {i}) = Cardinality(B) + 1
  BY <1>4, FS_AddElement
<1>6. Rank(j, S) = Cardinality(B) /\ Cardinality({k \in S : Before(k, j)'}) = Cardinality(B)
  BY <1>2 DEF Rank
<1>7. Rank(j, T) = Cardinality({k \in T : Before(k, j)})
  BY DEF Rank
<1>8. /\ Rank(j, T) \in {Cardinality(B), Cardinality(B) + 1}
      /\ Cardinality({k \in T : Before(k, j)'}) \in {Cardinality(B), Cardinality(B) + 1}
  <2> HIDE DEF B
  <2>1. QED
    BY <1>3, <1>5, <1>7
<1>9. QED
  <2> HIDE DEF B
  <2>1. QED
    BY <1>4, <1>6, <1>8

\* What a page of the dead-letter list shows.
LEMMA ShowJobs ==
  ASSUME TypeInv, query.list = "jobs", NEW c, IndexCursor(c), Show(c)
  PROVE  /\ page' = {i \in Listed : Start(c) <= Rank(i, Listed) /\ Rank(i, Listed) < Start(c) + Limit}
         /\ seen' = seen \cup page'
         /\ walking' = "ended" => Cardinality(Listed) <= Start(c) + Limit
         /\ walking' = "reading" => next' = Index(Start(c) + Limit)
         /\ walking' \in {"reading", "ended"}
<1>1. Page(c) = IndexPage(c)
  BY DEF Page
<1>2. /\ page' = Page(c).rows /\ seen' = seen \cup page' /\ next' \in NextCursor(c, Page(c))
      /\ walking' = IF Page(c).more THEN "reading" ELSE "ended"
  BY DEF Show
<1>3. Page(c).rows = {i \in Listed : Start(c) <= Rank(i, Listed) /\ Rank(i, Listed) < Start(c) + Limit}
  BY <1>1 DEF IndexPage
<1>4. Page(c).more = (Start(c) + Limit < Cardinality(Listed))
  BY <1>1 DEF IndexPage
<1>5. Start(c) \in Nat /\ Limit \in Nat /\ Cardinality(Listed) \in Nat
  BY ConstantsOK, CursorKinds, Sizes DEF Listed
<1>6. CASE Page(c).more
  BY <1>2, <1>3, <1>6 DEF NextCursor
<1>7. CASE ~Page(c).more
  <2>1. ~(Start(c) + Limit < Cardinality(Listed))
    BY <1>4, <1>7
  <2>2. QED
    BY <1>2, <1>3, <1>5, <1>7, <2>1
<1>8. QED
  BY <1>6, <1>7

\* A page takes up the walk where its cursor is.
LEMMA ShowCounts ==
  ASSUME TypeInv, query.list = "jobs", NEW c, IndexCursor(c), Show(c), UNCHANGED <<query, table>>,
         steady' \subseteq Listed,
         Cardinality({i \in steady' \ seen : Rank(i, Listed) < Start(c)}) <= removed,
         twice' = twice \cup (seen \cap page'),
         Cardinality(twice) + Cardinality(Again(Start(c))) <= added,
         UNCHANGED <<added, removed>>
  PROVE  JobsInv'
<1> DEFINE P == {i \in steady' \ seen : Rank(i, Listed) < Start(c)}
           k == Start(c)
<1>1. /\ page' = {i \in Listed : k <= Rank(i, Listed) /\ Rank(i, Listed) < k + Limit}
      /\ seen' = seen \cup page' /\ walking' \in {"reading", "ended"}
      /\ walking' = "ended" => Cardinality(Listed) <= k + Limit
      /\ walking' = "reading" => next' = Index(k + Limit)
  BY ShowJobs
<1>2. /\ k \in Nat /\ Limit \in Nat /\ added \in Nat /\ removed \in Nat
      /\ Listed \in SUBSET Id /\ seen \in SUBSET Id /\ twice \in SUBSET Id /\ Rows
  BY ConstantsOK, CursorKinds DEF TypeInv, TypeOK, Listed, Rows
<1>3. \A i \in Listed : Rank(i, Listed) \in Nat /\ Rank(i, Listed) < Cardinality(Listed)
  BY <1>2, RankBound
<1>4. Listed' = Listed /\ \A i : Rank(i, Listed)' = Rank(i, Listed)
  BY DEF table, Listed, Rank, Before, SortKey
<1>5. Cardinality(Listed) \in Nat
  BY <1>2, Sizes
<1>6. walking' = "ended" => Cardinality(steady' \ seen') <= removed
  <2>1. walking' = "ended" => steady' \ seen' \subseteq P
    BY <1>1, <1>2, <1>3, <1>5
  <2>2. P \in SUBSET Id /\ P \subseteq Id
    BY <1>2
  <2> HIDE DEF P
  <2>3. walking' = "ended" => /\ Cardinality(steady' \ seen') <= Cardinality(P)
                              /\ Cardinality(steady' \ seen') \in Nat /\ Cardinality(P) \in Nat
    BY <2>1, <2>2, Sizes
  <2>4. QED
    BY <1>2, <2>3 DEF P
<1>7. walking' = "reading" => Cardinality(Passed(Start(next)))' <= removed
  <2> SUFFICES ASSUME walking' = "reading" PROVE Cardinality(Passed(Start(next))') <= removed
    OBVIOUS
  <2>1. Start(next') = k + Limit
    BY <1>1, <1>2, CursorKinds
  <2>2. Passed(Start(next))' = {i \in steady' \ seen' : Rank(i, Listed) < k + Limit}
    BY <1>4, <2>1 DEF Passed
  <2>3. Passed(Start(next))' \subseteq P /\ P \in SUBSET Id
    BY <1>1, <1>2, <1>3, <2>2
  <2> HIDE DEF P
  <2>4. /\ Cardinality(Passed(Start(next))') <= Cardinality(P)
        /\ Cardinality(Passed(Start(next))') \in Nat /\ Cardinality(P) \in Nat
    BY <2>3, Sizes
  <2>5. QED
    BY <1>2, <2>4 DEF P
<1>8. LET A == IF walking' = "reading" THEN Again(Start(next))' ELSE {}
      IN  Cardinality(twice') + Cardinality(A) <= added
  <2> DEFINE A == IF walking' = "reading" THEN Again(Start(next))' ELSE {}
             D == seen \cap page'
  <2>1. walking' = "reading" => Again(Start(next))' = {i \in seen' \cap Listed : Rank(i, Listed) >= k + Limit}
    BY <1>1, <1>2, <1>4, CursorKinds DEF Again
  <2>2. A \subseteq Again(k) /\ D \subseteq Again(k) /\ A \cap D = {} /\ Again(k) \in SUBSET Id
    <3>1. D \subseteq Again(k) /\ Again(k) \in SUBSET Id
      BY <1>1, <1>2, <1>3 DEF Again
    <3>2. CASE walking' = "reading"
      <4>1. A = {i \in seen' \cap Listed : Rank(i, Listed) >= k + Limit}
        BY <2>1, <3>2
      <4>2. QED
        BY <1>1, <1>2, <1>3, <3>1, <4>1 DEF Again
    <3>3. QED
      BY <3>1, <3>2
  <2>3. twice' = twice \cup D /\ D \in SUBSET Id /\ A \in SUBSET Id /\ A \cup D \in SUBSET Again(k)
    BY <2>2
  <2> HIDE DEF A, D, k
  <2>4. /\ Cardinality(twice') <= Cardinality(twice) + Cardinality(D)
        /\ Cardinality(A \cup D) = Cardinality(A) + Cardinality(D)
        /\ Cardinality(A \cup D) <= Cardinality(Again(k))
    BY <1>2, <2>2, <2>3, Sizes
  <2>5. /\ Cardinality(twice') \in Nat /\ Cardinality(A) \in Nat /\ Cardinality(D) \in Nat
        /\ Cardinality(Again(k)) \in Nat /\ Cardinality(twice) \in Nat /\ Cardinality(A \cup D) \in Nat
    BY <1>2, <2>2, <2>3, Sizes
  <2>6. Cardinality(twice') + Cardinality(A) <= added
    BY <1>2, <2>4, <2>5 DEF k
  <2>7. QED
    BY <2>6 DEF A
<1>9. twice' \in SUBSET Id
  BY <1>1, <1>2
<1>10. walking' # "reading" => Cardinality(twice') <= added
  BY <1>2, <1>8, <1>9, Sizes
<1>11. walking' = "reading" => Cardinality(twice') + Cardinality(Again(Start(next))') <= added
  BY <1>8
<1>12. QED
  BY <1>6, <1>7, <1>10, <1>11 DEF JobsInv

\* Initially nothing was shown.
LEMMA JobsInit == Init => JobsInv
BY FS_EmptySet DEF Init, JobsInv

\* A step that lets both sets of a walk grow by no more than is counted keeps the invariant.
LEMMA JobsKept ==
  ASSUME TypeInv, TypeInv', JobsInv, query' = query, view' = view, seen' = seen, twice' = twice,
         straight' = straight, steady' \subseteq steady,
         added <= added', removed <= removed',
         ASSUME query.list = "jobs", walking = "reading"
         PROVE  /\ Cardinality(Passed(Start(next))') <= Cardinality(Passed(Start(next))) + (removed' - removed)
                /\ Cardinality(Again(Start(next))') <= Cardinality(Again(Start(next))) + (added' - added)
  PROVE  JobsInv'
<1> SUFFICES ASSUME query.list = "jobs", straight
             PROVE  JobsInv'
  BY DEF JobsInv
<1>1. UNCHANGED <<next, walking>>
  BY DEF view
<1>2. /\ added \in Nat /\ removed \in Nat /\ added' \in Nat /\ removed' \in Nat
      /\ seen \in SUBSET Id /\ steady \in SUBSET Id /\ twice \in SUBSET Id /\ Listed \in SUBSET Id
      /\ Listed' \in SUBSET Id /\ steady' \in SUBSET Id
  BY DEF TypeInv, TypeOK, Listed
<1>3. walking # "reading" => Cardinality(twice') <= added'
  <2>1. Cardinality(twice) \in Nat
    BY <1>2, Sizes
  <2>2. QED
    BY <1>1, <1>2, <2>1 DEF JobsInv
<1>4. walking = "ended" => Cardinality(steady' \ seen') <= removed'
  <2>1. steady' \ seen' \in SUBSET (steady \ seen) /\ steady \ seen \in SUBSET Id /\ steady' \ seen' \in SUBSET Id
    BY <1>2
  <2>2. /\ Cardinality(steady' \ seen') <= Cardinality(steady \ seen)
        /\ Cardinality(steady' \ seen') \in Nat /\ Cardinality(steady \ seen) \in Nat
    BY <2>1, Sizes
  <2>3. walking = "ended" => Cardinality(steady \ seen) <= removed
    BY DEF JobsInv
  <2>4. QED
    BY <1>2, <2>2, <2>3
<1>5. ASSUME walking = "reading"
      PROVE  /\ Cardinality(Passed(Start(next))') <= removed'
             /\ Cardinality(twice) + Cardinality(Again(Start(next))') <= added'
  <2>1. /\ Cardinality(Passed(Start(next))') <= Cardinality(Passed(Start(next))) + (removed' - removed)
        /\ Cardinality(Again(Start(next))') <= Cardinality(Again(Start(next))) + (added' - added)
    BY <1>5
  <2>2. /\ Cardinality(Passed(Start(next))) <= removed
        /\ Cardinality(twice) + Cardinality(Again(Start(next))) <= added
    BY <1>5 DEF JobsInv
  <2>3. /\ Passed(Start(next)) \in SUBSET Id /\ Again(Start(next)) \in SUBSET Id
        /\ Passed(Start(next))' \in SUBSET Id /\ Again(Start(next))' \in SUBSET Id
    BY <1>2 DEF Passed, Again
  <2>4. /\ Cardinality(Passed(Start(next))) \in Nat /\ Cardinality(Again(Start(next))) \in Nat
        /\ Cardinality(Passed(Start(next))') \in Nat /\ Cardinality(Again(Start(next))') \in Nat
        /\ Cardinality(twice) \in Nat
    BY <1>2, <2>3, Sizes
  <2>5. QED
    BY <1>2, <2>1, <2>2, <2>4
<1>6. QED
  BY <1>1, <1>3, <1>4, <1>5 DEF JobsInv

\* A failed job moves the jobs after it on by one: one that was shown may come again.
LEMMA JobsInsert ==
  ASSUME TypeInv, TypeInv', JobsInv, query.list = "jobs", NEW i \in Id, Insert(i)
  PROVE  JobsInv'
<1> DEFINE k == Start(next)
<1>1. /\ UNCHANGED <<query, view, seen, twice, straight, steady, removed>> /\ status[i] = "new"
      /\ \A j \in Id \ {i} : row'[j] = row[j] /\ status'[j] = status[j]
      /\ status'[i] = "listed" /\ (walking = "reading" => added' = added + 1)
      /\ added' \in {added, added + 1}
  BY DEF Insert, TypeInv, TypeOK
<1>2. /\ Rows /\ Rows' /\ k \in Nat /\ query.entity = "all" /\ UNCHANGED <<next, walking>>
      /\ seen \in SUBSET Id /\ steady \in SUBSET Id /\ added \in Nat /\ removed \in Nat
  BY <1>1, CursorKinds DEF TypeInv, TypeOK, Rows, GoodCursor, Query, view
<1>3. Listed' = Listed \cup {i} /\ i \notin Listed /\ Listed \in SUBSET Id /\ Listed' \in SUBSET Id
  BY <1>1, <1>2 DEF Listed
<1>4. steady \subseteq Listed /\ i \notin seen
  BY <1>1 DEF TypeInv, History
<1>5. \A j \in Listed : /\ Rank(j, Listed) \in Nat
                        /\ Rank(j, Listed)' \in {Rank(j, Listed), Rank(j, Listed) + 1}
  <2> SUFFICES ASSUME NEW j \in Listed
               PROVE  /\ Rank(j, Listed) \in Nat
                      /\ Rank(j, Listed)' \in {Rank(j, Listed), Rank(j, Listed) + 1}
    OBVIOUS
  <2>2. Rank(j, Listed)' = Cardinality({l \in Listed' : Before(l, j)'})
    BY DEF Rank
  <2>3. \A S \in SUBSET Id, U \in SUBSET Id : i \notin S /\ U = S \cup {i} /\ j \in S =>
           Cardinality({l \in U : Before(l, j)'}) \in {Rank(j, S), Rank(j, S) + 1}
    BY <1>1, <1>2, RankShift
  <2>4. QED
    BY <1>2, <1>3, <2>2, <2>3, RankBound
<1>6. Passed(k)' \subseteq Passed(k) /\ Passed(k) \in SUBSET Id
  <2>1. Passed(k)' = {j \in steady \ seen : Rank(j, Listed)' < k}
    BY <1>1, <1>2 DEF Passed
  <2>2. Passed(k) = {j \in steady \ seen : Rank(j, Listed) < k}
    BY DEF Passed
  <2>3. \A j \in steady \ seen : Rank(j, Listed)' < k => Rank(j, Listed) < k
    BY <1>2, <1>4, <1>5
  <2>4. QED
    BY <1>2, <2>1, <2>2, <2>3
<1> DEFINE O == {j \in Listed : Rank(j, Listed) = k - 1}
<1>7. Again(k)' \subseteq Again(k) \cup O /\ Again(k) \in SUBSET Id /\ O \in SUBSET Id
  <2>1. \A j \in seen \cap Listed' : j \in seen \cap Listed
    BY <1>3, <1>4
  <2>2. Again(k)' = {j \in seen \cap Listed' : Rank(j, Listed)' >= k}
    BY <1>1, <1>2 DEF Again
  <2>3. Again(k) = {j \in seen \cap Listed : Rank(j, Listed) >= k}
    BY DEF Again
  <2>4. \A j \in seen \cap Listed' : Rank(j, Listed)' >= k => Rank(j, Listed) >= k \/ Rank(j, Listed) = k - 1
    BY <1>2, <1>5, <2>1
  <2>5. Again(k)' \subseteq Again(k) \cup O
    BY <2>1, <2>2, <2>3, <2>4
  <2>6. QED
    BY <1>2, <1>3, <2>3, <2>5
<1>8. Cardinality(O) <= 1
  BY <1>2, <1>3, OneAtRank
<1>9. /\ Cardinality(Passed(k)') <= Cardinality(Passed(k))
      /\ Cardinality(Passed(k)) \in Nat /\ Cardinality(Passed(k)') \in Nat
  BY <1>6, Sizes
<1>10. /\ Cardinality(Again(k)') <= Cardinality(Again(k)) + 1
       /\ Cardinality(Again(k)) \in Nat /\ Cardinality(Again(k)') \in Nat
  <2> HIDE DEF O
  <2>1. Again(k) \cup O \in SUBSET Id /\ Again(k)' \in SUBSET (Again(k) \cup O) /\ Again(k)' \in SUBSET Id
    BY <1>7
  <2>2. /\ Cardinality(Again(k) \cup O) <= Cardinality(Again(k)) + Cardinality(O)
        /\ Cardinality(Again(k)') <= Cardinality(Again(k) \cup O)
        /\ Cardinality(Again(k) \cup O) \in Nat /\ Cardinality(O) \in Nat
        /\ Cardinality(Again(k)) \in Nat /\ Cardinality(Again(k)') \in Nat
    BY <1>7, <2>1, Sizes
  <2>3. QED
    BY <1>8, <2>2
<1>11. /\ added <= added' /\ removed <= removed'
       /\ (walking = "reading" => added' - added = 1)
  <2>1. removed' = removed /\ removed <= removed'
    BY <1>1, <1>2
  <2>2. CASE added' = added + 1
    BY <1>2, <2>1, <2>2
  <2>3. CASE added' = added
    BY <1>1, <1>2, <2>1, <2>3
  <2>4. QED
    BY <1>1, <2>2, <2>3
<1>12. walking = "reading" =>
         /\ Cardinality(Passed(Start(next))') <= Cardinality(Passed(Start(next))) + (removed' - removed)
         /\ Cardinality(Again(Start(next))') <= Cardinality(Again(Start(next))) + (added' - added)
  BY <1>1, <1>2, <1>9, <1>10, <1>11
<1>13. QED
  BY <1>1, <1>11, <1>12, JobsKept

\* A job that is retried moves the jobs after it back by one: one may be missed.
LEMMA JobsDelete ==
  ASSUME TypeInv, TypeInv', JobsInv, query.list = "jobs", NEW i \in Id, Delete(i)
  PROVE  JobsInv'
<1> DEFINE k == Start(next)
<1>1. /\ UNCHANGED <<query, view, seen, twice, straight, added>>
      /\ \A j \in Id \ {i} : row'[j] = row[j] /\ status'[j] = status[j]
      /\ status'[i] = "deleted" /\ (walking = "reading" => removed' = removed + 1)
      /\ removed' \in {removed, removed + 1} /\ steady' = steady \ {i}
  BY DEF Delete, TypeInv, TypeOK
<1>2. /\ Rows /\ Rows' /\ k \in Nat /\ query.entity = "all" /\ UNCHANGED <<next, walking>>
      /\ seen \in SUBSET Id /\ steady \in SUBSET Id /\ added \in Nat /\ removed \in Nat
  BY <1>1, CursorKinds DEF TypeInv, TypeOK, Rows, GoodCursor, Query, view
<1>3. Listed' = Listed \ {i} /\ Listed \in SUBSET Id /\ Listed' \in SUBSET Id
  BY <1>1, <1>2 DEF Listed
<1>4. steady \subseteq Listed
  BY DEF TypeInv, History
<1>5. \A j \in Listed \ {i} : /\ Rank(j, Listed) \in Nat
                              /\ Rank(j, Listed)' \in {Rank(j, Listed), Rank(j, Listed) - 1}
                              /\ Rank(j, Listed)' \in Nat
  <2> SUFFICES ASSUME NEW j \in Listed \ {i}
               PROVE  /\ Rank(j, Listed) \in Nat
                      /\ Rank(j, Listed)' \in {Rank(j, Listed), Rank(j, Listed) - 1}
                      /\ Rank(j, Listed)' \in Nat
    OBVIOUS
  <2>1. Rank(j, Listed)' = Cardinality({l \in Listed' : Before(l, j)'})
    BY DEF Rank
  <2>2. Rank(j, Listed) \in Nat
    BY <1>2, <1>3, RankBound
  <2>3. Rank(j, Listed)' \in Nat
    <3>1. {l \in Listed' : Before(l, j)'} \in SUBSET Id
      BY <1>3
    <3>2. QED
      BY <2>1, <3>1, Sizes
  <2>4. CASE i \in Listed
    <3>1. \A S \in SUBSET Id, T \in SUBSET Id : i \notin S /\ T = S \cup {i} /\ j \in S =>
             Cardinality({l \in S : Before(l, j)'}) \in {Rank(j, T), Rank(j, T) - 1}
      BY <1>1, <1>2, RankShift
    <3>2. i \notin Listed' /\ Listed = Listed' \cup {i} /\ j \in Listed'
      BY <1>3, <2>4
    <3>3. QED
      BY <1>3, <2>1, <2>2, <2>3, <3>1, <3>2
  <2>5. CASE i \notin Listed
    <3>1. Listed' = Listed /\ \A l \in Listed : Before(l, j)' <=> Before(l, j)
      BY <1>1, <1>3, <2>5 DEF Before, SortKey
    <3>2. {l \in Listed' : Before(l, j)'} = {l \in Listed : Before(l, j)}
      BY <3>1
    <3>3. QED
      BY <2>1, <2>2, <2>3, <3>2 DEF Rank
  <2>6. QED
    BY <2>4, <2>5
<1> DEFINE O == {j \in Listed : Rank(j, Listed) = k}
<1>6. Passed(k)' \subseteq Passed(k) \cup O /\ Passed(k) \in SUBSET Id /\ O \in SUBSET Id
  <2>1. Passed(k)' = {j \in (steady \ {i}) \ seen : Rank(j, Listed)' < k}
    BY <1>1, <1>2 DEF Passed
  <2>2. Passed(k) = {j \in steady \ seen : Rank(j, Listed) < k}
    BY DEF Passed
  <2>3. \A j \in (steady \ {i}) \ seen : Rank(j, Listed)' < k => Rank(j, Listed) < k \/ Rank(j, Listed) = k
    BY <1>2, <1>4, <1>5
  <2>4. Passed(k)' \subseteq Passed(k) \cup O
    BY <1>4, <2>1, <2>2, <2>3
  <2>5. QED
    BY <1>2, <1>3, <2>2, <2>4
<1>7. Again(k)' \subseteq Again(k) /\ Again(k) \in SUBSET Id
  <2>1. Again(k)' = {j \in seen \cap (Listed \ {i}) : Rank(j, Listed)' >= k}
    BY <1>1, <1>2, <1>3 DEF Again
  <2>2. Again(k) = {j \in seen \cap Listed : Rank(j, Listed) >= k}
    BY DEF Again
  <2>3. \A j \in Listed \ {i} : Rank(j, Listed)' >= k => Rank(j, Listed) >= k
    BY <1>2, <1>5
  <2>4. QED
    BY <1>2, <2>1, <2>2, <2>3
<1>8. Cardinality(O) <= 1
  BY <1>2, <1>3, OneAtRank
<1>9. /\ Cardinality(Again(k)') <= Cardinality(Again(k))
      /\ Cardinality(Again(k)) \in Nat /\ Cardinality(Again(k)') \in Nat
  BY <1>7, Sizes
<1>10. /\ Cardinality(Passed(k)') <= Cardinality(Passed(k)) + 1
       /\ Cardinality(Passed(k)) \in Nat /\ Cardinality(Passed(k)') \in Nat
  <2> HIDE DEF O
  <2>1. Passed(k) \cup O \in SUBSET Id /\ Passed(k)' \in SUBSET (Passed(k) \cup O) /\ Passed(k)' \in SUBSET Id
    BY <1>6
  <2>2. /\ Cardinality(Passed(k) \cup O) <= Cardinality(Passed(k)) + Cardinality(O)
        /\ Cardinality(Passed(k)') <= Cardinality(Passed(k) \cup O)
        /\ Cardinality(Passed(k) \cup O) \in Nat /\ Cardinality(O) \in Nat
        /\ Cardinality(Passed(k)) \in Nat /\ Cardinality(Passed(k)') \in Nat
    BY <1>6, <2>1, Sizes
  <2>3. QED
    BY <1>8, <2>2
<1>11. /\ added <= added' /\ removed <= removed' /\ steady' \subseteq steady
       /\ (walking = "reading" => removed' - removed = 1)
  <2>1. added' = added /\ added <= added' /\ steady' \subseteq steady
    BY <1>1, <1>2
  <2>2. CASE removed' = removed + 1
    BY <1>2, <2>1, <2>2
  <2>3. CASE removed' = removed
    BY <1>1, <1>2, <2>1, <2>3
  <2>4. QED
    BY <1>1, <2>2, <2>3
<1>12. walking = "reading" =>
         /\ Cardinality(Passed(Start(next))') <= Cardinality(Passed(Start(next))) + (removed' - removed)
         /\ Cardinality(Again(Start(next))') <= Cardinality(Again(Start(next))) + (added' - added)
  BY <1>1, <1>2, <1>9, <1>10, <1>11
<1>13. QED
  BY <1>1, <1>11, <1>12, JobsKept

\* No step misses or repeats a job without a removal or a failure to count.
LEMMA JobsStep == TypeInv /\ TypeInv' /\ JobsInv /\ [Next]_vars => JobsInv'
<1> SUFFICES ASSUME TypeInv, TypeInv', JobsInv, [Next]_vars, query'.list = "jobs", straight'
             PROVE  JobsInv'
  BY DEF JobsInv
<1>1. query' = query /\ query.list = "jobs"
  BY DEF Next, FirstPage, NextPage, PreviousPage, Refetch, Insert, Touch, Delete, Erase, Tick, vars
<1>2. /\ steady \subseteq Listed /\ Listed \in SUBSET Id /\ added \in Nat /\ removed \in Nat
      /\ seen \in SUBSET Id
  BY DEF TypeInv, TypeOK, History, Listed
<1>3. CASE FirstPage
  <2>1. /\ walking = "new" /\ Show(None) /\ steady' = Listed /\ UNCHANGED <<query, table>>
        /\ twice' = {} /\ seen = {} /\ twice = {} /\ UNCHANGED <<added, removed>>
    BY <1>3 DEF FirstPage, TypeInv, History
  <2>2. IndexCursor(None) /\ Start(None) = 0
    BY CursorKinds DEF IndexCursor
  <2>3. \A j \in Listed : Rank(j, Listed) \in Nat
    BY <1>2, RankBound DEF TypeInv, TypeOK, Rows
  <2>4. {j \in steady' \ seen : Rank(j, Listed) < Start(None)} = {} /\ Again(Start(None)) = {}
    BY <2>1, <2>2, <2>3 DEF Again
  <2>5. twice' = twice \cup (seen \cap page')
    BY <2>1
  <2>6. QED
    BY <1>1, <1>2, <2>1, <2>2, <2>4, <2>5, ShowCounts, Sizes
<1>4. CASE NextPage
  <2>1. /\ walking = "reading" /\ Show(next) /\ twice' = twice \cup (seen \cap page')
        /\ UNCHANGED <<query, table, straight, steady, added, removed>>
    BY <1>4 DEF NextPage
  <2>2. IndexCursor(next) /\ straight
    BY <1>1, <2>1 DEF TypeInv, GoodCursor
  <2>3. /\ Cardinality(Passed(Start(next))) <= removed
        /\ Cardinality(twice) + Cardinality(Again(Start(next))) <= added
    BY <1>1, <2>1, <2>2 DEF JobsInv
  <2>4. {j \in steady' \ seen : Rank(j, Listed) < Start(next)} = Passed(Start(next))
    BY <2>1 DEF Passed
  <2>5. QED
    BY <1>1, <1>2, <2>1, <2>2, <2>3, <2>4, ShowCounts
<1>5. CASE PreviousPage \/ Refetch
  BY <1>5 DEF PreviousPage, Refetch
<1>6. ASSUME NEW i \in Id, Insert(i) PROVE JobsInv'
  BY <1>1, <1>6, JobsInsert
<1>7. ASSUME NEW i \in Id, Touch(i) PROVE JobsInv'
  BY <1>1, <1>7 DEF Touch
<1>8. ASSUME NEW i \in Id, Delete(i) PROVE JobsInv'
  BY <1>1, <1>8, JobsDelete
<1>9. CASE Tick \/ UNCHANGED vars
  <2>1. UNCHANGED <<query, status, row, view, seen, twice, straight, steady, added, removed>>
    BY <1>9 DEF Tick, vars, table, history
  <2>2. \A k : Passed(k)' = Passed(k) /\ Again(k)' = Again(k)
    BY <2>1 DEF Passed, Again, Listed, Rank, Before, SortKey
  <2>3. next' = next /\ walking' = walking
    BY <2>1 DEF view
  <2>4. QED
    BY <2>1, <2>2, <2>3 DEF JobsInv, Passed, Again, Listed, Rank, Before, SortKey
<1>10. CASE Erase
  BY <1>1, <1>10 DEF Erase
<1>11. QED
  BY <1>3, <1>4, <1>5, <1>6, <1>7, <1>8, <1>9, <1>10 DEF Next

\* A walk through the dead-letter list to its end misses at most one job per
\* job removed meanwhile, and repeats at most one per job that failed.
THEOREM JobsOffByAsMany == Spec => []JobsOff
<1>1. Spec => []JobsInv
  BY TypeInvariant, JobsInit, JobsStep, PTL DEF Spec
<1>2. TypeInv /\ JobsInv => JobsOff
  <2> SUFFICES ASSUME TypeInv, JobsInv, query.list = "jobs", straight PROVE JobsOff
    BY DEF JobsOff
  <2>1. twice \in SUBSET Id /\ added \in Nat /\ Again(Start(next)) \in SUBSET Id
    BY DEF TypeInv, TypeOK, Again
  <2>2. Cardinality(twice) \in Nat /\ Cardinality(Again(Start(next))) \in Nat
    BY <2>1, Sizes
  <2>3. Cardinality(twice) <= added
    BY <2>1, <2>2 DEF JobsInv
  <2>4. QED
    BY <2>3 DEF JobsOff, JobsInv
<1>3. QED
  BY <1>1, <1>2, TypeInvariant, PTL

-----------------------------------------------------------------------------
(* The property catalogue. *)

Stage == {"idle", "fire", "calling", "copy", "fallback", "put"}

\* The breaker lets a probe through only when half-open.
CircuitInv ==
  /\ breaker \in {"closed", "open", "halfOpen"}
  /\ probe \in BOOLEAN /\ (probe => breaker = "halfOpen")

\* The probe is the only call of a half-open breaker.
ProbeInv == probe => \A p \in Proc : pc[p] # "calling"

WindowInv == fires \in 0..MaxFires /\ failures \in 0..MaxFires

\* A copy ages from the moment WordPress gave it; the list may be filled from
\* a copy, but from one that has not expired.  Neither holds an outage.
CopyInv ==
  /\ copy \in [{"properties", "property"} -> Entry]
  /\ \A k \in {"properties", "property"} :
       Live(copy[k]) => 0 <= copy[k].data /\ copy[k].data <= copy[k].age
ListInv ==
  /\ list \in Entry
  /\ Live(list) => 0 <= list.data /\ list.data < list.age + Expire

\* What is about to be copied is new; what is about to be listed has not expired.
CallsInv ==
  /\ pc \in [Proc -> Stage]
  /\ data \in [Proc -> Data]
  /\ \A p \in Proc : /\ pc[p] = "copy" => data[p] = 0
                     /\ pc[p] = "put" => 0 <= data[p] /\ data[p] < Expire

AnswerInv == answer \in Data /\ answer < 2 * Expire

CatalogueInv == CircuitInv /\ ProbeInv /\ WindowInv /\ CopyInv /\ ListInv /\ CallsInv /\ AnswerInv

\* Ages are numbers up to twice expireTtl.
LEMMA Ages ==
  /\ Expire \in Nat /\ Expire > 0 /\ Nothing = -1 /\ Old = 2 * Expire
  /\ \A d : d \in Data <=> d \in Int /\ -1 <= d /\ d <= 2 * Expire
  /\ \A p \in Proc : Key(p) \in {"properties", "property"}
BY CatalogueConstantsOK DEF Old, Nothing, Data, Key

\* An entry that is written, the missing entry and an entry that ages have the type.
LEMMA Entries ==
  /\ NoEntry \in Entry /\ ~Live(NoEntry)
  /\ \A d \in Data : [data |-> d, age |-> 0] \in Entry
  /\ \A e \in Entry : Aged(e) \in Entry
<1>1. /\ NoEntry \in Entry /\ ~Live(NoEntry)
      /\ \A d \in Data : [data |-> d, age |-> 0] \in Entry
  BY Ages DEF NoEntry, Entry, Live
<1>2. ASSUME NEW e \in Entry PROVE Aged(e) \in Entry
  <2> DEFINE d == IF e.data \in {Nothing, Old} THEN e.data ELSE e.data + 1
  <2>1. e.data \in Data /\ e.age \in 0..Expire
    BY DEF Entry
  <2>2. d \in Data
    BY <2>1, Ages
  <2>3. CASE e.age + 1 >= Expire
    BY <1>1, <2>3 DEF Aged
  <2>4. CASE ~(e.age + 1 >= Expire)
    <3>1. e.age + 1 \in 0..Expire
      BY <2>1, <2>4, Ages
    <3>2. Aged(e) = [data |-> d, age |-> e.age + 1]
      BY <2>4 DEF Aged
    <3>3. QED
      BY <2>2, <3>1, <3>2 DEF Entry
  <2>5. QED
    BY <2>3, <2>4
<1>3. QED
  BY <1>1, <1>2

\* An entry grows older by one tick with its data, until it expires.
LEMMA AgedData ==
  ASSUME NEW e \in Entry, Live(Aged(e)), Live(e) => 0 <= e.data
  PROVE  Live(e) /\ 0 <= Aged(e).data /\ Aged(e).age = e.age + 1 /\ Aged(e).data <= e.data + 1
<1>1. e.data \in Data /\ e.age \in 0..Expire
  BY DEF Entry
<1>2. ~(e.age + 1 >= Expire)
  BY Entries DEF Aged
<1>3. Aged(e) = [data |-> IF e.data \in {Nothing, Old} THEN e.data ELSE e.data + 1, age |-> e.age + 1]
  BY <1>2 DEF Aged
<1>4. Live(e)
  BY <1>1, <1>2, Ages DEF Live
<1>5. QED
  BY <1>1, <1>3, <1>4, Ages

\* A step that sends no call to WordPress.
NoNewCall == \A p \in Proc : pc'[p] = "calling" => pc[p] = "calling"

\* A call that moves on keeps what is known of the calls.
LEMMA MovesOn ==
  ASSUME CallsInv, NEW p \in Proc, NEW stage \in Stage, NEW d \in Data, Goto(p, stage, d),
         stage = "copy" => d = 0,
         stage = "put" => 0 <= d /\ d < Expire
  PROVE  CallsInv' /\ (stage # "calling" => NoNewCall)
<1>1. /\ pc' = [pc EXCEPT ![p] = stage] /\ data' = [data EXCEPT ![p] = d]
      /\ pc \in [Proc -> Stage] /\ data \in [Proc -> Data]
  BY DEF Goto, CallsInv
<1>2. pc' \in [Proc -> Stage] /\ data' \in [Proc -> Data]
  BY <1>1
<1>3. \A q \in Proc : /\ pc'[q] = (IF q = p THEN stage ELSE pc[q])
                      /\ data'[q] = (IF q = p THEN d ELSE data[q])
  BY <1>1
<1>4. QED
  BY <1>2, <1>3 DEF CallsInv, NoNewCall

\* The two ways a call has of ending or of handing its data on.
LEMMA Ends ==
  ASSUME CallsInv, AnswerInv, NEW p \in Proc, NEW d \in Data, d < Expire, Finish(p, d)
  PROVE  CallsInv' /\ AnswerInv' /\ NoNewCall
<1>1. Goto(p, "idle", Nothing) /\ answer' \in {d, answer}
  BY DEF Finish
<1>2. Nothing \in Data /\ "idle" \in Stage
  BY Ages DEF Stage
<1>3. CallsInv' /\ NoNewCall
  BY <1>1, <1>2, MovesOn
<1>4. AnswerInv'
  BY <1>1, Ages DEF AnswerInv
<1>5. QED
  BY <1>3, <1>4

\* A refresh that fails, one that delivers and an error of the breaker keep what is
\* known of calls and answers.
LEMMA Fails ==
  ASSUME CallsInv, AnswerInv, NEW p \in Proc, RefreshFails(p)
  PROVE  CallsInv' /\ AnswerInv' /\ NoNewCall
<1>1. Finish(p, Nothing) /\ Nothing \in Data /\ Nothing < Expire
  BY Ages DEF RefreshFails
<1>2. QED
  BY <1>1, Ends

\* Fresh data go to the list cache or to the caller.
LEMMA Delivers ==
  ASSUME CallsInv, AnswerInv, NEW p \in Proc, NEW d \in Data, 0 <= d, d < Expire, Deliver(p, d)
  PROVE  CallsInv' /\ AnswerInv' /\ NoNewCall
<1>1. CASE Key(p) = "properties"
  <2>1. Goto(p, "put", d) /\ answer' = answer /\ "put" \in Stage
    BY <1>1 DEF Deliver, Stage
  <2>2. QED
    BY <2>1, MovesOn DEF AnswerInv
<1>2. CASE Key(p) # "properties"
  BY <1>2, Ends DEF Deliver
<1>3. QED
  BY <1>1, <1>2

\* An error ends in a copy, or in nothing.
LEMMA Catches ==
  ASSUME CallsInv, AnswerInv, NEW p \in Proc, NEW state, Caught(p, state)
  PROVE  CallsInv' /\ AnswerInv' /\ NoNewCall
<1>1. CASE state = "open"
  <2>1. Goto(p, "fallback", Nothing) /\ answer' = answer /\ "fallback" \in Stage /\ Nothing \in Data
    BY <1>1, Ages DEF Caught, Stage
  <2>2. QED
    BY <2>1, MovesOn DEF AnswerInv
<1>2. CASE state # "open"
  BY <1>2, Fails DEF Caught
<1>3. QED
  BY <1>1, <1>2

\* Initially nothing is cached.
LEMMA CatalogueStart == CatalogueInit => CatalogueInv
<1> SUFFICES ASSUME CatalogueInit PROVE CatalogueInv
  OBVIOUS
<1>1. CircuitInv /\ ProbeInv /\ WindowInv
  <2>1. CircuitInv /\ ProbeInv
    BY DEF CatalogueInit, CircuitInv, ProbeInv
  <2>2. WindowInv
    BY CatalogueConstantsOK DEF CatalogueInit, WindowInv
  <2>3. QED
    BY <2>1, <2>2
<1>2. CopyInv /\ ListInv
  BY Entries DEF CatalogueInit, CopyInv, ListInv
<1>3. CallsInv /\ AnswerInv
  BY Ages DEF CatalogueInit, CallsInv, AnswerInv, Stage
<1>4. QED
  BY <1>1, <1>2, <1>3 DEF CatalogueInv

\* A call lets no probe escape, copies nothing old and lists nothing expired.
LEMMA CallKeeps ==
  ASSUME CatalogueInv, NEW p \in Proc, Call(p)
  PROVE  CatalogueInv'
<1> USE DEF CatalogueInv
<1>1. /\ fires \in 0..MaxFires /\ failures \in 0..MaxFires /\ MaxFires \in Nat
      /\ Key(p) \in {"properties", "property"} /\ data[p] \in Data
  BY CatalogueConstantsOK, Ages DEF WindowInv, CallsInv
<1>2. CASE Fire(p)
  <2>1. CallsInv' /\ AnswerInv'
    <3>1. CASE breaker = "closed" \/ probe
      <4>1. Goto(p, "calling", Nothing) /\ answer' = answer /\ "calling" \in Stage /\ Nothing \in Data
        BY <1>2, <3>1, Ages DEF Fire, Stage
      <4>2. QED
        BY <4>1, MovesOn DEF AnswerInv
    <3>2. CASE ~(breaker = "closed" \/ probe)
      BY <1>2, <3>2, Catches DEF Fire
    <3>3. QED
      BY <3>1, <3>2
  <2>2. CircuitInv' /\ ProbeInv'
    <3>1. breaker' = breaker /\ probe' = (IF breaker = "closed" \/ probe THEN FALSE ELSE probe)
      BY <1>2 DEF Fire
    <3>2. ~probe'
      BY <3>1, <1>2 DEF CircuitInv
    <3>3. QED
      BY <3>1, <3>2 DEF CircuitInv, ProbeInv
  <2>3. WindowInv'
    BY <1>1, <1>2 DEF Fire, WindowInv
  <2>4. CopyInv' /\ ListInv'
    BY <1>2 DEF Fire, caches, CopyInv, ListInv
  <2>5. QED
    BY <2>1, <2>2, <2>3, <2>4
<1>3. CASE CallSucceeds(p)
  <2>1. Goto(p, "copy", 0) /\ answer' = answer /\ "copy" \in Stage /\ 0 \in Data
    BY <1>3, Ages DEF CallSucceeds, Stage
  <2>2. CallsInv' /\ AnswerInv' /\ NoNewCall
    BY <2>1, MovesOn DEF AnswerInv
  <2>3. CopyInv' /\ ListInv'
    BY <1>3 DEF CallSucceeds, caches, CopyInv, ListInv
  <2>4. CircuitInv' /\ ProbeInv' /\ WindowInv'
    <3>1. ~probe /\ probe' = probe /\ breaker' \in {breaker, "closed"} /\ UNCHANGED <<fires, failures>>
      BY <1>3 DEF CallSucceeds, ProbeInv
    <3>2. QED
      BY <3>1 DEF CircuitInv, ProbeInv, WindowInv
  <2>5. QED
    BY <2>2, <2>3, <2>4
<1>4. CASE CallFails(p)
  <2>1. Caught(p, breaker') /\ UNCHANGED <<probe, fires, caches>>
    BY <1>4 DEF CallFails
  <2>2. CallsInv' /\ AnswerInv'
    BY <2>1, Catches
  <2>3. CircuitInv' /\ ProbeInv'
    <3>1. ~probe /\ probe' = probe /\ breaker' \in {breaker, "open"}
      BY <1>4 DEF CallFails, Trips, ProbeInv
    <3>2. QED
      BY <3>1 DEF CircuitInv, ProbeInv
  <2>4. WindowInv'
    BY <1>1, <1>4 DEF CallFails, WindowInv
  <2>5. QED
    BY <2>1, <2>2, <2>3, <2>4 DEF caches, CopyInv, ListInv
<1>5. CASE StoreCopy(p)
  <2>1. data[p] = 0 /\ Deliver(p, data[p]) /\ UNCHANGED <<circuit, list>>
    BY <1>5 DEF StoreCopy, CallsInv
  <2>2. CallsInv' /\ AnswerInv' /\ NoNewCall
    BY <1>1, <2>1, Delivers, Ages
  <2>3. CopyInv'
    <3> DEFINE e == [data |-> data[p], age |-> 0]
    <3>1. copy' = copy \/ copy' = [copy EXCEPT ![Key(p)] = e]
      BY <1>5 DEF StoreCopy
    <3>2. e \in Entry /\ e.data = 0 /\ e.age = 0
      BY <1>1, <2>1, Entries
    <3>3. QED
      BY <1>1, <3>1, <3>2 DEF CopyInv
  <2>4. QED
    BY <2>1, <2>2, <2>3 DEF circuit, CircuitInv, ProbeInv, WindowInv, NoNewCall, ListInv
<1>6. CASE Fallback(p)
  <2>1. CallsInv' /\ AnswerInv' /\ NoNewCall
    <3>1. CASE Live(copy[Key(p)]) /\ Deliver(p, copy[Key(p)].data)
      <4>1. /\ copy[Key(p)].data \in Data /\ copy[Key(p)].age \in 0..Expire
            /\ 0 <= copy[Key(p)].data /\ copy[Key(p)].data <= copy[Key(p)].age
        BY <1>1, <3>1 DEF CopyInv, Entry
      <4>2. copy[Key(p)].data < Expire
        BY <3>1, <4>1, Ages DEF Live
      <4>3. QED
        BY <3>1, <4>1, <4>2, Delivers
    <3>2. CASE RefreshFails(p)
      BY <3>2, Fails
    <3>3. QED
      BY <1>6, <3>1, <3>2 DEF Fallback
  <2>2. QED
    BY <1>6, <2>1 DEF Fallback, circuit, caches, CircuitInv, ProbeInv, WindowInv, NoNewCall, CopyInv, ListInv
<1>7. CASE Put(p)
  <2>1. /\ 0 <= data[p] /\ data[p] < Expire /\ Finish(p, data[p]) /\ UNCHANGED <<circuit, copy>>
        /\ list' \in {[data |-> data[p], age |-> 0], list}
    BY <1>7 DEF Put, CallsInv
  <2>2. CallsInv' /\ AnswerInv' /\ NoNewCall
    BY <1>1, <2>1, Ends
  <2>3. ListInv'
    <3> DEFINE e == [data |-> data[p], age |-> 0]
    <3>1. e \in Entry /\ e.data = data[p] /\ e.age = 0
      BY <1>1, Entries
    <3>2. 0 <= e.data /\ e.data < e.age + Expire
      BY <1>1, <2>1, <3>1, Ages
    <3>3. list' = e \/ list' = list
      BY <2>1
    <3> HIDE DEF e
    <3>4. QED
      BY <3>1, <3>2, <3>3 DEF ListInv
  <2>4. QED
    BY <2>1, <2>2, <2>3 DEF circuit, CircuitInv, ProbeInv, WindowInv, NoNewCall, CopyInv
<1>8. QED
  BY <1>2, <1>3, <1>4, <1>5, <1>6, <1>7 DEF Call

\* A request that comes in is answered from the entry or starts a call.
LEMMA RequestKeeps ==
  ASSUME CatalogueInv, NEW r,
         (r \in ListRequest /\ FindProperties(r)) \/ (r \in DetailRequest /\ FindProperty(r))
  PROVE  CatalogueInv'
<1> USE DEF CatalogueInv
<1>1. /\ <<r, "front">> \in Proc /\ (r \in ListRequest => <<r, "back">> \in Proc)
      /\ "fire" \in Stage /\ Nothing \in Data
  BY Ages DEF Proc, Request, Stage
<1>2. UNCHANGED <<circuit, caches>>
  BY DEF FindProperties, FindProperty
<1>3. CircuitInv' /\ WindowInv' /\ CopyInv' /\ ListInv'
  BY <1>2 DEF circuit, caches, CircuitInv, WindowInv, CopyInv, ListInv
<1>4. NoNewCall => ProbeInv'
  BY <1>2 DEF circuit, ProbeInv, NoNewCall
<1>5. CASE Goto(<<r, "front">>, "fire", Nothing) /\ answer' = answer
  BY <1>1, <1>3, <1>4, <1>5, MovesOn DEF AnswerInv
<1>6. CASE r \in ListRequest /\ Live(list) /\ answer' = list.data /\ FindProperties(r)
  <2>1. AnswerInv'
    <3>1. list.data \in Data /\ list.age \in 0..Expire /\ list.data < list.age + Expire
      BY <1>6 DEF ListInv, Entry
    <3>2. QED
      BY <1>6, <3>1, Ages DEF AnswerInv, Live
  <2>2. CASE Goto(<<r, "back">>, "fire", Nothing)
    BY <1>1, <1>3, <1>4, <1>6, <2>1, <2>2, MovesOn
  <2>3. CASE UNCHANGED requests
    BY <1>3, <1>4, <2>1, <2>3 DEF requests, CallsInv, NoNewCall
  <2>4. CASE Goto(<<r, "front">>, "fire", Nothing)
    BY <1>1, <1>3, <1>4, <2>1, <2>4, MovesOn
  <2>5. QED
    BY <1>6, <2>2, <2>3, <2>4 DEF FindProperties
<1>7. QED
  BY <1>5, <1>6 DEF FindProperties, FindProperty

\* Timers and the clock keep it as well: data and the entry that holds it age together.
LEMMA CatalogueStep == CatalogueInv /\ [CatalogueNext]_catalogueVars => CatalogueInv'
<1> SUFFICES ASSUME CatalogueInv, [CatalogueNext]_catalogueVars PROVE CatalogueInv'
  OBVIOUS
<1> USE DEF CatalogueInv
<1>1. ASSUME NEW r \in ListRequest, FindProperties(r) PROVE CatalogueInv'
  BY <1>1, RequestKeeps
<1>2. ASSUME NEW r \in DetailRequest, FindProperty(r) PROVE CatalogueInv'
  BY <1>2, RequestKeeps
<1>3. ASSUME NEW p \in Proc, Call(p) PROVE CatalogueInv'
  BY <1>3, CallKeeps
<1>4. CASE ResetTimeoutPasses
  BY <1>4 DEF ResetTimeoutPasses, caches, requests, CircuitInv, ProbeInv, WindowInv, CopyInv, ListInv, CallsInv, AnswerInv
<1>5. CASE WindowRolls
  <2>1. fires' \in 0..fires /\ failures' \in 0..failures
    BY <1>5 DEF WindowRolls
  <2>2. WindowInv'
    BY <2>1, CatalogueConstantsOK DEF WindowInv
  <2>3. QED
    BY <1>5, <2>2 DEF WindowRolls, caches, requests, CircuitInv, ProbeInv, CopyInv, ListInv, CallsInv, AnswerInv
<1>6. CASE TimePasses
  <2>1. /\ list' = Aged(list) /\ UNCHANGED <<circuit, requests, answer>>
        /\ copy' = [k \in {"properties", "property"} |-> Aged(copy[k])]
    BY <1>6 DEF TimePasses, CopyInv
  <2>2. CopyInv'
    <3>1. copy' \in [{"properties", "property"} -> Entry]
      BY <2>1, Entries DEF CopyInv
    <3>2. ASSUME NEW k \in {"properties", "property"}, Live(Aged(copy[k]))
          PROVE  0 <= Aged(copy[k]).data /\ Aged(copy[k]).data <= Aged(copy[k]).age
      <4>1. /\ copy[k] \in Entry /\ Aged(copy[k]) \in Entry
            /\ Live(copy[k]) => 0 <= copy[k].data /\ copy[k].data <= copy[k].age
        BY Entries DEF CopyInv
      <4>2. /\ Live(copy[k]) /\ 0 <= Aged(copy[k]).data
            /\ Aged(copy[k]).age = copy[k].age + 1 /\ Aged(copy[k]).data <= copy[k].data + 1
        BY <3>2, <4>1, AgedData
      <4>3. copy[k].data \in Int /\ copy[k].age \in Int /\ Aged(copy[k]).data \in Int
        BY <4>1, Ages DEF Entry
      <4>4. QED
        BY <4>1, <4>2, <4>3
    <3>3. \A k \in {"properties", "property"} : copy'[k] = Aged(copy[k])
      BY <2>1
    <3>4. QED
      BY <3>1, <3>2, <3>3 DEF CopyInv
  <2>3. ListInv'
    <3>1. ASSUME Live(Aged(list))
          PROVE  0 <= Aged(list).data /\ Aged(list).data < Aged(list).age + Expire
      <4>1. /\ list \in Entry /\ Aged(list) \in Entry
            /\ Live(list) => 0 <= list.data /\ list.data < list.age + Expire
        BY Entries DEF ListInv
      <4>2. /\ Live(list) /\ 0 <= Aged(list).data
            /\ Aged(list).age = list.age + 1 /\ Aged(list).data <= list.data + 1
        BY <3>1, <4>1, AgedData
      <4>3. list.data \in Int /\ list.age \in Int /\ Aged(list).data \in Int
        BY <4>1, Ages DEF Entry
      <4>4. QED
        BY <4>1, <4>2, <4>3, Ages
    <3>2. QED
      BY <2>1, <3>1, Entries DEF ListInv
  <2>4. QED
    BY <2>1, <2>2, <2>3 DEF circuit, requests, CircuitInv, ProbeInv, WindowInv, CallsInv, AnswerInv
<1>7. CASE UNCHANGED catalogueVars
  BY <1>7 DEF catalogueVars, circuit, caches, requests, CircuitInv, ProbeInv, WindowInv, CopyInv, ListInv, CallsInv, AnswerInv
<1>8. QED
  BY <1>1, <1>2, <1>3, <1>4, <1>5, <1>6, <1>7 DEF CatalogueNext

\* Breaker, caches and requests agree in every state.
LEMMA CatalogueInvariant == CatalogueSpec => []CatalogueInv
BY CatalogueStart, CatalogueStep, PTL DEF CatalogueSpec

\* Every variable of the catalogue has its type; in particular a permission to
\* probe never outlives the half-open state of the breaker.
THEOREM CatalogueTypeCorrect == CatalogueSpec => []CatalogueTypeOK
<1>1. CatalogueInv => CatalogueTypeOK
  BY DEF CatalogueInv, CatalogueTypeOK, CircuitInv, WindowInv, CopyInv, ListInv, CallsInv, AnswerInv, Stage
<1>2. QED
  BY <1>1, CatalogueInvariant, PTL

\* Two caches filled one from the other, whatever their sizes and however many
\* requests and failures there are, never answer with data twice as old as expireTtl.
THEOREM NothingOlderIsServed == CatalogueSpec => []ServedWithinTwiceExpire
<1>1. CatalogueInv => ServedWithinTwiceExpire
  BY DEF CatalogueInv, AnswerInv, ServedWithinTwiceExpire
<1>2. QED
  BY <1>1, CatalogueInvariant, PTL

\* The empty list that answers a failed request is never what a cache holds.
THEOREM NoOutageInCache == CatalogueSpec => []OutageIsNotCached
<1>1. CatalogueInv => OutageIsNotCached
  BY Ages DEF CatalogueInv, ListInv, OutageIsNotCached
<1>2. QED
  BY <1>1, CatalogueInvariant, PTL
=============================================================================
