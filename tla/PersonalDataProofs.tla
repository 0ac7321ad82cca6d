------------------------- MODULE PersonalDataProofs -------------------------
(***************************************************************************)
(* Erasure is final, what still names the person is an update that crossed *)
(* it, and the audit log follows the rows, for any number of enquiries and *)
(* of updates.                                                             *)
(***************************************************************************)
EXTENDS PersonalData, FiniteSetTheorems, TLAPS

-----------------------------------------------------------------------------
(* Types. *)

Created == \A e \in Enquiry : create[e] = "unsent" <=> row[e] = Absent
ReadsExist ==
  \A u \in Update : update[u].stage \in {"read", "committed"} =>
                      update[u].enquiry \in Enquiry /\ row[update[u].enquiry] # Absent

\* The types of all variables but the rows and the audit log.
RestOK ==
  /\ payload \in [Enquiry -> {"none", "early", "late", "null"}]
  /\ cached \in [Enquiry -> Name]
  /\ response \in [Enquiry -> BOOLEAN]
  /\ create \in [Enquiry -> {"unsent", "response", "cache", "done"}]
  /\ update \in [Update -> UpdateRecord]
  /\ fetched \in [Enquiry -> Name]

TypeInv == TypeOK /\ Created /\ ReadsExist

\* Every initial state has the types.
LEMMA TypeInit == Init => TypeInv
<1> SUFFICES ASSUME Init PROVE TypeInv
  OBVIOUS
<1>1. <<>> \in Seq(Record)
  OBVIOUS
<1>2. TypeOK
  BY <1>1 DEF Init, TypeOK, Name, NoUpdate, UpdateRecord
<1>3. Created /\ ReadsExist
  BY DEF Init, Created, ReadsExist, NoUpdate
<1>4. QED
  BY <1>2, <1>3 DEF TypeInv

\* An absent row is no row.
LEMMA Rows ==
  /\ Absent \notin Row /\ Absent.name = "absent"
  /\ \A r \in Row : /\ r.name \in {"personal", "redacted"} /\ r.status \in Status
                    /\ r.name \in Name
  /\ \A name \in {"personal", "redacted"}, status \in Status :
       LET r == [name |-> name, status |-> status]
       IN  r \in Row /\ r.name = name /\ r.status = status
BY DEF Absent, Row, Status, Name

\* A record that is appended is the last one.
LEMMA AppendLast ==
  ASSUME NEW s \in Seq(Record), NEW r \in Record
  PROVE  /\ Append(s, r) \in Seq(Record) /\ Append(s, r) # <<>>
         /\ Last(Append(s, r)) = r
BY DEF Last

\* The records of an erased enquiry are as many as before, and name nobody.
LEMMA ClearedRecords ==
  ASSUME NEW s \in Seq(Record)
  PROVE  /\ Cleared(s) \in Seq(Record) /\ (Cleared(s) = <<>> <=> s = <<>>)
         /\ s # <<>> => Last(Cleared(s)).after = "null"
<1> DEFINE null == [name |-> "null", after |-> "null"]
<1>1. /\ s \in [1..Len(s) -> Record] /\ Len(s) \in Nat /\ DOMAIN s = 1..Len(s)
  OBVIOUS
<1>2. null \in Record /\ null.after = "null"
  BY DEF Record
<1>3. /\ Cleared(s) \in [1..Len(s) -> Record]
      /\ \A i \in 1..Len(s) : Cleared(s)[i] = null
  BY <1>1, <1>2 DEF Cleared
<1>4. Cleared(s) \in Seq(Record) /\ Len(Cleared(s)) = Len(s)
  BY <1>1, <1>3
<1>5. s # <<>> => Len(s) \in 1..Len(s)
  BY <1>1
<1>6. QED
  BY <1>2, <1>3, <1>4, <1>5 DEF Last

-----------------------------------------------------------------------------
(* What a step does to the rows and to the audit log. *)

\* The last record has the status, but for erased and archived enquiries.
Told(e) == row[e] # Absent => Last(audit[e]).after \in {row[e].status, "null"} \/ row[e].status = "ARCHIVED"

\* A step that leaves row and audit log of e alone, creates the enquiry,
\* updates it, erases it or archives it.
RowStep(e) ==
  \/ row'[e] = row[e] /\ audit'[e] = audit[e]
  \/ /\ row[e] = Absent /\ row'[e] \in Row
     /\ \E r \in Record : audit'[e] = <<r>> /\ r.after = row'[e].status
  \/ /\ row[e] \in Row /\ row'[e] \in Row /\ row'[e].name = row[e].name
     /\ \E r \in Record : audit'[e] = Append(audit[e], r) /\ r.after = row'[e].status
  \/ /\ row[e] \in Row /\ row'[e] \in Row /\ row'[e].name = "redacted"
     /\ row'[e].status = row[e].status /\ audit'[e] = Cleared(audit[e])
  \/ /\ row[e] \in Row /\ row'[e] \in Row /\ row'[e].name = row[e].name
     /\ row'[e].status = "ARCHIVED" /\ audit'[e] = audit[e]

\* Every step is one of these to every enquiry.
LEMMA RowSteps ==
  ASSUME TypeInv, [Next]_vars, NEW e \in Enquiry
  PROVE  RowStep(e)
<1> USE DEF TypeInv, TypeOK
<1>1. ASSUME NEW f \in Enquiry, CreateInTransaction(f) PROVE RowStep(e)
  <2> DEFINE r == [name |-> "personal", after |-> "PENDING"]
             new == [name |-> "personal", status |-> "PENDING"]
  <2>1. r \in Record /\ r.after = "PENDING" /\ new \in Row /\ new.status = "PENDING"
    BY DEF Record, Row, Status
  <2>2. row[f] = Absent
    BY <1>1 DEF CreateInTransaction, Created
  <2>3. row' = [row EXCEPT ![f] = new] /\ audit' = [audit EXCEPT ![f] = <<r>>]
    BY <1>1 DEF CreateInTransaction
  <2>4. CASE e = f
    <3>1. row'[e] = new /\ audit'[e] = <<r>>
      BY <2>3, <2>4
    <3>2. QED
      BY <2>1, <2>2, <2>4, <3>1 DEF RowStep
  <2>5. CASE e # f
    BY <2>3, <2>5 DEF RowStep
  <2>6. QED
    BY <2>4, <2>5
<1>2. ASSUME NEW u \in Update, NEW status \in Status, CommitUpdate(u, status) PROVE RowStep(e)
  <2> DEFINE f == update[u].enquiry
             r == [name |-> IF update[u].read = "personal" THEN "personal" ELSE "null",
                   after |-> status]
  <2>1. f \in Enquiry /\ row[f] \in Row
    BY <1>2 DEF CommitUpdate, ReadsExist
  <2>2. r \in Record /\ r.after = status
    BY DEF Record
  <2>3. row' = [row EXCEPT ![f] = [name |-> row[f].name, status |-> status]]
        /\ audit' = [audit EXCEPT ![f] = Append(@, r)]
    BY <1>2 DEF CommitUpdate, Updated, Logged
  <2>4. CASE e = f
    <3>1. row'[e] = [name |-> row[e].name, status |-> status] /\ audit'[e] = Append(audit[e], r)
      BY <2>1, <2>3, <2>4
    <3>2. row'[e] \in Row /\ row'[e].name = row[e].name /\ row'[e].status = status
      BY <2>1, <2>4, <3>1, Rows
    <3>3. QED
      BY <2>1, <2>2, <2>4, <3>1, <3>2 DEF RowStep
  <2>5. CASE e # f
    BY <2>1, <2>3, <2>5 DEF RowStep
  <2>6. QED
    BY <2>4, <2>5
<1>3. CASE EraseData
  <2>1. row'[e] = IF row[e].name = "personal" THEN [name |-> "redacted", status |-> row[e].status] ELSE row[e]
    BY <1>3 DEF EraseData
  <2>2. audit'[e] = IF row'[e].name = "redacted" THEN Cleared(audit[e]) ELSE audit[e]
    BY <1>3 DEF EraseData, Affected
  <2>3. CASE row[e] = Absent
    BY <2>1, <2>2, <2>3 DEF RowStep, Absent
  <2>4. CASE row[e] \in Row
    BY <2>1, <2>2, <2>4, Rows DEF RowStep
  <2>5. QED
    BY <2>3, <2>4
<1>4. ASSUME NEW old \in SUBSET Enquiry, ArchiveOldEnquiries(old) PROVE RowStep(e)
  <2>1. /\ row'[e] = IF e \in old /\ row[e] # Absent THEN [name |-> row[e].name, status |-> "ARCHIVED"] ELSE row[e]
        /\ audit' = audit
    BY <1>4 DEF ArchiveOldEnquiries
  <2>2. CASE e \in old /\ row[e] # Absent
    <3>1. row[e] \in Row /\ "ARCHIVED" \in Status
      BY <2>2 DEF Status
    <3>2. row'[e] \in Row /\ row'[e].name = row[e].name /\ row'[e].status = "ARCHIVED"
      BY <2>1, <2>2, <3>1, Rows
    <3>3. QED
      BY <2>1, <3>1, <3>2 DEF RowStep
  <2>3. CASE ~(e \in old /\ row[e] # Absent)
    BY <2>1, <2>3 DEF RowStep
  <2>4. QED
    BY <2>2, <2>3
<1>5. ASSUME UNCHANGED <<row, audit>> PROVE RowStep(e)
  BY <1>5 DEF RowStep
<1>6. QED
  BY <1>1, <1>2, <1>3, <1>4, <1>5 DEF Next, vars, Creation, StoreIdempotencyResponse,
     OnEnquiryCreated, ReceiveEvent, DeleteOldWebhookEvents, Fetch, WriteFetched, CacheExpires,
     ResponseExpires, UpdateGoesOn, OnEnquiryUpdated, FindForUpdate, Crash

\* No step leaves the types.
LEMMA TypeStep == TypeInv /\ [Next]_vars => TypeInv'
<1> SUFFICES ASSUME TypeInv, [Next]_vars PROVE TypeInv'
  OBVIOUS
<1>1. \A e \in Enquiry :
        /\ row'[e] \in Row \cup {Absent} /\ audit'[e] \in Seq(Record)
        /\ audit'[e] = <<>> <=> row'[e] = Absent
        /\ row[e] # Absent => row'[e] # Absent
  <2> SUFFICES ASSUME NEW e \in Enquiry
               PROVE  /\ row'[e] \in Row \cup {Absent} /\ audit'[e] \in Seq(Record)
                      /\ audit'[e] = <<>> <=> row'[e] = Absent
                      /\ row[e] # Absent => row'[e] # Absent
    OBVIOUS
  <2>1. RowStep(e)
    BY RowSteps
  <2>2. /\ row[e] \in Row \cup {Absent} /\ audit[e] \in Seq(Record)
        /\ audit[e] = <<>> <=> row[e] = Absent
    BY DEF TypeInv, TypeOK
  <2>3. \A r \in Record : <<r>> \in Seq(Record) /\ <<r>> # <<>>
    OBVIOUS
  <2>4. /\ \A r \in Record : Append(audit[e], r) \in Seq(Record) /\ Append(audit[e], r) # <<>>
        /\ Cleared(audit[e]) \in Seq(Record) /\ (Cleared(audit[e]) = <<>> <=> audit[e] = <<>>)
    BY <2>2, AppendLast, ClearedRecords
  <2>5. Absent \notin Row
    BY Rows
  <2>6. QED
    BY <2>1, <2>2, <2>3, <2>4, <2>5 DEF RowStep
<1>2. /\ row' \in [Enquiry -> Row \cup {Absent}]
      /\ audit' \in [Enquiry -> Seq(Record)]
      /\ \A e \in Enquiry : audit'[e] = <<>> <=> row'[e] = Absent
  <2>1. /\ row' = [e \in Enquiry |-> row'[e]]
        /\ audit' = [e \in Enquiry |-> audit'[e]]
    BY DEF TypeInv, TypeOK, Next, vars, CreateInTransaction, Creation, StoreIdempotencyResponse,
       OnEnquiryCreated, ReceiveEvent, DeleteOldWebhookEvents, Fetch, WriteFetched, CacheExpires,
       ResponseExpires, UpdateGoesOn, CommitUpdate, Logged, OnEnquiryUpdated, FindForUpdate, EraseData,
       Crash, ArchiveOldEnquiries
  <2>2. QED
    BY <1>1, <2>1
<1>3. ASSUME RestOK', Created', ReadsExist' PROVE TypeInv'
  BY <1>2, <1>3 DEF TypeInv, TypeOK, RestOK
<1>4. RestOK /\ Created /\ ReadsExist
  BY DEF TypeInv, TypeOK, RestOK
<1>5. ASSUME UNCHANGED update PROVE ReadsExist'
  BY <1>1, <1>4, <1>5 DEF ReadsExist
<1>6. ASSUME NEW e \in Enquiry, CreateInTransaction(e) PROVE TypeInv'
  <2>1. /\ create' = [create EXCEPT ![e] = "response"]
        /\ row' = [row EXCEPT ![e] = [name |-> "personal", status |-> "PENDING"]]
        /\ UNCHANGED <<payload, cached, response, update, fetched>>
    BY <1>6 DEF CreateInTransaction
  <2>2. RestOK'
    BY <1>4, <2>1 DEF RestOK
  <2>3. [name |-> "personal", status |-> "PENDING"] \in Row
    BY DEF Row, Status
  <2>4. Created'
    BY <1>4, <2>1, <2>3, Rows DEF Created, RestOK, TypeInv, TypeOK
  <2>5. QED
    BY <1>3, <1>5, <2>1, <2>2, <2>4
<1>7. ASSUME NEW e \in Enquiry, Creation(e) PROVE TypeInv'
  <2>1. UNCHANGED <<row, payload, update, fetched>>
    BY <1>7 DEF Creation, StoreIdempotencyResponse, OnEnquiryCreated
  <2>2. PICK stage \in {"cache", "done"} :
          create[e] # "unsent" /\ create' = [create EXCEPT ![e] = stage]
    BY <1>7 DEF Creation, StoreIdempotencyResponse, OnEnquiryCreated
  <2>3. cached' \in [Enquiry -> Name]
    BY <1>4, <1>7 DEF RestOK, Creation, StoreIdempotencyResponse, OnEnquiryCreated, Name
  <2>4. response' \in [Enquiry -> BOOLEAN]
    BY <1>4, <1>7 DEF RestOK, Creation, StoreIdempotencyResponse, OnEnquiryCreated
  <2>5. RestOK'
    BY <1>4, <2>1, <2>2, <2>3, <2>4 DEF RestOK
  <2>6. Created'
    BY <1>4, <2>1, <2>2 DEF Created, RestOK
  <2>7. QED
    BY <1>3, <1>5, <2>1, <2>5, <2>6
<1>8. ASSUME NEW e \in Enquiry,
             \/ ReceiveEvent(e) \/ DeleteOldWebhookEvents(e) \/ Fetch(e)
             \/ WriteFetched(e) \/ CacheExpires(e) \/ ResponseExpires(e)
      PROVE  TypeInv'
  <2> USE DEF ReceiveEvent, DeleteOldWebhookEvents, Fetch, WriteFetched, CacheExpires, ResponseExpires
  <2>1. UNCHANGED <<row, create, update>>
    BY <1>8
  <2>2. payload' \in [Enquiry -> {"none", "early", "late", "null"}]
    BY <1>4, <1>8 DEF RestOK
  <2>3. "absent" \in Name /\ row[e].name \in Name /\ fetched[e] \in Name
    BY <1>4, Rows DEF Absent, Name, RestOK, TypeInv, TypeOK
  <2>4. fetched' \in [Enquiry -> Name]
    BY <1>4, <1>8, <2>3 DEF RestOK
  <2>5. cached' \in [Enquiry -> Name]
    BY <1>4, <1>8, <2>3 DEF RestOK
  <2>6. response' \in [Enquiry -> BOOLEAN]
    BY <1>4, <1>8 DEF RestOK
  <2>7. RestOK' /\ Created'
    BY <1>4, <2>1, <2>2, <2>4, <2>5, <2>6 DEF RestOK, Created
  <2>8. QED
    BY <1>3, <1>5, <2>1, <2>7
<1>9. ASSUME NEW u \in Update, NEW e \in Enquiry, FindForUpdate(u, e) PROVE TypeInv'
  <2> DEFINE new == [stage |-> "read", enquiry |-> e, read |-> row[e].name, result |-> "absent"]
  <2>1. /\ update' = [update EXCEPT ![u] = new] /\ row[e] # Absent
        /\ UNCHANGED <<row, payload, cached, response, create, fetched>>
    BY <1>9 DEF FindForUpdate
  <2>2. "absent" \in Name /\ row[e].name \in Name
    BY Rows DEF Absent, Name, TypeInv, TypeOK
  <2>3. new \in UpdateRecord /\ new.enquiry = e
    BY <2>2 DEF UpdateRecord
  <2> HIDE DEF new
  <2>4. RestOK' /\ Created'
    BY <1>4, <2>1, <2>3 DEF RestOK, Created
  <2>5. ReadsExist'
    BY <1>4, <2>1, <2>3 DEF ReadsExist, RestOK
  <2>6. QED
    BY <1>3, <2>4, <2>5
<1>10. ASSUME NEW u \in Update, NEW status \in Status, CommitUpdate(u, status) PROVE TypeInv'
  <2> DEFINE e == update[u].enquiry
             new == [stage |-> "committed", enquiry |-> e,
                     read |-> update[u].read, result |-> row'[e].name]
             r == [name |-> row[e].name, status |-> status]
  <2>1. /\ update[u].stage = "read" /\ update' = [update EXCEPT ![u] = new]
        /\ row' = [row EXCEPT ![e] = r]
        /\ UNCHANGED <<payload, cached, response, create, fetched>>
    BY <1>10 DEF CommitUpdate, Updated
  <2>2. /\ e \in Enquiry /\ row[e] # Absent /\ row[e] \in Row /\ update[u] \in UpdateRecord
    BY <1>4, <2>1 DEF ReadsExist, TypeInv, TypeOK, RestOK
  <2>3. r \in Row /\ r.name \in Name
    BY <2>2, Rows
  <2>4. row'[e] = r /\ update[u].read \in Name
    BY <2>1, <2>2 DEF TypeInv, TypeOK, UpdateRecord
  <2>5. new \in UpdateRecord /\ new.enquiry = e
    BY <2>2, <2>3, <2>4 DEF UpdateRecord
  <2> HIDE DEF new, r, e
  <2>6. RestOK'
    BY <1>4, <2>1, <2>5 DEF RestOK
  <2>7. Created'
    BY <1>4, <2>1, <2>2, <2>3, Rows DEF Created, TypeInv, TypeOK
  <2>8. ReadsExist'
    BY <1>1, <1>4, <2>1, <2>2, <2>5 DEF ReadsExist, RestOK
  <2>9. QED
    BY <1>3, <2>6, <2>7, <2>8
<1>11. ASSUME NEW u \in Update, OnEnquiryUpdated(u) PROVE TypeInv'
  <2> DEFINE e == update[u].enquiry
  <2>1. /\ update[u].stage = "committed" /\ update' = [update EXCEPT ![u].stage = "done"]
        /\ cached' \in {[cached EXCEPT ![e] = update[u].result], cached}
        /\ UNCHANGED <<row, payload, response, create, fetched>>
    BY <1>11 DEF OnEnquiryUpdated
  <2>2. /\ e \in Enquiry /\ update[u].result \in Name
        /\ update' \in [Update -> UpdateRecord]
        /\ \A v \in Update : update'[v].stage \in {"read", "committed"} => update'[v] = update[v]
    BY <1>4, <2>1 DEF ReadsExist, RestOK, UpdateRecord
  <2> HIDE DEF e
  <2>3. cached' \in [Enquiry -> Name]
    BY <1>4, <2>1, <2>2 DEF RestOK
  <2>4. RestOK' /\ Created' /\ ReadsExist'
    BY <1>4, <2>1, <2>2, <2>3 DEF RestOK, Created, ReadsExist
  <2>5. QED
    BY <1>3, <2>4
<1>12. CASE EraseData
  <2>1. /\ UNCHANGED <<cached, response, create, update, fetched>>
        /\ \A e \in Enquiry : row'[e] = IF row[e].name = "personal"
                                          THEN [name |-> "redacted", status |-> row[e].status]
                                          ELSE row[e]
        /\ payload' = [e \in Enquiry |->
                         IF e \in Affected(row') /\ payload[e] # "none" THEN "null" ELSE payload[e]]
    BY <1>12 DEF EraseData
  <2>2. payload' \in [Enquiry -> {"none", "early", "late", "null"}]
    BY <1>4, <2>1 DEF RestOK
  <2>3. RestOK'
    BY <1>4, <2>1, <2>2 DEF RestOK
  <2>4. \A e \in Enquiry : row[e] = Absent => row'[e] = Absent
    BY <2>1, Rows
  <2>5. Created'
    BY <1>1, <1>4, <2>1, <2>4 DEF Created
  <2>6. QED
    BY <1>3, <1>5, <2>1, <2>3, <2>5
<1>13. CASE Crash
  <2>1. UNCHANGED <<row, payload, cached, response, fetched>>
    BY <1>13 DEF Crash
  <2>2. /\ create' \in [Enquiry -> {"unsent", "response", "cache", "done"}]
        /\ \A e \in Enquiry : create'[e] = "unsent" <=> create[e] = "unsent"
    BY <1>4, <1>13 DEF Crash, RestOK
  <2>3. /\ update' \in [Update -> UpdateRecord]
        /\ \A v \in Update : update'[v].stage \in {"read", "committed"} => update'[v] = update[v]
    BY <1>4, <1>13 DEF Crash, RestOK, UpdateRecord
  <2>4. RestOK' /\ Created' /\ ReadsExist'
    BY <1>4, <2>1, <2>2, <2>3 DEF RestOK, Created, ReadsExist
  <2>5. QED
    BY <1>3, <2>4
<1>14. ASSUME NEW old \in SUBSET Enquiry, ArchiveOldEnquiries(old) PROVE TypeInv'
  <2>1. /\ UNCHANGED <<payload, cached, response, create, update, fetched>>
        /\ \A e \in Enquiry : row[e] = Absent => row'[e] = Absent
    BY <1>14 DEF ArchiveOldEnquiries
  <2>2. RestOK' /\ Created'
    BY <1>1, <1>4, <2>1 DEF RestOK, Created
  <2>3. QED
    BY <1>3, <1>5, <2>1, <2>2
<1>15. CASE UNCHANGED vars
  BY <1>15 DEF vars, TypeInv, TypeOK, Created, ReadsExist
<1>16. QED
  BY <1>6, <1>7, <1>8, <1>9, <1>10, <1>11, <1>12, <1>13, <1>14, <1>15 DEF Next, UpdateGoesOn

\* The types are an invariant.
LEMMA TypeInvariant == Spec => []TypeInv
BY TypeInit, TypeStep, PTL DEF Spec

\* Type correctness of the rows and of every copy of the personal data.
THEOREM TypeCorrect == Spec => []TypeOK
BY TypeInvariant, PTL DEF TypeInv

-----------------------------------------------------------------------------
\* No update, and nothing else, gives an erased enquiry its personal data back.
THEOREM ErasureIsFinal == Spec => ErasedForGood
<1>1. ASSUME TypeInv, [Next]_vars, NEW e \in Enquiry, Erased(e)
      PROVE  row'[e].name = "redacted"
  <2>1. RowStep(e) /\ row[e].name = "redacted"
    BY <1>1, RowSteps DEF Erased
  <2>2. row[e] # Absent
    BY <2>1, Rows
  <2>3. QED
    BY <2>1, <2>2 DEF RowStep
<1>2. TypeInv /\ [Next]_vars => [\A e \in Enquiry : Erased(e) => row'[e].name = "redacted"]_vars
  BY <1>1
<1>3. QED
  BY <1>2, TypeInvariant, PTL DEF Spec, ErasedForGood

\* The last audit record of an enquiry has its status, but for erased enquiries
\* and archived ones.
THEOREM AuditFollowsRows == Spec => []AuditTellsStatus
<1> DEFINE Inv == \A e \in Enquiry : Told(e)
<1>1. Init => Inv
  BY DEF Init, Told
<1>2. ASSUME TypeInv, Inv, [Next]_vars PROVE Inv'
  <2> SUFFICES ASSUME NEW e \in Enquiry PROVE Told(e)'
    OBVIOUS
  <2>1. RowStep(e) /\ Told(e)
    BY <1>2, RowSteps
  <2>2. audit[e] \in Seq(Record) /\ (audit[e] = <<>> <=> row[e] = Absent) /\ Absent \notin Row
    BY <1>2, Rows DEF TypeInv, TypeOK
  <2>3. \A r \in Record : Last(<<r>>) = r
    BY DEF Last
  <2>4. /\ \A r \in Record : Last(Append(audit[e], r)) = r
        /\ audit[e] # <<>> => Last(Cleared(audit[e])).after = "null"
    BY <2>2, AppendLast, ClearedRecords
  <2>5. QED
    BY <2>1, <2>2, <2>3, <2>4 DEF RowStep, Told
<1>3. Inv => AuditTellsStatus
  BY DEF Told, AuditTellsStatus
<1>4. QED
  BY <1>1, <1>2, <1>3, TypeInvariant, PTL DEF Spec

-----------------------------------------------------------------------------
(* What names the person after the erasure. *)

Named(records) == {i \in DOMAIN records : records[i].name = "personal"}
Overlaps(e) == {u \in Update : /\ update[u].enquiry = e
                               /\ update[u].read = "personal"
                               /\ update[u].result = "redacted"}

\* An update has no result before its commit: it is counted once.
ResultInv == \A u \in Update : update[u].stage \in {"unsent", "read"} => update[u].result = "absent"

\* The updates that crossed the erasure are finitely many, as each took a step,
\* and account for what names the person.
OverlapInv(e) ==
  /\ IsFiniteSet(Overlaps(e))
  /\ Erased(e) => /\ Cardinality(Named(audit[e])) <= Cardinality(Overlaps(e))
                  /\ payload[e] # "early"

NamedInv == ResultInv /\ \A e \in Enquiry : OverlapInv(e)

\* A record more names the person once more, or as often as before.
LEMMA AppendNamed ==
  ASSUME NEW s \in Seq(Record), NEW r \in Record
  PROVE  /\ IsFiniteSet(Named(s)) /\ Cardinality(Named(s)) \in Nat
         /\ r.name = "personal" => Cardinality(Named(Append(s, r))) = Cardinality(Named(s)) + 1
         /\ r.name # "personal" => Named(Append(s, r)) = Named(s)
<1>1. /\ Len(s) \in Nat /\ DOMAIN s = 1..Len(s) /\ DOMAIN Append(s, r) = 1..Len(s) + 1
      /\ \A i \in 1..Len(s) : Append(s, r)[i] = s[i]
      /\ Append(s, r)[Len(s) + 1] = r
  OBVIOUS
<1>2. IsFiniteSet(Named(s))
  <2>1. Named(s) \subseteq 1..Len(s) /\ IsFiniteSet(1..Len(s))
    BY <1>1, FS_Interval DEF Named
  <2>2. QED
    BY <2>1, FS_Subset
<1>3. Cardinality(Named(s)) \in Nat
  BY <1>2, FS_CardinalityType
<1>4. /\ Len(s) + 1 \notin 1..Len(s)
      /\ \A i \in 1..Len(s) + 1 : i \in 1..Len(s) \/ i = Len(s) + 1
      /\ 1..Len(s) \subseteq 1..Len(s) + 1 /\ Len(s) + 1 \in 1..Len(s) + 1
  BY <1>1
<1>5. ASSUME r.name = "personal" PROVE Cardinality(Named(Append(s, r))) = Cardinality(Named(s)) + 1
  <2>1. Named(Append(s, r)) = Named(s) \cup {Len(s) + 1} /\ Len(s) + 1 \notin Named(s)
    BY <1>1, <1>4, <1>5 DEF Named
  <2>2. QED
    BY <1>2, <2>1, FS_AddElement
<1>6. ASSUME r.name # "personal" PROVE Named(Append(s, r)) = Named(s)
  BY <1>1, <1>4, <1>6 DEF Named
<1>7. QED
  BY <1>2, <1>3, <1>5, <1>6

\* Nothing names the person in records that were cleared.
LEMMA ClearedNamed ==
  ASSUME NEW s \in Seq(Record)
  PROVE  Cardinality(Named(Cleared(s))) = 0
<1>1. Named(Cleared(s)) = {}
  BY DEF Named, Cleared
<1>2. QED
  BY <1>1, FS_EmptySet

\* Initially no update has a result.
LEMMA NamedInit == Init => NamedInv
<1> SUFFICES ASSUME Init PROVE NamedInv
  OBVIOUS
<1>1. \A u \in Update : update[u] = NoUpdate
  BY DEF Init
<1>2. ResultInv
  BY <1>1 DEF ResultInv, NoUpdate
<1>3. ASSUME NEW e \in Enquiry PROVE OverlapInv(e)
  <2>1. Overlaps(e) = {} /\ ~Erased(e)
    BY <1>1 DEF Overlaps, NoUpdate, Init, Erased, Absent
  <2>2. QED
    BY <2>1, FS_EmptySet DEF OverlapInv
<1>4. QED
  BY <1>2, <1>3 DEF NamedInv

\* Only an update that had read the name before the erasure, and commits after
\* it, writes it to the audit log.
LEMMA CommitKeeps ==
  ASSUME TypeInv, TypeInv', NamedInv, NEW u \in Update, NEW status \in Status, CommitUpdate(u, status),
         NEW e \in Enquiry
  PROVE  OverlapInv(e)'
<1> DEFINE f == update[u].enquiry
           r == [name |-> IF update[u].read = "personal" THEN "personal" ELSE "null", after |-> status]
           new == [stage |-> "committed", enquiry |-> f, read |-> update[u].read, result |-> row'[f].name]
<1>1. /\ update[u].stage = "read" /\ f \in Enquiry /\ row[f] # Absent
      /\ row \in [Enquiry -> Row \cup {Absent}] /\ audit \in [Enquiry -> Seq(Record)]
      /\ update \in [Update -> UpdateRecord]
  BY DEF CommitUpdate, TypeInv, TypeOK, ReadsExist
<1>2. /\ row' = [row EXCEPT ![f] = [name |-> row[f].name, status |-> status]]
      /\ audit' = [audit EXCEPT ![f] = Append(@, r)] /\ update' = [update EXCEPT ![u] = new]
      /\ payload' = payload
  BY DEF CommitUpdate, Updated, Logged
<1>3. update[u].result = "absent" /\ OverlapInv(e)
  BY <1>1 DEF NamedInv, ResultInv
<1>4. /\ \A v \in Update \ {u} : update'[v] = update[v]
      /\ update'[u].enquiry = f /\ update'[u].read = update[u].read /\ update'[u].result = row'[f].name
  BY <1>1, <1>2
<1>5. row'[f].name = row[f].name
  BY <1>1, <1>2
<1>6. CASE e # f
  <2>1. Overlaps(e)' = Overlaps(e)
    BY <1>4, <1>6 DEF Overlaps
  <2>2. row'[e] = row[e] /\ audit'[e] = audit[e]
    BY <1>1, <1>2, <1>6
  <2>3. QED
    BY <1>2, <1>3, <2>1, <2>2 DEF OverlapInv, Erased
<1>7. CASE e = f /\ row[e].name = "redacted" /\ update[u].read = "personal"
  <2>1. Overlaps(e)' = Overlaps(e) \cup {u} /\ u \notin Overlaps(e)
    BY <1>3, <1>4, <1>5, <1>7 DEF Overlaps
  <2>2. r \in Record /\ r.name = "personal"
    BY <1>7 DEF Record
  <2>3. audit'[e] = Append(audit[e], r) /\ audit[e] \in Seq(Record)
    BY <1>1, <1>2, <1>7
  <2> HIDE DEF r, new, f
  <2>4. Cardinality(Named(audit'[e])) = Cardinality(Named(audit[e])) + 1 /\ Cardinality(Named(audit[e])) \in Nat
    BY <2>2, <2>3, AppendNamed
  <2>5. IsFiniteSet(Overlaps(e)') /\ Cardinality(Overlaps(e)') = Cardinality(Overlaps(e)) + 1
        /\ Cardinality(Overlaps(e)) \in Nat
    BY <1>3, <2>1, FS_AddElement, FS_CardinalityType DEF OverlapInv
  <2>6. Cardinality(Named(audit[e])) <= Cardinality(Overlaps(e)) /\ payload[e] # "early"
    BY <1>3, <1>7 DEF OverlapInv, Erased
  <2>7. Cardinality(Named(audit'[e])) <= Cardinality(Overlaps(e)')
    BY <2>4, <2>5, <2>6
  <2>8. QED
    BY <1>2, <2>5, <2>6, <2>7 DEF OverlapInv
<1>8. CASE e = f /\ row[e].name = "redacted" /\ update[u].read # "personal"
  <2>1. Overlaps(e)' = Overlaps(e)
    BY <1>4, <1>8 DEF Overlaps
  <2>2. r \in Record /\ r.name # "personal"
    BY <1>8 DEF Record
  <2>3. audit'[e] = Append(audit[e], r) /\ audit[e] \in Seq(Record)
    BY <1>1, <1>2, <1>8
  <2> HIDE DEF r, new, f
  <2>4. Named(audit'[e]) = Named(audit[e])
    BY <2>2, <2>3, AppendNamed
  <2>5. QED
    BY <1>2, <1>3, <1>8, <2>1, <2>4 DEF OverlapInv, Erased
<1>9. CASE e = f /\ row[e].name # "redacted"
  <2>1. Overlaps(e)' = Overlaps(e) /\ ~Erased(e)'
    BY <1>3, <1>4, <1>5, <1>9 DEF Overlaps, Erased
  <2>2. QED
    BY <1>3, <2>1 DEF OverlapInv
<1>10. QED
  BY <1>6, <1>7, <1>8, <1>9

\* An erasure clears all that named the person, of rows erased before as well.
LEMMA EraseKeeps ==
  ASSUME TypeInv, NamedInv, EraseData, NEW e \in Enquiry
  PROVE  OverlapInv(e)'
<1>1. OverlapInv(e) /\ update' = update /\ audit[e] \in Seq(Record)
  BY DEF NamedInv, EraseData, TypeInv, TypeOK
<1>2. Overlaps(e)' = Overlaps(e)
  BY <1>1 DEF Overlaps
<1>3. ASSUME row'[e].name = "redacted"
      PROVE  audit'[e] = Cleared(audit[e]) /\ payload'[e] # "early"
  BY <1>3 DEF EraseData, Affected
<1>4. Cardinality(Overlaps(e)) >= 0
  BY <1>1, FS_CardinalityType DEF OverlapInv
<1>5. QED
  BY <1>1, <1>2, <1>3, <1>4, ClearedNamed DEF OverlapInv, Erased

\* No other step touches the audit log of an erased enquiry, nor an update's result.
LEMMA OthersKeep ==
  ASSUME NamedInv, NEW e \in Enquiry, UNCHANGED audit,
         row'[e].name = row[e].name, payload'[e] \in {payload[e], "none"} \/ payload'[e] = "late",
         \A u \in Update : \/ /\ update'[u].enquiry = update[u].enquiry
                              /\ update'[u].read = update[u].read /\ update'[u].result = update[u].result
                           \/ /\ update'[u].result = "absent" /\ update[u].result = "absent"
  PROVE  OverlapInv(e)'
<1>1. Overlaps(e)' = Overlaps(e)
  BY DEF Overlaps
<1>2. QED
  BY <1>1 DEF NamedInv, OverlapInv, Erased

\* No step writes the name of an erased enquiry but an update that crossed the erasure.
LEMMA NamedStep == TypeInv /\ NamedInv /\ [Next]_vars => NamedInv'
<1> SUFFICES ASSUME TypeInv, NamedInv, [Next]_vars PROVE NamedInv'
  OBVIOUS
<1>1. /\ update \in [Update -> UpdateRecord] /\ payload \in [Enquiry -> {"none", "early", "late", "null"}]
      /\ row \in [Enquiry -> Row \cup {Absent}] /\ TypeInv' /\ ResultInv
  BY TypeStep DEF TypeInv, TypeOK, NamedInv
<1>2. ASSUME ResultInv', \A e \in Enquiry : OverlapInv(e)' PROVE NamedInv'
  BY <1>2 DEF NamedInv
<1>3. ASSUME UNCHANGED update PROVE ResultInv'
  BY <1>1, <1>3 DEF ResultInv
<1>4. ASSUME UNCHANGED <<audit, update>>,
             \A e \in Enquiry : /\ row'[e].name = row[e].name
                                /\ payload'[e] \in {payload[e], "none"} \/ payload'[e] = "late"
      PROVE  NamedInv'
  BY <1>2, <1>3, <1>4, OthersKeep
<1>5. ASSUME NEW f \in Enquiry, CreateInTransaction(f) PROVE NamedInv'
  <2>1. /\ row[f] = Absent /\ row' = [row EXCEPT ![f] = [name |-> "personal", status |-> "PENDING"]]
        /\ UNCHANGED <<payload, update>> /\ \A e \in Enquiry \ {f} : audit'[e] = audit[e]
    BY <1>5 DEF CreateInTransaction, TypeInv, TypeOK, Created
  <2>2. ASSUME NEW e \in Enquiry PROVE OverlapInv(e)'
    <3>1. Overlaps(e)' = Overlaps(e)
      BY <2>1 DEF Overlaps
    <3>2. e = f => ~Erased(e)'
      BY <1>1, <2>1 DEF Erased
    <3>3. e # f => row'[e] = row[e] /\ audit'[e] = audit[e]
      BY <1>1, <2>1
    <3>4. QED
      BY <2>1, <3>1, <3>2, <3>3 DEF NamedInv, OverlapInv, Erased
  <2>3. QED
    BY <1>2, <1>3, <2>1, <2>2
<1>6. ASSUME NEW f \in Enquiry,
             \/ Creation(f) \/ ReceiveEvent(f) \/ DeleteOldWebhookEvents(f) \/ Fetch(f)
             \/ WriteFetched(f) \/ CacheExpires(f) \/ ResponseExpires(f)
      PROVE  NamedInv'
  <2>1. UNCHANGED <<audit, update, row>>
    BY <1>6 DEF Creation, StoreIdempotencyResponse, OnEnquiryCreated, ReceiveEvent, DeleteOldWebhookEvents,
                Fetch, WriteFetched, CacheExpires, ResponseExpires
  <2>2. CASE ReceiveEvent(f)
    <3>1. payload' = [payload EXCEPT ![f] = IF row[f].name = "redacted" THEN "late" ELSE "early"]
      BY <2>2 DEF ReceiveEvent
    <3>2. ASSUME NEW e \in Enquiry PROVE OverlapInv(e)'
      <4>1. Overlaps(e)' = Overlaps(e)
        BY <2>1 DEF Overlaps
      <4>2. Erased(e) => payload'[e] \in {payload[e], "late"}
        BY <1>1, <3>1 DEF Erased
      <4>3. QED
        BY <2>1, <4>1, <4>2 DEF NamedInv, OverlapInv, Erased
    <3>3. QED
      BY <1>2, <1>3, <2>1, <3>2
  <2>3. CASE ~ReceiveEvent(f)
    <3>1. \A e \in Enquiry : payload'[e] \in {payload[e], "none"}
      BY <1>1, <1>6, <2>3 DEF Creation, StoreIdempotencyResponse, OnEnquiryCreated, DeleteOldWebhookEvents,
                  Fetch, WriteFetched, CacheExpires, ResponseExpires
    <3>2. QED
      BY <1>4, <2>1, <3>1
  <2>4. QED
    BY <2>2, <2>3
<1>7. ASSUME NEW u \in Update, NEW f \in Enquiry, FindForUpdate(u, f) PROVE NamedInv'
  <2>1. /\ update[u].stage = "unsent" /\ UNCHANGED <<audit, row, payload>>
        /\ update' = [update EXCEPT ![u] =
                        [stage |-> "read", enquiry |-> f, read |-> row[f].name, result |-> "absent"]]
    BY <1>7 DEF FindForUpdate
  <2>2. \A v \in Update : update'[v] = update[v] \/ (update'[v].result = "absent" /\ update[v].result = "absent")
    BY <1>1, <2>1 DEF ResultInv
  <2>3. ResultInv'
    BY <1>1, <2>2 DEF ResultInv
  <2>4. QED
    BY <1>2, <2>1, <2>2, <2>3, OthersKeep
<1>8. ASSUME NEW u \in Update, NEW status \in Status, CommitUpdate(u, status) PROVE NamedInv'
  <2>1. \A v \in Update : update'[v] = update[v] \/ update'[v].stage = "committed"
    BY <1>1, <1>8 DEF CommitUpdate
  <2>2. ResultInv'
    BY <1>1, <2>1 DEF ResultInv
  <2>3. QED
    BY <1>1, <1>2, <1>8, <2>2, CommitKeeps
<1>9. ASSUME UNCHANGED <<audit, row, payload>>,
             \E u \in Update, stage \in {"done"} : update' = [update EXCEPT ![u].stage = stage]
      PROVE  NamedInv'
  <2>1. \A v \in Update : /\ update'[v].read = update[v].read /\ update'[v].result = update[v].result
                          /\ update'[v].enquiry = update[v].enquiry
                          /\ update'[v].stage \in {update[v].stage, "done"}
    BY <1>1, <1>9 DEF UpdateRecord
  <2>2. ResultInv'
    BY <1>1, <2>1 DEF ResultInv
  <2>3. QED
    BY <1>2, <1>9, <2>1, <2>2, OthersKeep
<1>10. ASSUME NEW u \in Update, OnEnquiryUpdated(u) PROVE NamedInv'
  BY <1>9, <1>10 DEF OnEnquiryUpdated
<1>11. CASE Crash
  BY <1>4, <1>9, <1>11 DEF Crash
<1>12. CASE EraseData
  <2>1. update' = update
    BY <1>12 DEF EraseData
  <2>2. QED
    BY <1>2, <1>3, <1>12, <2>1, EraseKeeps
<1>13. ASSUME NEW old \in SUBSET Enquiry, ArchiveOldEnquiries(old) PROVE NamedInv'
  <2>1. UNCHANGED <<audit, payload, update>> /\ \A e \in Enquiry : row'[e].name = row[e].name
    BY <1>13 DEF ArchiveOldEnquiries
  <2>2. QED
    BY <1>4, <2>1
<1>14. CASE UNCHANGED vars
  BY <1>4, <1>14 DEF vars
<1>15. QED
  BY <1>5, <1>6, <1>7, <1>8, <1>10, <1>11, <1>12, <1>13, <1>14 DEF Next, UpdateGoesOn

\* After an erasure the audit log names the person at most as often as updates
\* crossed it, and no webhook event from before it has kept its payload.
THEOREM NamedByOverlap == Spec => []NamedOnlyByOverlap
<1>1. NamedInv => NamedOnlyByOverlap
  BY DEF NamedInv, OverlapInv, Named, Overlaps, NamedOnlyByOverlap
<1>2. QED
  BY <1>1, NamedInit, NamedStep, TypeInvariant, PTL DEF Spec
=============================================================================
