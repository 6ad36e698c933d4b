----------------------------- MODULE StoreProofs -----------------------------
(***************************************************************************)
(* Proofs about module Store, for every set of references, identifiers,    *)
(* actors, contents and commands.                                          *)
(*                                                                         *)
(* The invariants of the store are inductive together: StoreInv.  What     *)
(* Commit writes is described once, by lemma CommitShape; everything else  *)
(* follows from that description.                                          *)
(***************************************************************************)
EXTENDS Store, TLAPS

StoreInv ==
  /\ StoreTypeOK
  /\ HistoryMatchesForecasts
  /\ EveryRevisionAudited
  /\ ApprovedWasReviewed
  /\ LineageSound

(* A commit that starts a forecast: f becomes the first revision of id.    *)
Fresh(id, f) ==
  /\ forecasts[id] = None
  /\ f.status = "draft" /\ f.revision = 1 /\ f.approvedBy = None
  /\ f.previous # None =>
       /\ forecasts[f.previous] # None
       /\ forecasts[f.previous].status = "approved"
       /\ f.content = forecasts[f.previous].content

(* A commit that continues one: f becomes the next revision of id.         *)
Continued(id, f) ==
  /\ forecasts[id] # None
  /\ forecasts[id].status # "approved"
  /\ f.revision = forecasts[id].revision + 1
  /\ f.previous = forecasts[id].previous
  /\ \/ /\ f.status = "draft" /\ f.approvedBy = None
        /\ forecasts[id].status = "draft" \/ f.content = forecasts[id].content
     \/ /\ f.status # "draft"
        /\ forecasts[id].status = Before[f.status]
        /\ f.content = forecasts[id].content
        /\ f.status = "approved" <=> f.approvedBy # None

-----------------------------------------------------------------------------

(* The stored row of a forecast is typed, numbered from 1 and, unless it   *)
(* is approved, names no approver.                                         *)
LEMMA StoredForecast ==
  ASSUME StoreInv, NEW id \in Ids, forecasts[id] # None
  PROVE  /\ forecasts[id] \in Forecast
         /\ forecasts[id].revision >= 1
         /\ forecasts[id].content \in ValidContents
         /\ forecasts[id].status = "approved" <=> forecasts[id].approvedBy # None
<1>1. forecasts[id] \in Forecast
  BY DEF StoreInv, StoreTypeOK
<1>2. [id |-> id, revision |-> forecasts[id].revision, data |-> forecasts[id]] \in revisions
  BY DEF StoreInv, HistoryMatchesForecasts
<1>3. forecasts[id].revision \in 1 .. forecasts[id].revision
  BY <1>2 DEF StoreInv, HistoryMatchesForecasts
<1>4. /\ forecasts[id].content \in ValidContents
      /\ forecasts[id].status = "approved" <=> forecasts[id].approvedBy # None
  BY <1>2 DEF StoreInv, ApprovedWasReviewed
<1> QED BY <1>1, <1>3, <1>4 DEF Forecast

(* No number is missing in the history of a forecast.                      *)
LEMMA HistoryComplete ==
  ASSUME StoreInv, NEW id \in Ids, forecasts[id] # None,
         NEW n \in 1 .. forecasts[id].revision
  PROVE  \E r \in revisions : r.id = id /\ r.revision = n
<1>1. \A m \in 1 .. forecasts[id].revision : \E r \in RowsOf(id) : r.revision = m
  BY DEF StoreInv, HistoryMatchesForecasts
<1>2. PICK r \in RowsOf(id) : r.revision = n
  BY <1>1
<1> QED BY <1>2 DEF RowsOf

LEMMA NumberedIsForecast ==
  ASSUME NEW f \in Forecast, NEW n \in Nat, NEW actor \in Actors
  PROVE  [f EXCEPT !.revision = n, !.updatedBy = actor] \in Forecast
BY DEF Forecast

LEMMA RevisedIsForecast ==
  ASSUME NEW f \in Forecast, NEW id \in Ids, NEW n \in Nat
  PROVE  [f EXCEPT !.previous = id, !.revision = n, !.status = "draft", !.approvedBy = None] \in Forecast
BY DEF Forecast, Statuses

LEMMA RevisedDraftIsForecast ==
  ASSUME NEW f \in Forecast, NEW id \in Ids
  PROVE  [f EXCEPT !.previous = id, !.revision = 0, !.status = "draft", !.approvedBy = None] \in Forecast
<1>1. 0 \in Nat
  OBVIOUS
<1> QED BY <1>1, RevisedIsForecast, Zenon

(* Numbering and signing a proposed forecast changes no other field.       *)
LEMMA NumberedFields ==
  ASSUME NEW c \in Commands, Proposed(c) \in Forecast, c.actor \in Actors
  PROVE  /\ NextRevision(c) \in Forecast
         /\ NextRevision(c).revision = Proposed(c).revision + 1
         /\ NextRevision(c).updatedBy = c.actor
         /\ NextRevision(c).content = Proposed(c).content
         /\ NextRevision(c).status = Proposed(c).status
         /\ NextRevision(c).previous = Proposed(c).previous
         /\ NextRevision(c).approvedBy = Proposed(c).approvedBy
<1>1. PICK n \in Nat : n = Proposed(c).revision + 1
  BY DEF Forecast
<1>2. NextRevision(c) \in Forecast
  BY <1>1, NumberedIsForecast DEF NextRevision
<1>3. /\ NextRevision(c).revision = Proposed(c).revision + 1
      /\ NextRevision(c).updatedBy = c.actor
      /\ NextRevision(c).content = Proposed(c).content
      /\ NextRevision(c).status = Proposed(c).status
      /\ NextRevision(c).previous = Proposed(c).previous
      /\ NextRevision(c).approvedBy = Proposed(c).approvedBy
  BY DEF NextRevision, Forecast
<1> QED BY <1>2, <1>3

(* What a permitted command proposes is a forecast with valid content; it  *)
(* starts a forecast or continues the one the command names.               *)
LEMMA CommitShape ==
  ASSUME StoreInv, NEW c \in Commands, NEW id \in Ids, Commit(c, id)
  PROVE  /\ NextRevision(c) \in Forecast
         /\ NextRevision(c).updatedBy = c.actor
         /\ NextRevision(c).content \in ValidContents
         /\ NextRevision(c).status = "approved" => NextRevision(c).content \in ApprovableContents
         /\ Fresh(id, NextRevision(c)) \/ Continued(id, NextRevision(c))
<1> DEFINE p == Proposed(c)
<1>1. c \in Command /\ c.ref \in Refs /\ c.actor \in Actors
  BY StoreAssumption DEF Commit, Accepts, Command
<1>2. Permitted(c) /\ Validated(p) /\ id \in Targets(c)
  BY DEF Commit, Succeeds
<1>3. SUFFICES /\ p \in Forecast
               /\ \/ /\ forecasts[id] = None
                     /\ p.status = "draft" /\ p.revision = 0 /\ p.approvedBy = None
                     /\ p.previous # None =>
                          /\ forecasts[p.previous] # None
                          /\ forecasts[p.previous].status = "approved"
                          /\ p.content = forecasts[p.previous].content
                  \/ /\ forecasts[id] # None
                     /\ forecasts[id].status # "approved"
                     /\ p.revision = forecasts[id].revision
                     /\ p.previous = forecasts[id].previous
                     /\ \/ /\ p.status = "draft" /\ p.approvedBy = None
                           /\ forecasts[id].status = "draft" \/ p.content = forecasts[id].content
                        \/ /\ p.status # "draft"
                           /\ forecasts[id].status = Before[p.status]
                           /\ p.content = forecasts[id].content
                           /\ p.status = "approved" <=> p.approvedBy # None
  BY <1>1, <1>2, NumberedFields, StoreAssumption DEF Validated, Fresh, Continued
<1>4. CASE c.action = "save" /\ c.id = None
  <2>1. p = NewDraft(c)
    BY <1>4 DEF Proposed
  <2>2. forecasts[id] = None
    BY <1>2, <1>4 DEF Targets, CreatesForecast
  <2> QED
    BY <1>1, <2>1, <2>2 DEF Forecast, Statuses, Command, NewDraft
<1>5. CASE c.action # "save" \/ c.id # None
  <2>1. Exists(c) /\ c.id \in Ids /\ forecasts[c.id] # None
    BY <1>1, <1>2, <1>5, StoreAssumption DEF Permitted, Exists, Command
  <2>2. /\ Old(c) \in Forecast
        /\ Old(c) = forecasts[c.id]
        /\ Old(c).status = "approved" <=> Old(c).approvedBy # None
    BY <2>1, StoredForecast DEF Old
  <2>3. CASE c.action = "revise"
    <3>1. Old(c).status = "approved"
      BY <1>2, <1>5, <2>3 DEF Permitted, MayRevise
    <3>2. p = Revised(c)
      BY <2>3 DEF Proposed
    <3>3. /\ p.status = "draft" /\ p.revision = 0 /\ p.approvedBy = None
          /\ p.previous = c.id /\ p.content = Old(c).content
      BY <2>1, <2>2, <3>2 DEF Revised, Forecast
    <3>4. p = [Old(c) EXCEPT !.previous = c.id, !.revision = 0, !.status = "draft", !.approvedBy = None]
      BY <3>2, Zenon DEF Revised
    <3>5. p \in Forecast
      BY <2>1, <2>2, <3>4, RevisedDraftIsForecast, Zenon
    <3>6. forecasts[id] = None
      BY <1>2, <2>3 DEF Targets, CreatesForecast
    <3> QED
      BY <2>1, <2>2, <3>1, <3>3, <3>5, <3>6
  <2>4. CASE c.action # "revise"
    <3>1. id = c.id
      BY <1>2, <1>5, <2>4 DEF Targets, CreatesForecast
    <3>2. CASE c.action = "save"
      <4>1. Old(c).status = "draft" /\ p = [Old(c) EXCEPT !.content = c.content, !.approvedBy = None]
        BY <1>2, <1>5, <3>2 DEF Permitted, MayEdit, Proposed
      <4>2. /\ p \in Forecast
            /\ p.status = "draft" /\ p.approvedBy = None
            /\ p.revision = Old(c).revision /\ p.previous = Old(c).previous
        BY <1>1, <2>2, <4>1 DEF Forecast, Command
      <4> QED
        BY <2>1, <2>2, <3>1, <4>1, <4>2
    <3>3. CASE c.action = "approve"
      <4>1. Old(c).status = "reviewed" /\ p = [Old(c) EXCEPT !.status = "approved", !.approvedBy = c.actor]
        BY <1>2, <1>5, <3>3 DEF Permitted, MayApprove, Proposed
      <4>2. /\ p \in Forecast
            /\ p.status = "approved" /\ p.approvedBy = c.actor
            /\ p.content = Old(c).content
            /\ p.revision = Old(c).revision /\ p.previous = Old(c).previous
        BY <1>1, <2>2, <4>1 DEF Forecast, Statuses
      <4> QED
        BY <1>1, <2>1, <2>2, <3>1, <4>1, <4>2, StoreAssumption DEF Before
    <3>4. CASE c.action \in {"submit", "review", "return"}
      <4>1. p = [Old(c) EXCEPT !.status = StatusAfter[c.action]]
        BY <3>4 DEF Proposed
      <4>2. \/ StatusAfter[c.action] = "submitted" /\ Old(c).status = "draft"
            \/ StatusAfter[c.action] = "reviewed" /\ Old(c).status = "submitted"
            \/ StatusAfter[c.action] = "draft" /\ Old(c).status # "approved"
        BY <1>2, <1>5, <3>4 DEF Permitted, MayEdit, MayReview, MayReturn, StatusAfter
      <4>3. /\ p \in Forecast
            /\ p.status = StatusAfter[c.action]
            /\ p.content = Old(c).content /\ p.approvedBy = Old(c).approvedBy
            /\ p.revision = Old(c).revision /\ p.previous = Old(c).previous
        BY <2>2, <4>1, <4>2 DEF Forecast, Statuses
      <4> QED
        BY <2>1, <2>2, <3>1, <4>2, <4>3 DEF Before
    <3> QED BY <1>2, <1>5, <2>4, <3>2, <3>3, <3>4 DEF Permitted
  <2> QED BY <2>3, <2>4
<1> QED BY <1>4, <1>5

-----------------------------------------------------------------------------
(***************************************************************************)
(* Each invariant after a commit.                                          *)
(***************************************************************************)

(* A commit writes one new row, under a key that is not yet in revisions.  *)
LEMMA NewRow ==
  ASSUME StoreInv, NEW c \in Commands, NEW id \in Ids, Commit(c, id)
  PROVE  \A r \in revisions :
           ~(r.id = id /\ r.revision = NextRevision(c).revision)
<1>1. Fresh(id, NextRevision(c)) \/ Continued(id, NextRevision(c))
  BY CommitShape
<1>2. SUFFICES ASSUME NEW r \in revisions, r.id = id
               PROVE  r.revision # NextRevision(c).revision
  OBVIOUS
<1>3. forecasts[id] # None /\ r.revision \in 1 .. forecasts[id].revision
  BY <1>2 DEF StoreInv, HistoryMatchesForecasts
<1>4. forecasts[id].revision \in Nat
  BY <1>3, StoredForecast DEF Forecast
<1> QED BY <1>1, <1>3, <1>4 DEF Fresh, Continued

LEMMA CommitTypeOK ==
  ASSUME StoreInv, NEW c \in Commands, NEW id \in Ids, Commit(c, id)
  PROVE  StoreTypeOK'
<1> DEFINE f == NextRevision(c)
           result == [id |-> id, revision |-> f.revision, status |-> "applied"]
<1>1. c \in Command /\ c.ref \in Refs /\ c.actor \in Actors
  BY StoreAssumption DEF Commit, Accepts, Command
<1>2. f \in Forecast
  BY CommitShape
<1>3. f.revision \in Nat
  BY <1>2 DEF Forecast
<1>4. result \in Result
  BY <1>3 DEF Result
<1>5. forecasts' \in [Ids -> Forecast \cup {None}]
  BY <1>2 DEF Commit, StoreInv, StoreTypeOK
<1>6. revisions' \subseteq Revision
  BY <1>2, <1>3 DEF Commit, StoreInv, StoreTypeOK, Revision
<1>7. commands' \in [Refs -> Result \cup {None}]
  BY <1>1, <1>4 DEF Commit, RecordResult, StoreInv, StoreTypeOK
<1>8. audit' \subseteq Audit
  BY <1>1, <1>3 DEF Commit, StoreInv, StoreTypeOK, Audit, Command
<1>9. outbox' \in [Refs -> OutboxRow \cup {None}]
  BY <1>1, <1>4 DEF Commit, RecordResult, StoreInv, StoreTypeOK, OutboxRow
<1> QED BY <1>5, <1>6, <1>7, <1>8, <1>9 DEF StoreTypeOK

LEMMA CommitHistory ==
  ASSUME StoreInv, NEW c \in Commands, NEW id \in Ids, Commit(c, id)
  PROVE  HistoryMatchesForecasts'
<1> DEFINE f == NextRevision(c)
           row == [id |-> id, revision |-> f.revision, data |-> f]
<1>1. /\ f \in Forecast
      /\ Fresh(id, f) \/ Continued(id, f)
  BY CommitShape
<1>2. /\ forecasts' = [forecasts EXCEPT ![id] = f]
      /\ revisions' = revisions \cup {row}
      /\ forecasts \in [Ids -> Forecast \cup {None}]
      /\ revisions \subseteq Revision
  BY DEF Commit, StoreInv, StoreTypeOK
<1>3. f # None /\ f.revision \in Nat
  BY <1>1, StoreAssumption DEF Forecast
<1>4. \A j \in Ids \ {id} : forecasts'[j] = forecasts[j]
  BY <1>2
<1>5. forecasts'[id] = f
  BY <1>2
<1>6. ASSUME NEW j \in Ids, forecasts'[j] # None
      PROVE  /\ [id |-> j, revision |-> forecasts'[j].revision, data |-> forecasts'[j]] \in revisions'
             /\ \A n \in 1 .. forecasts'[j].revision : \E r \in revisions' : r.id = j /\ r.revision = n
  <2>1. CASE j # id
    BY <1>2, <1>4, <1>6, <2>1 DEF StoreInv, HistoryMatchesForecasts, RowsOf
  <2>2. CASE j = id
    <3>1. row \in revisions' /\ forecasts'[j] = f
      BY <1>2, <1>5, <2>2
    <3>2. ASSUME NEW n \in 1 .. f.revision
          PROVE  \E r \in revisions' : r.id = id /\ r.revision = n
      <4>1. CASE n = f.revision
        BY <3>1, <4>1
      <4>2. CASE n # f.revision
        <5>1. forecasts[id] # None /\ f.revision = forecasts[id].revision + 1
          BY <1>1, <1>3, <3>2, <4>2 DEF Fresh, Continued
        <5>2. forecasts[id].revision \in Nat
          BY <5>1, StoredForecast DEF Forecast
        <5>3. n \in 1 .. forecasts[id].revision
          BY <3>2, <4>2, <5>1, <5>2
        <5>4. PICK r \in revisions : r.id = id /\ r.revision = n
          BY <5>1, <5>3, HistoryComplete
        <5> QED BY <1>2, <5>4
      <4> QED BY <4>1, <4>2
    <3> QED BY <2>2, <3>1, <3>2
  <2> QED BY <2>1, <2>2
<1>7. ASSUME NEW r \in revisions'
      PROVE  /\ forecasts'[r.id] # None
             /\ r.revision \in 1 .. forecasts'[r.id].revision
             /\ r.data.revision = r.revision
  <2>1. CASE r = row
    <3>1. f.revision >= 1
      <4>1. CASE Fresh(id, f)
        BY <4>1 DEF Fresh
      <4>2. CASE Continued(id, f)
        BY <4>2, StoredForecast DEF Continued, Forecast
      <4> QED BY <1>1, <4>1, <4>2
    <3> QED BY <1>3, <1>5, <2>1, <3>1
  <2>2. CASE r \in revisions
    <3>1. /\ r.id \in Ids /\ forecasts[r.id] # None
          /\ r.revision \in 1 .. forecasts[r.id].revision
          /\ r.data.revision = r.revision
      BY <1>2, <2>2 DEF StoreInv, HistoryMatchesForecasts, Revision
    <3>2. CASE r.id # id
      BY <1>4, <3>1, <3>2
    <3>3. CASE r.id = id
      <4>1. f.revision = forecasts[id].revision + 1
        BY <1>1, <3>1, <3>3 DEF Fresh, Continued
      <4>2. forecasts[id].revision \in Nat
        BY <3>1, <3>3, StoredForecast DEF Forecast
      <4> QED BY <1>3, <1>5, <3>1, <3>3, <4>1, <4>2
    <3> QED BY <3>2, <3>3
  <2> QED BY <1>2, <2>1, <2>2
<1>8. ASSUME NEW r \in revisions', NEW s \in revisions', r.id = s.id, r.revision = s.revision
      PROVE  r = s
  <2>1. \A q \in revisions : ~(q.id = id /\ q.revision = f.revision)
    BY NewRow
  <2> QED BY <1>2, <1>8, <2>1 DEF StoreInv, HistoryMatchesForecasts
<1> QED BY <1>6, <1>7, <1>8 DEF HistoryMatchesForecasts, RowsOf

LEMMA CommitAudit ==
  ASSUME StoreInv, NEW c \in Commands, NEW id \in Ids, Commit(c, id)
  PROVE  EveryRevisionAudited'
<1> DEFINE f == NextRevision(c)
           row == [id |-> id, revision |-> f.revision, data |-> f]
           entry == [ref |-> c.ref, id |-> id, revision |-> f.revision,
                     action |-> c.action, actor |-> c.actor]
           result == [id |-> id, revision |-> f.revision, status |-> "applied"]
<1>1. /\ revisions' = revisions \cup {row}
      /\ audit' = audit \cup {entry}
      /\ commands' = [commands EXCEPT ![c.ref] = result]
      /\ commands[c.ref] = None /\ c.ref \in Refs
      /\ commands \in [Refs -> Result \cup {None}]
      /\ audit \subseteq Audit
  BY DEF Commit, RecordResult, Accepts, Undecided, StoreInv, StoreTypeOK
<1>2. f \in Forecast /\ f.updatedBy = c.actor
  BY CommitShape
<1>3. result \in Result /\ result # None
  BY <1>2, StoreAssumption DEF Result, Forecast
<1>4. \A a \in audit :
        /\ commands[a.ref] = [id |-> a.id, revision |-> a.revision, status |-> "applied"]
        /\ \E r \in revisions :
             r.id = a.id /\ r.revision = a.revision /\ r.data.updatedBy = a.actor
  BY DEF StoreInv, EveryRevisionAudited
<1>5. \A a \in audit : a.ref \in Refs /\ a.ref # c.ref
  <2> SUFFICES ASSUME NEW a \in audit PROVE a.ref \in Refs /\ a.ref # c.ref
    OBVIOUS
  <2>1. a \in Audit
    BY <1>1
  <2>2. [id |-> a.id, revision |-> a.revision, status |-> "applied"] \in Result
    BY <2>1 DEF Audit, Result
  <2> QED BY <1>1, <1>4, <2>1, <2>2, StoreAssumption DEF Audit
<1>6. \A a \in audit : ~(a.id = id /\ a.revision = f.revision)
  BY <1>4, NewRow
<1>7. ASSUME NEW a \in audit'
      PROVE  /\ commands'[a.ref] = [id |-> a.id, revision |-> a.revision, status |-> "applied"]
             /\ \E r \in revisions' :
                  r.id = a.id /\ r.revision = a.revision /\ r.data.updatedBy = a.actor
  <2>1. CASE a = entry
    <3>1. /\ row \in revisions' /\ row.id = a.id /\ row.revision = a.revision
          /\ row.data.updatedBy = a.actor
      BY <1>1, <1>2, <2>1
    <3>2. commands'[a.ref] = [id |-> a.id, revision |-> a.revision, status |-> "applied"]
      BY <1>1, <2>1
    <3> QED BY <3>1, <3>2
  <2>2. CASE a \in audit
    BY <1>1, <1>4, <1>5, <2>2
  <2> QED BY <1>1, <2>1, <2>2
<1>8. ASSUME NEW r \in revisions'
      PROVE  \E a \in audit' : a.id = r.id /\ a.revision = r.revision
  <2>1. CASE r = row
    <3>1. entry \in audit' /\ entry.id = r.id /\ entry.revision = r.revision
      BY <1>1, <2>1
    <3> QED BY <3>1
  <2>2. CASE r \in revisions
    BY <1>1, <2>2 DEF StoreInv, EveryRevisionAudited
  <2> QED BY <1>1, <2>1, <2>2
<1>9. ASSUME NEW a \in audit', NEW b \in audit',
             a.ref = b.ref \/ (a.id = b.id /\ a.revision = b.revision)
      PROVE  a = b
  <2>1. \A x, y \in audit : x.ref = y.ref \/ (x.id = y.id /\ x.revision = y.revision) => x = y
    BY DEF StoreInv, EveryRevisionAudited
  <2>2. \A x \in audit : ~(x.ref = entry.ref \/ (x.id = entry.id /\ x.revision = entry.revision))
    BY <1>5, <1>6
  <2>3. (a = entry \/ a \in audit) /\ (b = entry \/ b \in audit)
    BY <1>1
  <2>4. CASE a \in audit /\ b \in audit
    BY <1>9, <2>1, <2>4
  <2>5. CASE a = entry /\ b \in audit
    BY <1>9, <2>2, <2>5, Zenon
  <2>6. CASE b = entry /\ a \in audit
    BY <1>9, <2>2, <2>6, Zenon
  <2> QED BY <2>3, <2>4, <2>5, <2>6
<1>10. ASSUME NEW ref \in Refs, \A a \in audit' : a.ref # ref
       PROVE  commands'[ref] = None \/ commands'[ref].status = "failed"
  <2>1. ref # c.ref
    <3>1. entry \in audit' /\ entry.ref = c.ref
      BY <1>1
    <3> QED BY <1>10, <3>1
  <2>2. \A a \in audit : a.ref # ref
    BY <1>1, <1>10
  <2>3. commands[ref] = None \/ commands[ref].status = "failed"
    BY <2>2 DEF StoreInv, EveryRevisionAudited
  <2> QED BY <1>1, <2>1, <2>3
<1> QED BY <1>7, <1>8, <1>9, <1>10 DEF EveryRevisionAudited

LEMMA CommitReviewed ==
  ASSUME StoreInv, NEW c \in Commands, NEW id \in Ids, Commit(c, id)
  PROVE  ApprovedWasReviewed'
<1> DEFINE f == NextRevision(c)
           row == [id |-> id, revision |-> f.revision, data |-> f]
<1>1. revisions' = revisions \cup {row}
  BY DEF Commit
<1>2. /\ f \in Forecast
      /\ f.content \in ValidContents
      /\ f.status = "approved" => f.content \in ApprovableContents
      /\ Fresh(id, f) \/ Continued(id, f)
  BY CommitShape
<1>3. ASSUME NEW r \in revisions'
      PROVE  /\ r.data.status # "draft" =>
                  \E s \in revisions' :
                    /\ s.id = r.id
                    /\ s.revision + 1 = r.revision
                    /\ s.data.status = Before[r.data.status]
                    /\ s.data.content = r.data.content
             /\ r.data.content \in ValidContents
             /\ r.data.status = "approved" => r.data.content \in ApprovableContents
             /\ (r.data.status = "approved") <=> (r.data.approvedBy # None)
  <2>1. CASE r \in revisions
    BY <1>1, <2>1 DEF StoreInv, ApprovedWasReviewed, RowsOf
  <2>2. CASE r = row
    <3>1. r.id = id /\ r.revision = f.revision /\ r.data = f
      BY <2>2
    <3>2. CASE f.status = "draft"
      BY <1>2, <3>1, <3>2 DEF Fresh, Continued
    <3>3. CASE f.status # "draft"
      <4>1. /\ Continued(id, f) /\ forecasts[id] # None
            /\ f.revision = forecasts[id].revision + 1
            /\ forecasts[id].status = Before[f.status]
            /\ f.content = forecasts[id].content
            /\ f.status = "approved" <=> f.approvedBy # None
        BY <1>2, <3>3 DEF Fresh, Continued
      <4>2. [id |-> id, revision |-> forecasts[id].revision, data |-> forecasts[id]] \in revisions'
        BY <1>1, <4>1 DEF StoreInv, HistoryMatchesForecasts
      <4> QED BY <1>2, <3>1, <4>1, <4>2
    <3> QED BY <3>2, <3>3
  <2> QED BY <1>1, <2>1, <2>2
<1> QED BY <1>3 DEF ApprovedWasReviewed, RowsOf

LEMMA CommitLineage ==
  ASSUME StoreInv, NEW c \in Commands, NEW id \in Ids, Commit(c, id)
  PROVE  LineageSound'
<1> DEFINE f == NextRevision(c)
           row == [id |-> id, revision |-> f.revision, data |-> f]
<1>1. /\ forecasts' = [forecasts EXCEPT ![id] = f]
      /\ revisions' = revisions \cup {row}
      /\ forecasts \in [Ids -> Forecast \cup {None}]
      /\ revisions \subseteq Revision
  BY DEF Commit, StoreInv, StoreTypeOK
<1>2. f \in Forecast /\ (Fresh(id, f) \/ Continued(id, f))
  BY CommitShape
<1>3. \A j \in Ids : j # id => forecasts'[j] = forecasts[j]
  BY <1>1
<1>4. forecasts'[id] = f
  BY <1>1
<1>5. ASSUME NEW r \in revisions'
      PROVE  /\ r.data.previous = forecasts'[r.id].previous
             /\ r.data.previous # None =>
                  /\ r.data.previous # r.id
                  /\ forecasts'[r.data.previous] # None
                  /\ forecasts'[r.data.previous].status = "approved"
                  /\ r.revision = 1 => r.data.content = forecasts'[r.data.previous].content
  <2>1. CASE r = row
    <3>1. r.id = id /\ r.revision = f.revision /\ r.data = f
      BY <2>1
    <3>2. CASE Fresh(id, f)
      BY <1>2, <1>3, <1>4, <3>1, <3>2 DEF Fresh, Forecast
    <3>3. CASE Continued(id, f)
      <4>1. f.revision # 1
        BY <3>3, StoredForecast DEF Continued, Forecast
      <4>2. [id |-> id, revision |-> forecasts[id].revision, data |-> forecasts[id]] \in revisions
        BY <3>3 DEF StoreInv, HistoryMatchesForecasts, Continued
      <4>3. f.previous # None =>
              /\ f.previous # id
              /\ forecasts[f.previous] # None
              /\ forecasts[f.previous].status = "approved"
        BY <3>3, <4>2 DEF StoreInv, LineageSound, Continued
      <4> QED BY <1>2, <1>3, <1>4, <3>1, <4>1, <4>3 DEF Forecast
    <3> QED BY <1>2, <3>2, <3>3
  <2>2. CASE r \in revisions
    <3>1. /\ r \in Revision
          /\ r.data.previous = forecasts[r.id].previous
          /\ r.data.previous # None =>
               /\ r.data.previous # r.id
               /\ forecasts[r.data.previous] # None
               /\ forecasts[r.data.previous].status = "approved"
               /\ r.revision = 1 => r.data.content = forecasts[r.data.previous].content
          /\ forecasts[r.id] # None
      BY <1>1, <2>2 DEF StoreInv, LineageSound, HistoryMatchesForecasts
    <3>2. r.data.previous = forecasts'[r.id].previous
      <4>1. CASE r.id # id
        BY <1>3, <3>1, <4>1 DEF Revision
      <4>2. CASE r.id = id
        BY <1>2, <1>4, <3>1, <4>2 DEF Fresh, Continued
      <4> QED BY <4>1, <4>2
    <3>3. r.data.previous # None => r.data.previous \in Ids /\ r.data.previous # id
      BY <1>2, <3>1 DEF Fresh, Continued, Revision, Forecast
    <3> QED BY <1>3, <3>1, <3>2, <3>3
  <2> QED BY <1>1, <2>1, <2>2
<1> QED BY <1>5 DEF LineageSound

-----------------------------------------------------------------------------

(* A refusal touches no forecast and no history.                           *)
LEMMA RefuseKeepsInv ==
  ASSUME StoreInv, NEW c \in Commands, Refuse(c)
  PROVE  StoreInv'
<1> DEFINE result == [id |-> c.id, revision |-> 0, status |-> "failed"]
<1>1. /\ UNCHANGED <<forecasts, revisions, audit>>
      /\ commands' = [commands EXCEPT ![c.ref] = result]
      /\ outbox' = [outbox EXCEPT ![c.ref] =
                      [result |-> result, humusSent |-> FALSE, riverSent |-> result.status # "applied"]]
      /\ commands[c.ref] = None /\ c.ref \in Refs
      /\ c \in Command
  BY StoreAssumption DEF Refuse, RecordResult, Accepts, Undecided
<1>2. /\ commands \in [Refs -> Result \cup {None}]
      /\ outbox \in [Refs -> OutboxRow \cup {None}]
      /\ audit \subseteq Audit
  BY DEF StoreInv, StoreTypeOK
<1>3. result \in Result
  BY <1>1 DEF Result, Command
<1>4. StoreTypeOK'
  BY <1>1, <1>2, <1>3 DEF StoreInv, StoreTypeOK, OutboxRow
<1>5. HistoryMatchesForecasts' /\ ApprovedWasReviewed' /\ LineageSound'
  BY <1>1 DEF StoreInv, HistoryMatchesForecasts, ApprovedWasReviewed, LineageSound, RowsOf
<1>6. EveryRevisionAudited'
  <2>1. \A a \in audit :
          commands[a.ref] = [id |-> a.id, revision |-> a.revision, status |-> "applied"]
    BY DEF StoreInv, EveryRevisionAudited
  <2>2. \A a \in audit : commands'[a.ref] = commands[a.ref]
    <3> SUFFICES ASSUME NEW a \in audit PROVE commands'[a.ref] = commands[a.ref]
      OBVIOUS
    <3>1. a.ref \in Refs /\ [id |-> a.id, revision |-> a.revision, status |-> "applied"] \in Result
      BY <1>2 DEF Audit, Result
    <3>2. a.ref # c.ref
      BY <1>1, <2>1, <3>1, StoreAssumption
    <3> QED BY <1>1, <1>2, <3>1, <3>2
  <2>3. \A ref \in Refs : (\A a \in audit : a.ref # ref) =>
          commands'[ref] = None \/ commands'[ref].status = "failed"
    BY <1>1, <1>2 DEF StoreInv, EveryRevisionAudited
  <2> QED BY <1>1, <2>2, <2>3 DEF StoreInv, EveryRevisionAudited
<1> QED BY <1>4, <1>5, <1>6 DEF StoreInv

LEMMA UnchangedKeepsInv ==
  ASSUME StoreInv, UNCHANGED storeVars
  PROVE  StoreInv'
BY DEF storeVars, StoreInv, StoreTypeOK, HistoryMatchesForecasts, EveryRevisionAudited,
       ApprovedWasReviewed, LineageSound, RowsOf

LEMMA ApplyKeepsInv ==
  ASSUME StoreInv, NEW c \in Commands, Apply(c)
  PROVE  StoreInv'
<1>1. CASE Replay(c)
  BY <1>1, UnchangedKeepsInv DEF Replay
<1>2. ASSUME NEW id \in Ids, Commit(c, id)
      PROVE  StoreInv'
  BY <1>2, CommitTypeOK, CommitHistory, CommitAudit, CommitReviewed, CommitLineage DEF StoreInv
<1>3. CASE Refuse(c)
  BY <1>3, RefuseKeepsInv
<1> QED BY <1>1, <1>2, <1>3 DEF Apply

LEMMA InitEstablishesInv ==
  ASSUME StoreInit
  PROVE  StoreInv
BY DEF StoreInit, StoreInv, StoreTypeOK, HistoryMatchesForecasts, EveryRevisionAudited,
       ApprovedWasReviewed, LineageSound, RowsOf

(* Apply decides the command's reference, unless it was decided, and       *)
(* changes nothing it recorded about any other.                            *)
LEMMA ApplyDecides ==
  ASSUME StoreInv, NEW c \in Commands, Apply(c)
  PROVE  /\ c.ref \in Refs /\ commands'[c.ref] # None
         /\ \A ref \in Refs : commands[ref] # None => commands'[ref] = commands[ref]
<1>1. c \in Command /\ commands \in [Refs -> Result \cup {None}]
  BY StoreAssumption DEF StoreInv, StoreTypeOK
<1>2. CASE Replay(c)
  BY <1>2 DEF Replay, Accepts, Undecided, storeVars
<1>3. CASE Refuse(c)
  <2>1. [id |-> c.id, revision |-> 0, status |-> "failed"] \in Result
    BY <1>1 DEF Result, Command
  <2> QED BY <1>1, <1>3, <2>1, StoreAssumption DEF Refuse, Accepts, Undecided, RecordResult
<1>4. ASSUME NEW id \in Ids, Commit(c, id)
      PROVE  /\ c.ref \in Refs /\ commands'[c.ref] # None
             /\ \A ref \in Refs : commands[ref] # None => commands'[ref] = commands[ref]
  <2>1. NextRevision(c).revision \in Nat
    BY <1>4, CommitShape DEF Forecast
  <2>2. [id |-> id, revision |-> NextRevision(c).revision, status |-> "applied"] \in Result
    BY <2>1 DEF Result
  <2> QED BY <1>1, <1>4, <2>2, StoreAssumption DEF Commit, Accepts, Undecided, RecordResult
<1> QED BY <1>2, <1>3, <1>4 DEF Apply

(* Apply changes a stored forecast only on the strength of the revision    *)
(* that is stored.                                                         *)
LEMMA ApplyIsCurrent ==
  ASSUME StoreInv, NEW c \in Commands, Apply(c),
         NEW id \in Ids, forecasts[id] # None, forecasts'[id] # forecasts[id]
  PROVE  c.id = id /\ c.expected = forecasts[id].revision /\ commands[c.ref] = None
<1>1. ~Replay(c) /\ ~Refuse(c)
  BY DEF Replay, Refuse, storeVars
<1>2. PICK j \in Ids : Commit(c, j)
  BY <1>1 DEF Apply
<1>3. j = id
  BY <1>2 DEF Commit, StoreInv, StoreTypeOK
<1>4. ~CreatesForecast(c) /\ c.id = id
  BY <1>2, <1>3 DEF Commit, Targets
<1>5. Current(c)
  BY <1>2, <1>4 DEF Commit, Succeeds, Permitted, CreatesForecast
<1> QED BY <1>2, <1>4, <1>5 DEF Current, Old, Commit, Undecided

(* All invariants of the store hold after any sequence of commands, for    *)
(* any number of references, forecasts, actors and contents.               *)
THEOREM StoreCorrect == StoreSpec => []StoreInv
<1>1. StoreInit => StoreInv
  BY InitEstablishesInv
<1>2. StoreInv /\ [StoreNext]_storeVars => StoreInv'
  BY ApplyKeepsInv, UnchangedKeepsInv DEF StoreNext
<1> QED BY <1>1, <1>2, PTL DEF StoreSpec

(* The store's tables keep their shapes (Apply's own writes never produce  *)
(* an untyped row).                                                        *)
THEOREM StoreTyped == StoreSpec => []StoreTypeOK
<1>1. StoreInv => StoreTypeOK
  BY DEF StoreInv
<1> QED BY <1>1, StoreCorrect, PTL

(* INSERT INTO revisions never meets its primary key and no revision is    *)
(* missing from a forecast's history.                                      *)
THEOREM StoreHistory == StoreSpec => []HistoryMatchesForecasts
<1>1. StoreInv => HistoryMatchesForecasts
  BY DEF StoreInv
<1> QED BY <1>1, StoreCorrect, PTL

(* Every revision has exactly one audited command behind it.               *)
THEOREM StoreAccountable == StoreSpec => []EveryRevisionAudited
<1>1. StoreInv => EveryRevisionAudited
  BY DEF StoreInv
<1> QED BY <1>1, StoreCorrect, PTL

(* What is approved was reviewed and submitted with the same content.      *)
THEOREM StoreApprovals == StoreSpec => []ApprovedWasReviewed
<1>1. StoreInv => ApprovedWasReviewed
  BY DEF StoreInv
<1> QED BY <1>1, StoreCorrect, PTL

(* Predecessors are approved forecasts, and stay so.                       *)
THEOREM StoreLineage == StoreSpec => []LineageSound
<1>1. StoreInv => LineageSound
  BY DEF StoreInv
<1> QED BY <1>1, StoreCorrect, PTL

-----------------------------------------------------------------------------

LEMMA CommitSparesApproved ==
  ASSUME StoreInv, NEW c \in Commands, NEW id \in Ids, Commit(c, id),
         NEW j \in Ids, forecasts[j] # None, forecasts[j].status = "approved"
  PROVE  forecasts'[j] = forecasts[j]
<1>1. Fresh(id, NextRevision(c)) \/ Continued(id, NextRevision(c))
  BY CommitShape
<1>2. j # id
  BY <1>1 DEF Fresh, Continued
<1> QED BY <1>2 DEF Commit, StoreInv, StoreTypeOK

(* No command ever changes an approved forecast: Commit either starts a    *)
(* forecast or continues one that is not approved.                         *)
THEOREM StoreApprovedImmutable == StoreSpec => ApprovedImmutable
<1> DEFINE Spared == \A id \in Ids :
                       forecasts[id] # None /\ forecasts[id].status = "approved"
                         => forecasts'[id] = forecasts[id]
<1>1. StoreInv /\ [StoreNext]_storeVars => Spared
  <2> SUFFICES ASSUME StoreInv, [StoreNext]_storeVars,
                      NEW j \in Ids, forecasts[j] # None, forecasts[j].status = "approved"
               PROVE  forecasts'[j] = forecasts[j]
    OBVIOUS
  <2>1. ASSUME NEW c \in Commands, Apply(c)
        PROVE  forecasts'[j] = forecasts[j]
    <3>1. CASE Replay(c)
      BY <3>1 DEF Replay, storeVars
    <3>2. ASSUME NEW id \in Ids, Commit(c, id)
          PROVE  forecasts'[j] = forecasts[j]
      BY <3>2, CommitSparesApproved
    <3>3. CASE Refuse(c)
      BY <3>3 DEF Refuse
    <3> QED BY <2>1, <3>1, <3>2, <3>3 DEF Apply
  <2>2. CASE UNCHANGED storeVars
    BY <2>2 DEF storeVars
  <2> QED BY <2>1, <2>2 DEF StoreNext
<1>2. StoreInv /\ [StoreNext]_storeVars => [Spared]_storeVars
  BY <1>1
<1>3. StoreSpec => [][Spared]_storeVars
  BY <1>2, StoreCorrect, PTL DEF StoreSpec
<1> QED BY <1>3 DEF ApprovedImmutable

-----------------------------------------------------------------------------
(***************************************************************************)
(* The store implements the workflow.                                      *)
(***************************************************************************)

Docs == [id \in Ids |-> DocOf(forecasts[id])]

DecidedRefs == {ref \in Refs : commands[ref] # None}

(* A stored forecast is a document of the workflow, and never "no          *)
(* document".                                                              *)
LEMMA DocOfForecast ==
  ASSUME NEW f \in Forecast
  PROVE  /\ DocOf(f) = [content |-> f.content, status |-> f.status, previous |-> f.previous]
         /\ DocOf(f) \in W!Doc
         /\ DocOf(f) # None
<1>1. DocOf(f) = [content |-> f.content, status |-> f.status, previous |-> f.previous]
  BY StoreAssumption DEF DocOf
<1>2. DocOf(f) \in W!Doc
  BY <1>1 DEF W!Doc, Forecast, Statuses
<1> QED BY <1>1, <1>2, WorkflowAssumption

LEMMA DecideOnce ==
  ASSUME StoreInv, NEW ref \in Refs, NEW result \in Result,
         commands[ref] = None, commands' = [commands EXCEPT ![ref] = result]
  PROVE  ref \notin DecidedRefs /\ DecidedRefs' = DecidedRefs \cup {ref}
BY StoreAssumption DEF DecidedRefs, StoreInv, StoreTypeOK

(* Each commit is one step of the workflow under the command's reference.  *)
LEMMA CommitStepsWorkflow ==
  ASSUME StoreInv, NEW c \in Commands, NEW id \in Ids, Commit(c, id)
  PROVE  W!Next
<1> DEFINE f == NextRevision(c)
           ref == c.ref
<1>1. /\ forecasts \in [Ids -> Forecast \cup {None}]
      /\ forecasts' = [forecasts EXCEPT ![id] = f]
  BY DEF Commit, StoreInv, StoreTypeOK
<1>2. /\ f \in Forecast
      /\ f.content \in ValidContents
      /\ f.status = "approved" => f.content \in ApprovableContents
      /\ Fresh(id, f) \/ Continued(id, f)
  BY CommitShape
<1>3. f.content \in Contents /\ f.status \in Statuses /\ f.previous \in Ids \cup {None} /\ f.revision \in Nat
  BY <1>2 DEF Forecast
<1>4. ref \in Refs /\ ref \notin DecidedRefs /\ DecidedRefs' = DecidedRefs \cup {ref}
  <2>1. [id |-> id, revision |-> f.revision, status |-> "applied"] \in Result
    BY <1>3 DEF Result
  <2> QED BY <2>1, DecideOnce DEF Commit, Accepts, Undecided, RecordResult
<1>5. \A j \in Ids : forecasts[j] # None =>
        Docs[j] = [content |-> forecasts[j].content, status |-> forecasts[j].status,
                   previous |-> forecasts[j].previous] /\ Docs[j] # None
  BY <1>1, DocOfForecast DEF Docs
<1>6. \A j \in Ids : forecasts[j] = None => Docs[j] = None
  BY DEF Docs, DocOf
<1>7. Docs' = [Docs EXCEPT ![id] = [content |-> f.content, status |-> f.status, previous |-> f.previous]]
  <2>1. \A j \in Ids : DocOf(forecasts'[j]) =
          IF j = id THEN [content |-> f.content, status |-> f.status, previous |-> f.previous]
          ELSE DocOf(forecasts[j])
    BY <1>1, <1>2, DocOfForecast
  <2> QED BY <2>1 DEF Docs
<1>8. W!Decide(ref)
  BY <1>4 DEF W!Decide, DecidedRefs
<1>9. CASE Fresh(id, f) /\ f.previous = None
  <2>1. W!Create(ref, id, f.content)
    BY <1>2, <1>6, <1>7, <1>8, <1>9 DEF W!Create, Fresh, Docs
  <2> QED BY <1>3, <1>4, <2>1 DEF W!Next
<1>10. CASE Fresh(id, f) /\ f.previous # None
  <2>1. f.previous \in Ids
    BY <1>3, <1>10
  <2>2. /\ Docs[f.previous] # None /\ Docs[f.previous].status = "approved"
        /\ Docs[f.previous].content = f.content
        /\ Docs[id] = None /\ f.status = "draft"
    <3>1. /\ forecasts[f.previous] # None
          /\ forecasts[f.previous].status = "approved"
          /\ forecasts[f.previous].content = f.content
          /\ forecasts[id] = None /\ f.status = "draft"
      BY <1>10 DEF Fresh
    <3>2. Docs[id] = None
      BY <1>6, <3>1
    <3>3. /\ Docs[f.previous] # None
          /\ Docs[f.previous] = [content  |-> forecasts[f.previous].content,
                                 status   |-> forecasts[f.previous].status,
                                 previous |-> forecasts[f.previous].previous]
      BY <1>5, <2>1, <3>1
    <3> HIDE DEF Docs
    <3> QED BY <3>1, <3>2, <3>3
  <2>3. Docs' = [Docs EXCEPT ![id] = [content  |-> Docs[f.previous].content,
                                      status   |-> "draft",
                                      previous |-> f.previous]]
    BY <1>7, <2>2
  <2>4. W!Revise(ref, f.previous, id)
    BY <1>8, <2>2, <2>3 DEF W!Revise, Docs
  <2> QED BY <1>4, <2>1, <2>4 DEF W!Next
<1>11. CASE Continued(id, f)
  <2>1. /\ Docs[id] # None
        /\ Docs[id].status = forecasts[id].status
        /\ Docs[id] = [content |-> forecasts[id].content, status |-> forecasts[id].status,
                       previous |-> f.previous]
        /\ forecasts[id].status \in Statuses \ {"approved"}
    BY <1>1, <1>5, <1>11 DEF Continued, Forecast
  <2>2. ASSUME f.content = forecasts[id].content
        PROVE  W!Move(ref, id, forecasts[id].status, f.status)
    <3>1. [Docs[id] EXCEPT !.status = f.status] =
            [content |-> f.content, status |-> f.status, previous |-> f.previous]
      BY <2>1, <2>2
    <3>2. Docs' = [Docs EXCEPT ![id] = [Docs[id] EXCEPT !.status = f.status]]
      BY <1>7, <3>1
    <3> QED BY <1>8, <2>1, <3>2 DEF W!Move, Docs
  <2>3. CASE f.status = "draft" /\ forecasts[id].status = "draft"
    <3>1. [Docs[id] EXCEPT !.content = f.content] =
            [content |-> f.content, status |-> f.status, previous |-> f.previous]
      BY <2>1, <2>3
    <3>2. Docs' = [Docs EXCEPT ![id] = [Docs[id] EXCEPT !.content = f.content]]
      BY <1>7, <3>1
    <3>3. Docs[id] # None /\ Docs[id].status = "draft"
      BY <2>1, <2>3
    <3>4. W!Edit(ref, id, f.content)
      BY <1>2, <1>8, <3>2, <3>3 DEF W!Edit, Docs
    <3> QED BY <1>3, <1>4, <3>4 DEF W!Next
  <2>4. CASE f.status = "draft" /\ forecasts[id].status # "draft"
    <3>1. W!Move(ref, id, forecasts[id].status, "draft")
      BY <1>11, <2>4, <2>2 DEF Continued
    <3>2. W!Return(ref, id)
      BY <2>1, <3>1 DEF W!Return, Statuses
    <3> QED BY <1>4, <3>2 DEF W!Next
  <2>5. CASE f.status # "draft"
    <3>1. forecasts[id].status = Before[f.status] /\ f.content = forecasts[id].content
      BY <1>11, <2>5 DEF Continued
    <3>2. W!Move(ref, id, Before[f.status], f.status)
      BY <2>2, <3>1
    <3>3. f.status = "submitted" => W!Submit(ref, id)
      BY <3>2 DEF W!Submit, Before
    <3>4. f.status = "reviewed" => W!Review(ref, id)
      BY <3>2 DEF W!Review, Before
    <3>5. f.status = "approved" => W!Approve(ref, id)
      BY <1>2, <2>1, <3>1, <3>2 DEF W!Approve, Before, Docs
    <3> QED BY <1>3, <1>4, <2>5, <3>3, <3>4, <3>5 DEF W!Next, Statuses
  <2> QED BY <2>3, <2>4, <2>5
<1> QED BY <1>2, <1>9, <1>10, <1>11

LEMMA RefuseStepsWorkflow ==
  ASSUME StoreInv, NEW c \in Commands, Refuse(c)
  PROVE  W!Next
<1>1. c \in Command /\ c.ref \in Refs
  BY StoreAssumption DEF Refuse, Accepts
<1>2. [id |-> c.id, revision |-> 0, status |-> "failed"] \in Result
  BY <1>1 DEF Result, Command
<1>3. c.ref \notin DecidedRefs /\ DecidedRefs' = DecidedRefs \cup {c.ref}
  BY <1>1, <1>2, DecideOnce DEF Refuse, Undecided, RecordResult
<1>4. Docs' = Docs
  BY DEF Docs, Refuse, DocOf
<1>5. W!Refuse(c.ref)
  BY <1>3, <1>4 DEF W!Refuse, W!Decide, DecidedRefs, Docs
<1> QED BY <1>1, <1>5 DEF W!Next

LEMMA StoreStepsWorkflow ==
  ASSUME StoreInv, [StoreNext]_storeVars
  PROVE  [W!Next]_(W!vars)
<1>1. CASE UNCHANGED storeVars
  BY <1>1 DEF storeVars, W!vars, DocOf
<1>2. ASSUME NEW c \in Commands, Apply(c)
      PROVE  [W!Next]_(W!vars)
  <2>1. CASE Replay(c)
    BY <2>1 DEF Replay, storeVars, W!vars, DocOf
  <2>2. ASSUME NEW id \in Ids, Commit(c, id)
        PROVE  W!Next
    BY <2>2, CommitStepsWorkflow
  <2>3. CASE Refuse(c)
    BY <2>3, RefuseStepsWorkflow
  <2> QED BY <1>2, <2>1, <2>2, <2>3 DEF Apply
<1> QED BY <1>1, <1>2 DEF StoreNext

(* Every behaviour of the store is a behaviour of the workflow: commands   *)
(* are decided once, and forecasts move only along the workflow.           *)
THEOREM StoreImplementsWorkflow == StoreSpec => ImplementsWorkflow
<1>1. StoreInit => W!Init
  BY DEF StoreInit, W!Init, DocOf
<1>2. StoreInv /\ [StoreNext]_storeVars => [W!Next]_(W!vars)
  BY StoreStepsWorkflow
<1>3. StoreSpec => W!Spec
  BY <1>1, <1>2, StoreCorrect, PTL DEF StoreSpec, W!Spec
<1> QED BY <1>3 DEF ImplementsWorkflow
=============================================================================
