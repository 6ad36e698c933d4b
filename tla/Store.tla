-------------------------------- MODULE Store --------------------------------
(***************************************************************************)
(* The forecast store: internal/guidance/store.go.                         *)
(*                                                                         *)
(* One SQLite database, one connection (SetMaxOpenConns(1)), so a call of  *)
(* Apply is one transaction and one step here.  Its five tables are the    *)
(* variables; a row that does not exist is None.  The content of a         *)
(* forecast (dates, cash, movements, ...) is one value: Validate (see      *)
(* CashModel) splits the contents into those it refuses, those it accepts  *)
(* and those it accepts for an approval.  Timestamps, error texts and the  *)
(* JSON encoding are left out.                                             *)
(***************************************************************************)
EXTENDS Naturals

CONSTANTS
  Refs,                \* operation references of up to 100 bytes
  LongRefs,            \* operation references Apply refuses as too long
  Ids,                 \* what NewID can draw
  Actors,              \* who a command can name as its actor
  Contents,            \* the part of a forecast its editor controls
  ValidContents,       \* Validate(f, false) = nil
  ApprovableContents,  \* Validate(f, true) = nil
  Orgs, Org,           \* organizations, and the one this store is bound to
  Commands,            \* the commands that can reach Apply
  None                 \* a missing row, an empty string

Statuses == {"draft", "submitted", "reviewed", "approved"}

(* "other" stands for every action name the code does not know.            *)
Actions == {"save", "submit", "review", "approve", "return", "revise", "other"}

Forecast == [content    : Contents,
             status     : Statuses,
             revision   : Nat,
             previous   : Ids \cup {None},
             updatedBy  : Actors,
             approvedBy : Actors \cup {None}]

Command == [ref        : Refs \cup LongRefs,
            org        : Orgs,
            action     : Actions,
            id         : Ids \cup {None},
            content    : Contents,
            expected   : Nat,
            actor      : Actors \cup {None},
            canApprove : BOOLEAN]

Result == [id : Ids \cup {None}, revision : Nat, status : {"applied", "failed"}]

Revision == [id : Ids, revision : Nat, data : Forecast]

Audit == [ref : Refs, id : Ids, revision : Nat, action : Actions, actor : Actors]

OutboxRow == [result : Result, humusSent : BOOLEAN, riverSent : BOOLEAN]

ASSUME StoreAssumption ==
  /\ ApprovableContents \subseteq ValidContents
  /\ ValidContents \subseteq Contents
  /\ Org \in Orgs
  /\ Commands \subseteq Command
  /\ Refs \cap LongRefs = {}
  /\ None \notin Ids \cup Actors
  /\ None \notin Forecast /\ None \notin Result /\ None \notin OutboxRow

VARIABLES
  forecasts,           \* forecasts(id, data)
  revisions,           \* revisions(id, revision, data)
  commands,            \* commands(ref, result)
  audit,               \* audit(ref, id, revision, action, actor, at)
  outbox               \* outbox(ref, data, humus_sent, river_sent)

storeVars == <<forecasts, revisions, commands, audit, outbox>>

StoreTypeOK ==
  /\ forecasts \in [Ids -> Forecast \cup {None}]
  /\ revisions \subseteq Revision
  /\ commands \in [Refs -> Result \cup {None}]
  /\ audit \subseteq Audit
  /\ outbox \in [Refs -> OutboxRow \cup {None}]

StoreInit ==
  /\ forecasts = [id \in Ids |-> None]
  /\ revisions = {}
  /\ commands = [ref \in Refs |-> None]
  /\ audit = {}
  /\ outbox = [ref \in Refs |-> None]

-----------------------------------------------------------------------------
(***************************************************************************)
(* The closure "business" of Apply: which commands succeed, and the        *)
(* forecast they leave behind.                                             *)
(***************************************************************************)

Old(c) == forecasts[c.id]

Exists(c) == c.id # None /\ forecasts[c.id] # None

CreatesForecast(c) == c.action = "revise" \/ (c.action = "save" /\ c.id = None)

(* Faults a change to these rules could introduce; see README, Mutants.    *)
CurrentAlways(c) == TRUE
MayReviseAny(c) == TRUE
MayEditLate(c) == Old(c).status # "approved"
MayReturnAny(c) == c.canApprove
MayApproveEarly(c) == c.canApprove /\ Old(c).status \in {"submitted", "reviewed"}

(* Nobody changes a forecast on the strength of a revision that is gone.   *)
Current(c) == c.expected = Old(c).revision

MayEdit(c) == Old(c).status = "draft"
MayRevise(c) == Old(c).status = "approved"
MayReview(c) == c.canApprove /\ Old(c).status = "submitted"
MayApprove(c) == c.canApprove /\ Old(c).status = "reviewed"
MayReturn(c) == c.canApprove /\ Old(c).status # "approved"

(* The conditions business checks before it touches the forecast.          *)
Permitted(c) ==
  \/ c.action = "save" /\ c.id = None
  \/ /\ Exists(c) /\ Current(c)
     /\ \/ c.action \in {"save", "submit"} /\ MayEdit(c)
        \/ c.action = "review" /\ MayReview(c)
        \/ c.action = "approve" /\ MayApprove(c)
        \/ c.action = "return" /\ MayReturn(c)
        \/ c.action = "revise" /\ MayRevise(c)

StatusAfter == [submit |-> "submitted", review |-> "reviewed", return |-> "draft"]

NewDraftNoStatus(c) == [content    |-> c.content,
                        status     |-> None,
                        revision   |-> 0,
                        previous   |-> None,
                        updatedBy  |-> c.actor,
                        approvedBy |-> None]

NewDraft(c) == [content    |-> c.content,
                status     |-> "draft",
                revision   |-> 0,
                previous   |-> None,
                updatedBy  |-> c.actor,
                approvedBy |-> None]

RevisedInPlace(c) == [Old(c) EXCEPT !.previous = c.id, !.status = "draft", !.approvedBy = None]

Revised(c) ==
  [Old(c) EXCEPT !.previous = c.id, !.revision = 0, !.status = "draft", !.approvedBy = None]

(* The forecast a permitted command proposes, before it is validated.      *)
Proposed(c) ==
  CASE c.action = "save" /\ c.id = None -> NewDraft(c)
    [] c.action = "save" /\ c.id # None ->
         [Old(c) EXCEPT !.content = c.content, !.approvedBy = None]
    [] c.action = "revise" -> Revised(c)
    [] c.action = "approve" -> [Old(c) EXCEPT !.status = "approved", !.approvedBy = c.actor]
    [] OTHER -> [Old(c) EXCEPT !.status = StatusAfter[c.action]]

(* Validate(f, f.Status == "approved").                                    *)
Validated(f) ==
  f.content \in IF f.status = "approved" THEN ApprovableContents ELSE ValidContents

Succeeds(c) == Permitted(c) /\ Validated(Proposed(c))

(* A NewID is 16 random bytes: it names no stored forecast.                *)
Targets(c) ==
  IF CreatesForecast(c) THEN {id \in Ids : forecasts[id] = None} ELSE {c.id}

-----------------------------------------------------------------------------
(***************************************************************************)
(* The three ways Apply returns without an error.                          *)
(***************************************************************************)

(* The checks before the transaction; a command that fails them changes    *)
(* nothing and is answered with an error.                                  *)
Accepts(c) == c.ref \in Refs /\ c.org = Org /\ c.actor # None

UndecidedAlways(c) == TRUE

Undecided(c) == commands[c.ref] = None

(* The reference is known: its recorded result is returned again.          *)
Replay(c) ==
  /\ Accepts(c)
  /\ ~Undecided(c)
  /\ UNCHANGED storeVars

RecordForRiver(c, result) ==
  /\ commands' = [commands EXCEPT ![c.ref] = result]
  /\ outbox' = [outbox EXCEPT ![c.ref] =
                  [result |-> result, humusSent |-> FALSE, riverSent |-> FALSE]]

(* The rows every decided command leaves, whatever its result.             *)
RecordResult(c, result) ==
  /\ commands' = [commands EXCEPT ![c.ref] = result]
  /\ outbox' = [outbox EXCEPT ![c.ref] =
                  [result    |-> result,
                   humusSent |-> FALSE,
                   riverSent |-> result.status # "applied"]]

(* The row Apply writes for the forecast.                                  *)
NextRevision(c) == [Proposed(c) EXCEPT !.revision = @ + 1, !.updatedBy = c.actor]

(* Applied: the new revision replaces the forecast, and is kept for good.  *)
Commit(c, id) ==
  LET f == NextRevision(c)
  IN /\ Accepts(c) /\ Undecided(c) /\ Succeeds(c)
     /\ id \in Targets(c)
     /\ forecasts' = [forecasts EXCEPT ![id] = f]
     /\ revisions' = revisions \cup {[id |-> id, revision |-> f.revision, data |-> f]}
     /\ audit' = audit \cup {[ref      |-> c.ref,
                              id       |-> id,
                              revision |-> f.revision,
                              action   |-> c.action,
                              actor    |-> c.actor]}
     /\ RecordResult(c, [id |-> id, revision |-> f.revision, status |-> "applied"])

(* Failed: the refusal is recorded under the reference like a success.     *)
Refuse(c) ==
  /\ Accepts(c) /\ Undecided(c) /\ ~Succeeds(c)
  /\ RecordResult(c, [id |-> c.id, revision |-> 0, status |-> "failed"])
  /\ UNCHANGED <<forecasts, revisions, audit>>

Apply(c) ==
  \/ Replay(c)
  \/ \E id \in Ids : Commit(c, id)
  \/ Refuse(c)

StoreNext == \E c \in Commands : Apply(c)

StoreSpec == StoreInit /\ [][StoreNext]_storeVars

-----------------------------------------------------------------------------
(***************************************************************************)
(* What the tables promise to their readers (History, Get, Result and the  *)
(* backups), all of which read them without Apply's checks.                *)
(***************************************************************************)

RowsOf(id) == {r \in revisions : r.id = id}

(* A forecast is its own latest revision, and its revisions are numbered   *)
(* from 1 without a gap, one row each: the INSERT INTO revisions of Apply  *)
(* never meets its primary key, even when several commands were prepared   *)
(* on the same revision and a refused one was decided in between.          *)
HistoryMatchesForecasts ==
  /\ \A id \in Ids : forecasts[id] # None =>
       /\ [id |-> id, revision |-> forecasts[id].revision, data |-> forecasts[id]] \in revisions
       /\ \A n \in 1 .. forecasts[id].revision : \E r \in RowsOf(id) : r.revision = n
  /\ \A r \in revisions :
       /\ forecasts[r.id] # None
       /\ r.revision \in 1 .. forecasts[r.id].revision
       /\ r.data.revision = r.revision
  /\ \A r, s \in revisions : r.id = s.id /\ r.revision = s.revision => r = s

(* Accountability: every revision was made by exactly one decided command, *)
(* recorded in audit under the actor the revision names, and the result    *)
(* kept for that command (what a replay answers) is that same revision.    *)
EveryRevisionAudited ==
  /\ \A a \in audit :
       /\ commands[a.ref] = [id |-> a.id, revision |-> a.revision, status |-> "applied"]
       /\ \E r \in revisions :
            r.id = a.id /\ r.revision = a.revision /\ r.data.updatedBy = a.actor
  /\ \A r \in revisions : \E a \in audit : a.id = r.id /\ a.revision = r.revision
  /\ \A a, b \in audit :
       a.ref = b.ref \/ (a.id = b.id /\ a.revision = b.revision) => a = b
  /\ \A ref \in Refs :
       (\A a \in audit : a.ref # ref) =>
         commands[ref] = None \/ commands[ref].status = "failed"

Before == [submitted |-> "draft", reviewed |-> "submitted", approved |-> "reviewed"]

(* What is approved is what was reviewed, and what was reviewed is what    *)
(* was submitted: the revision before one that is no draft has the same    *)
(* content and stands one step earlier in the workflow, so the content of  *)
(* an approved forecast was never edited between its submission and its    *)
(* approval, and it satisfies the stricter rules of an approval.           *)
ApprovedWasReviewed ==
  \A r \in revisions :
    /\ r.data.status # "draft" =>
         \E s \in RowsOf(r.id) :
           /\ s.revision + 1 = r.revision
           /\ s.data.status = Before[r.data.status]
           /\ s.data.content = r.data.content
    /\ r.data.content \in ValidContents
    /\ r.data.status = "approved" => r.data.content \in ApprovableContents
    /\ (r.data.status = "approved") <=> (r.data.approvedBy # None)

(* A revision that names a predecessor names another forecast that is      *)
(* approved and still is, and the revised draft started from its content.  *)
(* The predecessor a forecast names never changes from row to row.         *)
LineageSound ==
  \A r \in revisions :
    /\ r.data.previous = forecasts[r.id].previous
    /\ r.data.previous # None =>
         LET origin == forecasts[r.data.previous]
         IN /\ r.data.previous # r.id
            /\ origin # None
            /\ origin.status = "approved"
            /\ r.revision = 1 => r.data.content = origin.content

(* An approved forecast is final: no command, however it was delivered,    *)
(* changes it in any field (store.go refuses save, return and a second     *)
(* approval of it; a revision starts a new forecast).                      *)
ApprovedImmutable ==
  [][\A id \in Ids :
       forecasts[id] # None /\ forecasts[id].status = "approved"
         => forecasts'[id] = forecasts[id]]_storeVars

-----------------------------------------------------------------------------
(***************************************************************************)
(* The store implements Workflow: a forecast is its latest revision, and a *)
(* reference is decided once commands has a row for it.                    *)
(***************************************************************************)

DocOf(f) == IF f = None THEN None
            ELSE [content |-> f.content, status |-> f.status, previous |-> f.previous]

W == INSTANCE Workflow WITH docs    <- [id \in Ids |-> DocOf(forecasts[id])],
                            decided <- {ref \in Refs : commands[ref] # None}

ASSUME WorkflowAssumption == None \notin W!Doc

(* Every call of Apply is one step of the workflow, or none.               *)
ImplementsWorkflow == W!Spec
=============================================================================
