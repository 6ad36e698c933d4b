------------------------------ MODULE Workflow ------------------------------
(***************************************************************************)
(* What the forecast store promises to everyone who sends it commands:     *)
(*                                                                         *)
(*   - an operation reference is decided once, whatever is delivered how   *)
(*     many times, and deciding it changes at most one forecast;           *)
(*   - a forecast goes draft -> submitted -> reviewed -> approved, may be  *)
(*     returned to draft before it is approved, and can be edited only as  *)
(*     a draft, so what is approved is what was submitted and reviewed;    *)
(*   - an approved forecast never changes again: it is superseded by a new *)
(*     draft that names it as its predecessor.                             *)
(*                                                                         *)
(* There are no tables, revisions, queues or crashes here.  Store and      *)
(* CommandBus are shown to implement this module.                          *)
(***************************************************************************)

CONSTANTS
  Refs,                \* operation references
  Ids,                 \* forecast identifiers
  Contents,            \* what an editor of a forecast can enter
  ValidContents,       \* the contents that may be stored
  ApprovableContents,  \* the contents that may be approved
  None                 \* "no forecast"

VARIABLES
  docs,                \* the forecasts, by identifier
  decided              \* the references whose outcome is fixed

vars == <<docs, decided>>

Doc == [content  : Contents,
        status   : {"draft", "submitted", "reviewed", "approved"},
        previous : Ids \cup {None}]

TypeOK ==
  /\ docs \in [Ids -> Doc \cup {None}]
  /\ decided \subseteq Refs

Init ==
  /\ docs = [id \in Ids |-> None]
  /\ decided = {}

-----------------------------------------------------------------------------

Decide(ref) ==
  /\ ref \notin decided
  /\ decided' = decided \cup {ref}

(* The command is refused: its reference is used up and nothing changes.   *)
Refuse(ref) ==
  /\ Decide(ref)
  /\ UNCHANGED docs

Create(ref, id, content) ==
  /\ Decide(ref)
  /\ docs[id] = None
  /\ content \in ValidContents
  /\ docs' = [docs EXCEPT ![id] = [content |-> content, status |-> "draft", previous |-> None]]

Edit(ref, id, content) ==
  /\ Decide(ref)
  /\ docs[id] # None /\ docs[id].status = "draft"
  /\ content \in ValidContents
  /\ docs' = [docs EXCEPT ![id] = [@ EXCEPT !.content = content]]

Move(ref, id, from, to) ==
  /\ Decide(ref)
  /\ docs[id] # None /\ docs[id].status = from
  /\ docs' = [docs EXCEPT ![id] = [@ EXCEPT !.status = to]]

Submit(ref, id) == Move(ref, id, "draft", "submitted")

Review(ref, id) == Move(ref, id, "submitted", "reviewed")

Approve(ref, id) ==
  /\ docs[id] # None /\ docs[id].content \in ApprovableContents
  /\ Move(ref, id, "reviewed", "approved")

Return(ref, id) ==
  \E from \in {"draft", "submitted", "reviewed"} : Move(ref, id, from, "draft")

Revise(ref, id, new) ==
  /\ Decide(ref)
  /\ docs[id] # None /\ docs[id].status = "approved"
  /\ docs[new] = None
  /\ docs' = [docs EXCEPT ![new] = [content  |-> docs[id].content,
                                    status   |-> "draft",
                                    previous |-> id]]

Next ==
  \E ref \in Refs :
    \/ Refuse(ref)
    \/ \E id \in Ids :
         \/ Submit(ref, id)
         \/ Review(ref, id)
         \/ Approve(ref, id)
         \/ Return(ref, id)
         \/ \E content \in Contents : Create(ref, id, content) \/ Edit(ref, id, content)
         \/ \E new \in Ids : Revise(ref, id, new)

Spec == Init /\ [][Next]_vars
=============================================================================
