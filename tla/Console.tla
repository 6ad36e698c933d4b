------------------------------- MODULE Console -------------------------------
(***************************************************************************)
(* The browser console (web/static/app.js) over the store of module Store: *)
(* tabs that show a list of forecasts read some time ago, an editor that   *)
(* saves on the strength of the revision it was opened with, commands that *)
(* are posted under a new reference each time and polled for a while, and  *)
(* reloads that overtake each other.                                       *)
(*                                                                         *)
(* What is between POST /api/commands and Apply is CommandBus; here a      *)
(* command that was published may be applied at any time, any number of    *)
(* times.  Pages other than the list and the editor hold no state.         *)
(***************************************************************************)
EXTENDS Store

CONSTANTS
  Tabs,                \* the open consoles
  User,                \* who is signed in at each of them
  Admins,              \* the administrators among the Actors
  MaxPolls,            \* 60
  MaxForms, MaxReloads \* bounds: editors opened, reloads per tab

ASSUME ConsoleAssumption ==
  /\ User \in [Tabs -> Actors] /\ Admins \subseteq Actors
  /\ MaxPolls \in Nat /\ MaxForms \in Nat /\ MaxReloads \in Nat

VARIABLES
  published,           \* the commands on TAPROOT
  scope,               \* this organization, or all of them
  shown,               \* forecasts: what a tab last displayed, of this store
  unread,              \* "Unable to read" this organization is displayed
  generation,          \* loadGeneration
  reloads,             \* the reads of the list that are under way
  form,                \* the editor, as it was opened
  enabled,             \* its button "Save draft"
  attempts,            \* the commands a tab is waiting for
  forms,               \* how many editors were opened
  seen,                \* history: the revision a tab last showed
  origin               \* history: the editor a reference was drawn for

listVars == <<scope, shown, unread, generation, reloads, seen>>
editVars == <<published, form, enabled, attempts, forms, origin>>
consoleVars == <<listVars, editVars>>
vars == <<storeVars, consoleVars>>

(* An editor: its number, the forecast, and the revision it was opened at. *)
Form == [n : Nat, id : Ids \cup {None}, base : Nat]

Closed == [n |-> 0, id |-> None, base |-> 0]

(* No answer yet is no list at all.                                        *)
Pending == [id \in {} |-> None]

Scopes == {"current", "all"}

(* A reload: whether saveForecast waits for it, and its answer, without    *)
(* the forecasts of this organization when the portfolio cannot read them. *)
Reload == [generation : Nat, saving : BOOLEAN, unavailable : BOOLEAN,
           answer : [Ids -> Forecast \cup {None}] \cup {Pending}]

Attempt == [cmd : Command, state : {"posted", "queued"}, polls : Nat]

NoList == [id \in Ids |-> None]

ConsoleTypeOK ==
  /\ StoreTypeOK
  /\ published \subseteq Command
  /\ scope \in [Tabs -> Scopes]
  /\ shown \in [Tabs -> [Ids -> Forecast \cup {None}]]
  /\ unread \in [Tabs -> BOOLEAN]
  /\ generation \in [Tabs -> Nat]
  /\ reloads \in [Tabs -> SUBSET Reload]
  /\ form \in [Tabs -> Form]
  /\ enabled \in [Tabs -> BOOLEAN]
  /\ attempts \in [Tabs -> SUBSET Attempt]
  /\ forms \in Nat
  /\ seen \in [Tabs -> [Ids -> Nat]]
  /\ origin \in [Refs -> Form]

Init ==
  /\ StoreInit
  /\ published = {}
  /\ scope = [t \in Tabs |-> "current"]
  /\ shown = [t \in Tabs |-> NoList]
  /\ unread = [t \in Tabs |-> FALSE]
  /\ generation = [t \in Tabs |-> 0]
  /\ reloads = [t \in Tabs |-> {}]
  /\ form = [t \in Tabs |-> Closed]
  /\ enabled = [t \in Tabs |-> TRUE]
  /\ attempts = [t \in Tabs |-> {}]
  /\ forms = 0
  /\ seen = [t \in Tabs |-> [id \in Ids |-> 0]]
  /\ origin = [ref \in Refs |-> Closed]

-----------------------------------------------------------------------------
(* reload                                                                  *)

Ask(t, saving) ==
  /\ generation[t] < MaxReloads
  /\ generation' = [generation EXCEPT ![t] = @ + 1]
  /\ reloads' = [reloads EXCEPT ![t] = @ \cup
       {[generation |-> generation'[t], saving |-> saving, unavailable |-> FALSE,
         answer |-> Pending]}]
  /\ UNCHANGED <<shown, unread, seen>>

(* The page is loaded, or the user chooses another horizon or scope.       *)
StartReload(t) ==
  /\ \E s \in Scopes : scope' = [scope EXCEPT ![t] = s]
  /\ Ask(t, FALSE)
  /\ UNCHANGED <<storeVars, editVars>>

Answered(t, r, answer, unavailable) ==
  /\ r.answer = Pending
  /\ reloads' = [reloads EXCEPT ![t] = (@ \ {r}) \cup
       {[r EXCEPT !.answer = answer, !.unavailable = unavailable]}]
  /\ UNCHANGED <<storeVars, scope, shown, unread, generation, seen, editVars>>

(* GET /api/forecasts or, for all organizations, GET /api/portfolio, whose *)
(* other forecasts are in other stores: the list is read.                  *)
ReadList(t, r) == Answered(t, r, forecasts, FALSE)

(* The portfolio answers 200 when Store.List fails: it says so, without    *)
(* the forecasts of this organization.  (A change of scope begins another  *)
(* reload, so an answer that counts was asked for in the scope of now.)    *)
ReadOthersOnly(t, r) == scope[t] = "all" /\ Answered(t, r, NoList, TRUE)

LatestAlways(t, r) == TRUE

(* An answer that a later reload has overtaken is dropped.                 *)
Latest(t, r) == r.generation = generation[t]

(* saveForecast, done with its reload, enables the button at last.         *)
EndReload(t, r) ==
  /\ reloads' = [reloads EXCEPT ![t] = @ \ {r}]
  /\ enabled' = IF r.saving THEN [enabled EXCEPT ![t] = TRUE] ELSE enabled
  /\ UNCHANGED <<storeVars, published, scope, generation, form, attempts, forms, origin>>

ShowList(t, r) ==
  /\ r.answer # Pending
  /\ IF Latest(t, r)
     THEN /\ shown' = [shown EXCEPT ![t] = r.answer]
          /\ unread' = [unread EXCEPT ![t] = r.unavailable]
          /\ seen' = [seen EXCEPT ![t] = [id \in Ids |->
               IF r.answer[id] = None THEN @[id] ELSE r.answer[id].revision]]
     ELSE UNCHANGED <<shown, unread, seen>>
  /\ EndReload(t, r)

(* The read fails, or its answer is lost: the tab goes on showing the old. *)
ReloadFails(t, r) == UNCHANGED <<shown, unread, seen>> /\ EndReload(t, r)

-----------------------------------------------------------------------------
(* openEditor: whatever is open or waited for, the button is enabled.      *)

Open(t, id, base) ==
  /\ forms < MaxForms
  /\ forms' = forms + 1
  /\ form' = [form EXCEPT ![t] = [n |-> forms + 1, id |-> id, base |-> base]]
  /\ enabled' = [enabled EXCEPT ![t] = TRUE]
  /\ UNCHANGED <<storeVars, published, listVars, attempts, origin>>

OpenNew(t) == Open(t, None, 0)

(* "Edit draft", or the new draft after "revise": what the list says of it *)
(* now is opened, which need not be a draft any more.                      *)
OpenEditor(t, id) ==
  /\ shown[t][id] # None
  /\ Open(t, id, shown[t][id].revision)

CloseEditor(t) ==
  /\ form[t] # Closed
  /\ form' = [form EXCEPT ![t] = Closed]
  /\ UNCHANGED <<storeVars, published, listVars, enabled, attempts, forms, origin>>

-----------------------------------------------------------------------------
(* command                                                                 *)

Used == {ref \in Refs : \E t \in Tabs : \E a \in attempts[t] : a.cmd.ref = ref}
          \cup {c.ref : c \in published} \cup {ref \in Refs : origin[ref] # Closed}

(* uuid(): every attempt has a reference of its own, a repeated one too.   *)
Unused(ref) == ref \notin Used

Wait(t, c) == attempts' = [attempts EXCEPT ![t] = @ \cup {[cmd |-> c, state |-> "posted", polls |-> 0]}]

(* The server, not the browser, says who and with what authority.          *)
CommandOf(t, ref, action, id, content, expected) ==
  [ref |-> ref, org |-> Org, action |-> action, id |-> id, content |-> content,
   expected |-> expected, actor |-> User[t], canApprove |-> User[t] \in Admins]

BaseFromList(t) ==
  IF form[t].id = None \/ shown[t][form[t].id] = None THEN form[t].base
  ELSE shown[t][form[t].id].revision

(* The revision of the editor, however often it was tried with it.         *)
Base(t) == form[t].base

(* saveForecast                                                            *)
Save(t, ref, content) ==
  /\ form[t] # Closed /\ enabled[t]
  /\ Unused(ref) /\ content \in ValidContents
  /\ enabled' = [enabled EXCEPT ![t] = FALSE]
  /\ Wait(t, CommandOf(t, ref, "save", form[t].id, content, Base(t)))
  /\ origin' = [origin EXCEPT ![ref] = form[t]]
  /\ UNCHANGED <<storeVars, published, listVars, form, forms>>

(* The buttons of the detail.                                              *)
Offered(t) ==
  {"submit", "revise"} \cup (IF User[t] \in Admins THEN {"review", "approve", "return"} ELSE {})

(* action: the detail was drawn for a status that may have changed in the  *)
(* list since, but the revision is the list's.  It may lie over an editor. *)
(* After "revise" the new draft is opened, which is OpenEditor.            *)
Press(t, ref, id, action) ==
  /\ shown[t][id] # None /\ action \in Offered(t)
  /\ Unused(ref)
  /\ \E content \in Contents :
       Wait(t, CommandOf(t, ref, action, id, content, shown[t][id].revision))
  /\ UNCHANGED <<storeVars, published, listVars, form, enabled, forms, origin>>

(* The POST is answered 202.                                               *)
Queued(t, a) ==
  /\ a.state = "posted"
  /\ published' = published \cup {a.cmd}
  /\ attempts' = [attempts EXCEPT ![t] = (@ \ {a}) \cup {[a EXCEPT !.state = "queued"]}]
  /\ UNCHANGED <<storeVars, listVars, form, enabled, forms, origin>>

(* command throws: the error is shown, the editor stays as it is and its   *)
(* button is enabled again.                                                *)
Forget(t, a) ==
  /\ attempts' = [attempts EXCEPT ![t] = @ \ {a}]
  /\ enabled' = IF a.cmd.action = "save" THEN [enabled EXCEPT ![t] = TRUE] ELSE enabled
  /\ UNCHANGED <<storeVars, listVars, form, forms, origin>>

(* The POST fails, and nobody knows whether the command was published.     *)
PostFails(t, a) ==
  /\ a.state = "posted"
  /\ published' \in {published, published \cup {a.cmd}}
  /\ Forget(t, a)

Outcome(a) == commands[a.cmd.ref]

(* GET /api/operations/{ref}: still queued.                                *)
Poll(t, a) ==
  /\ a.state = "queued" /\ Outcome(a) = None /\ a.polls < MaxPolls
  /\ attempts' = [attempts EXCEPT ![t] = (@ \ {a}) \cup {[a EXCEPT !.polls = @ + 1]}]
  /\ UNCHANGED <<storeVars, published, listVars, form, enabled, forms, origin>>

(* "Changes are still queued"; a poll that fails ends the wait as well.    *)
GiveUp(t, a) ==
  /\ a.state = "queued"
  /\ UNCHANGED published
  /\ Forget(t, a)

(* Failed, with the error the store recorded.                              *)
LearnFailed(t, a) ==
  /\ a.state = "queued" /\ Outcome(a) # None /\ Outcome(a).status = "failed"
  /\ UNCHANGED published
  /\ Forget(t, a)

(* Applied: the editor that is open now is closed, and the list reloaded,  *)
(* in the scope the tab has.                                               *)
LearnApplied(t, a) ==
  /\ a.state = "queued" /\ Outcome(a) # None /\ Outcome(a).status = "applied"
  /\ attempts' = [attempts EXCEPT ![t] = @ \ {a}]
  /\ UNCHANGED scope
  /\ Ask(t, a.cmd.action = "save")
  /\ form' = IF a.cmd.action = "save" THEN [form EXCEPT ![t] = Closed] ELSE form
  /\ UNCHANGED <<storeVars, published, enabled, forms, origin>>

(* The consumer applies a published command, again if it is redelivered.   *)
(* (Commands are the commands that can reach Apply.)                       *)
Deliver(c) == Apply(c) /\ UNCHANGED consoleVars

-----------------------------------------------------------------------------

TabNext(t) ==
  \/ StartReload(t) \/ OpenNew(t) \/ CloseEditor(t)
  \/ \E r \in reloads[t] : ReadList(t, r) \/ ReadOthersOnly(t, r) \/ ShowList(t, r) \/ ReloadFails(t, r)
  \/ \E id \in Ids : OpenEditor(t, id)
  \/ \E ref \in Refs, content \in Contents : Save(t, ref, content)
  \/ \E ref \in Refs, id \in Ids, action \in Actions : Press(t, ref, id, action)
  \/ \E a \in attempts[t] :
       Queued(t, a) \/ PostFails(t, a) \/ Poll(t, a) \/ GiveUp(t, a)
         \/ LearnFailed(t, a) \/ LearnApplied(t, a)

Next == (\E t \in Tabs : TabNext(t)) \/ \E c \in published \cap Commands : Deliver(c)

Spec == Init /\ [][Next]_vars

-----------------------------------------------------------------------------

Applied(ref) == commands[ref] # None /\ commands[ref].status = "applied"

(* However often the user tries to save an editor of an existing forecast  *)
(* again, after an answer that was lost, a wait that ended too early or    *)
(* beside an attempt that is still under way, its changes are applied at   *)
(* most once, although every attempt has a new reference.  (The editor of  *)
(* a new forecast has no revision: tried twice, it may create two.)        *)
EditAppliedOnce ==
  \A r, s \in Refs :
    /\ origin[r] # Closed /\ origin[r] = origin[s] /\ origin[r].id # None
    /\ Applied(r) /\ Applied(s)
    => r = s

(* A tab never shows an older revision of a forecast than it showed        *)
(* before, in whatever order the answers of its reloads arrive and         *)
(* whatever it showed in between (app.js: loadGeneration).  A forecast it  *)
(* showed disappears only when all organizations are in view and this one  *)
(* could not be read, and the tab says so (portfolio.go: "unavailable").   *)
ShownNeverOlder ==
  [][\A t \in Tabs, id \in Ids : seen[t][id] > 0 =>
       IF shown'[t][id] = None THEN unread'[t]
       ELSE shown'[t][id].revision >= seen[t][id]]_vars
=============================================================================
