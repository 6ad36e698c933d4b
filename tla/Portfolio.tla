------------------------------ MODULE Portfolio ------------------------------
(***************************************************************************)
(* Server.portfolio: the forecasts of every workspace the user may see, in *)
(* one answer.  Home reads its own; one goroutine per other workspace asks *)
(* that workspace with the user's cookie, and its Wrap (module Access)     *)
(* checks the membership again.  The goroutines append to two slices under *)
(* one mutex, and a wait group holds the answer back.                      *)
(***************************************************************************)
EXTENDS Access

CONSTANTS
  Overview,            \* the path /api/portfolio
  Deployed,            \* the workspaces GUIDANCE_WORKSPACES names
  Slugs,               \* the organizations whose name is a host label
  Ids,                 \* forecast identifiers
  NoOne                \* "nobody holds the mutex"

Entry == Orgs \X Ids

(* What workspaceForecasts returns: the entries, or an error.              *)
Replies == [ok : BOOLEAN, items : SUBSET Entry]

Failed == [ok |-> FALSE, items |-> {}]

Items(items) == [ok |-> TRUE, items |-> items]

ASSUME PortfolioAssumption ==
  /\ Overview \in Paths \ PostOnly
  /\ NoOne \notin Orgs

VARIABLES
  wanted,              \* the workspaces to report on
  pending,             \* those the loop has not come to
  task,                \* the goroutine of each workspace
  reply,               \* what was read from it
  mu,                  \* who holds the mutex
  local,               \* the slices as a goroutine read them under the mutex
  entries, unavailable

portfolioVars == <<wanted, pending, task, reply, mu, local, entries, unavailable>>
vars == <<accessVars, portfolioVars>>

Slices == [entries : SUBSET Entry, unavailable : SUBSET Orgs]

NoSlices == [entries |-> {}, unavailable |-> {}]

TypeOK ==
  /\ AccessTypeOK
  /\ wanted \subseteq Orgs /\ pending \subseteq wanted
  /\ task \in [Orgs -> {"none", "spawned", "reading", "locking", "appending", "done"}]
  /\ reply \in [Orgs -> Replies]
  /\ mu \in Orgs \cup {NoOne}
  /\ local \in [Orgs -> Slices]
  /\ entries \subseteq Entry /\ unavailable \subseteq Orgs

NoTasks == [o \in Orgs |-> "none"]

NoReplies == [o \in Orgs |-> Failed]

Init ==
  /\ AccessInit
  /\ wanted = {} /\ pending = {} /\ task = NoTasks /\ reply = NoReplies
  /\ mu = NoOne /\ local = [o \in Orgs |-> NoSlices]
  /\ entries = {} /\ unavailable = {}

-----------------------------------------------------------------------------

(* The membership list names the workspaces; the deployment only says      *)
(* which of them exist.                                                    *)
Workspaces(orgs) == ((orgs \cap Deployed) \cup {Home}) \cap Slugs

Serving ==
  /\ browser.at = "sent" /\ browser.path = Overview /\ browser.method = "GET" /\ ~Callback
  /\ check[Home].at = "decided" /\ check[Home].verdict = "served"

(* The request reaches the handler.                                        *)
Start ==
  /\ Serving /\ shown = "none"
  /\ shown' = "portfolio"
  /\ wanted' = Workspaces(check[Home].orgs) /\ pending' = wanted'
  /\ UNCHANGED <<identity, browser, cookie, check, held>>
  /\ UNCHANGED <<task, reply, mu, local, entries, unavailable>>

Running == Serving /\ shown = "portfolio"

MuFreeAlways == TRUE

MuFree == mu = NoOne

(* The loop comes to its own workspace: Store.List, then both slices under *)
(* the mutex.                                                              *)
ReadHome ==
  /\ Running /\ Home \in pending /\ MuFree
  /\ pending' = pending \ {Home}
  /\ \/ /\ reply' = [reply EXCEPT ![Home] = Failed]
        /\ unavailable' = unavailable \cup {Home}
        /\ UNCHANGED entries
     \/ \E items \in SUBSET ({Home} \X Ids) :
          /\ reply' = [reply EXCEPT ![Home] = Items(items)]
          /\ entries' = entries \cup items
          /\ UNCHANGED unavailable
  /\ task' = [task EXCEPT ![Home] = "done"]
  /\ UNCHANGED <<accessVars, wanted, mu, local>>

(* The loop comes to another workspace: go func(org)                       *)
Spawn(o) ==
  /\ Running /\ o \in pending \ {Home}
  /\ pending' = pending \ {o}
  /\ task' = [task EXCEPT ![o] = "spawned"]
  /\ UNCHANGED <<accessVars, wanted, reply, mu, local, entries, unavailable>>

(* workspaceForecasts sends the request with the user's cookie.            *)
Ask(o) ==
  /\ Running /\ task[o] = "spawned"
  /\ task' = [task EXCEPT ![o] = "reading"]
  /\ check' = [check EXCEPT ![o] = Begin(check[Home].token)]
  /\ UNCHANGED <<identity, browser, cookie, shown, held>>
  /\ UNCHANGED <<wanted, pending, reply, mu, local, entries, unavailable>>

(* The other workspace asks iamnim, as Home did.                           *)
CheckThere(o) ==
  /\ o # Home /\ task[o] = "reading"
  /\ AskMe(o) \/ AskMemberships(o)
  /\ UNCHANGED portfolioVars

(* An answer that carries a forecast of another organization is refused.   *)
Accept(o, items) == IF \A e \in items : e[1] = o THEN Items(items) ELSE Failed

Read(o, items) ==
  /\ task' = [task EXCEPT ![o] = "locking"]
  /\ reply' = [reply EXCEPT ![o] = items]
  /\ check' = [check EXCEPT ![o] = NoCheck]
  /\ UNCHANGED <<identity, browser, cookie, shown, held>>
  /\ UNCHANGED <<wanted, pending, mu, local, entries, unavailable>>

(* What comes back is a status other than 200, or forecasts, whatever that *)
(* workspace takes for its own.                                            *)
Answered(o) ==
  /\ o # Home /\ task[o] = "reading" /\ check[o].at = "decided"
  /\ IF check[o].verdict = "served"
     THEN \E items \in SUBSET Entry : Read(o, Accept(o, items))
     ELSE Read(o, Failed)

(* No answer within the 12 seconds of the client, or none that decodes.    *)
NoAnswer(o) ==
  /\ o # Home /\ task[o] = "reading"
  /\ Read(o, Failed)

Lock(o) ==
  /\ task[o] = "locking" /\ MuFree
  /\ mu' = o
  /\ local' = [local EXCEPT ![o] = [entries |-> entries, unavailable |-> unavailable]]
  /\ task' = [task EXCEPT ![o] = "appending"]
  /\ UNCHANGED <<accessVars, wanted, pending, reply, entries, unavailable>>

Append(o) ==
  /\ task[o] = "appending"
  /\ IF reply[o].ok
     THEN entries' = local[o].entries \cup reply[o].items /\ UNCHANGED unavailable
     ELSE unavailable' = local[o].unavailable \cup {o} /\ UNCHANGED entries
  /\ mu' = NoOne
  /\ local' = [local EXCEPT ![o] = NoSlices]
  /\ task' = [task EXCEPT ![o] = "done"]
  /\ UNCHANGED <<accessVars, wanted, pending, reply>>

AllDone == pending = {} /\ \A o \in wanted : task[o] = "done"

(* wg.Wait() returns, the answer is written and the locals are gone.       *)
Respond ==
  /\ Running /\ AllDone
  /\ browser' = AtRest
  /\ check' = [check EXCEPT ![Home] = NoCheck]
  /\ wanted' = {} /\ task' = NoTasks /\ reply' = NoReplies
  /\ entries' = {} /\ unavailable' = {}
  /\ UNCHANGED <<identity, cookie, shown, held, pending, mu, local>>

-----------------------------------------------------------------------------

Serve == Wrap \/ \E path \in Paths \ {Overview} : Handle(path)

Step(o) == Spawn(o) \/ Ask(o) \/ NoAnswer(o) \/ Lock(o) \/ Append(o)

Next ==
  \/ (Environment \/ Serve) /\ UNCHANGED portfolioVars
  \/ Start \/ ReadHome \/ Respond
  \/ \E o \in Orgs : Step(o) \/ CheckThere(o) \/ Answered(o)

(* Home's server runs, iamnim is asked with a timeout, and so is every     *)
(* other workspace: it need not answer.                                    *)
Fairness ==
  /\ WF_vars(Serve /\ UNCHANGED portfolioVars)
  /\ WF_vars(Start \/ ReadHome \/ Respond)
  /\ \A o \in Orgs : WF_vars(Step(o))

Spec == Init /\ [][Next]_vars

FairSpec == Spec /\ Fairness

-----------------------------------------------------------------------------

(* Whoever is served had a live session and the role he is given at some   *)
(* moment of this very request, at the workspace that serves him and at    *)
(* every workspace whose forecasts the portfolio shows: no identity,       *)
(* membership or reply outlives its revocation ("A cached identity must    *)
(* never outlive membership or token revocation").                         *)
NoAccessWithoutMembership ==
  /\ \A o \in Orgs : check[o].verdict = "served" =>
       \E r \in Roles : /\ <<check[o].token, o, r>> \in held
                        /\ check[o].admin => r = "admin"
  /\ Serving => \A e \in entries : e[1] = Home \/ \E r \in Roles : <<check[Home].token, e[1], r>> \in held

(* When the portfolio is answered, every workspace of the user is          *)
(* accounted for: all it sent is shown, or it is named as unavailable and  *)
(* nothing of it is shown.  No append of a goroutine is lost.              *)
WorkspacesAccounted ==
  AllDone =>
    /\ unavailable = {o \in wanted : ~reply[o].ok}
    /\ entries = UNION {reply[o].items : o \in {p \in wanted : reply[p].ok}}
    /\ \A e \in entries : e \in reply[e[1]].items

(* Every request ends, through sign-ins, refusals, revocations and silent  *)
(* workspaces: no redirect loop, no wait group left behind.  It never ends *)
(* on a path that answers only posts, whatever request led to the sign-in  *)
(* (#276).                                                                 *)
RequestsEnd == browser.at # "idle" ~> browser.at = "idle" /\ shown # "missing"
=============================================================================
