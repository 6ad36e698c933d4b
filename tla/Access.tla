-------------------------------- MODULE Access --------------------------------
(***************************************************************************)
(* Signing in and being let in: AuthMiddleware.Wrap in front of every      *)
(* handler, one browser, and iamnim (external), which knows the sessions   *)
(* and memberships and may change them at any time, also between the two   *)
(* questions Wrap asks about one request.                                  *)
(*                                                                         *)
(* Every organization has a workspace of its own with its own Wrap; the    *)
(* browser talks to Home, and module Portfolio lets Home ask the others.   *)
(***************************************************************************)
EXTENDS Naturals

CONSTANTS
  Orgs, Home,          \* the organizations, and the one of this workspace
  Tokens,              \* session tokens iamnim may hand out
  None,                \* "no token"
  Paths,               \* what a browser may ask for
  PostOnly,            \* the paths without a GET handler
  Root,                \* "/"
  MaxChanges           \* bound on revocations and changes of membership

ASSUME AccessAssumption ==
  /\ Home \in Orgs
  /\ None \notin Tokens \cup Paths
  /\ PostOnly \subseteq Paths /\ Root \in Paths \ PostOnly
  /\ MaxChanges \in Nat

Roles == {"none", "member", "admin"}

VARIABLES
  live,                \* the tokens iamnim accepts
  role,                \* the user's role in each organization
  changes,             \* how often iamnim changed its mind
  browser,             \* the request the browser waits for
  cookie,              \* guidance_session
  shown,               \* how the last request ended
  check,               \* how far Wrap is with the request at each workspace
  held                 \* history: <<token, org, role>> that were good during the request

identity == <<live, role, changes>>
accessVars == <<identity, browser, cookie, shown, check, held>>

Token == Tokens \cup {None}

Request == [at      : {"idle", "sent", "login"},
            method  : {"GET", "POST"},
            path    : Paths,
            token   : Token,      \* ?token=, set on the way back from iamnim
            referer : Paths \cup {None}]  \* of this site, else None

Check == [at      : {"idle", "me", "memberships", "decided"},
          token   : Token,
          verdict : {"none", "login", "unauthorized", "denied", "unavailable", "served"},
          orgs    : SUBSET Orgs,  \* SessionUser.Memberships
          admin   : BOOLEAN]

Outcomes == {"none", "page", "accepted", "refused", "missing", "portfolio"}

AccessTypeOK ==
  /\ live \subseteq Tokens
  /\ role \in [Orgs -> Roles]
  /\ changes \in 0 .. MaxChanges
  /\ browser \in Request
  /\ cookie \in Token
  /\ shown \in Outcomes
  /\ check \in [Orgs -> Check]
  /\ held \subseteq Tokens \X Orgs \X Roles

NoCheck ==
  [at |-> "idle", token |-> None, verdict |-> "none", orgs |-> {}, admin |-> FALSE]

AtRest ==
  [at |-> "idle", method |-> "GET", path |-> Root, token |-> None, referer |-> None]

AccessInit ==
  /\ live \in SUBSET Tokens
  /\ role \in [Orgs -> Roles]
  /\ changes = 0
  /\ browser = AtRest
  /\ cookie \in Token
  /\ shown = "none"
  /\ check = [o \in Orgs |-> NoCheck]
  /\ held = {}

(* What iamnim would confirm at this moment.                               *)
Standing(tokens, roles) ==
  {<<t, o, roles[o]>> : t \in tokens, o \in {p \in Orgs : roles[p] # "none"}}

-----------------------------------------------------------------------------
(* iamnim                                                                  *)

Revoke(t) ==
  /\ t \in live /\ changes < MaxChanges
  /\ live' = live \ {t}
  /\ changes' = changes + 1
  /\ UNCHANGED <<role, browser, cookie, shown, check, held>>

ChangeRole(o, r) ==
  /\ role[o] # r /\ changes < MaxChanges
  /\ role' = [role EXCEPT ![o] = r]
  /\ changes' = changes + 1
  /\ held' = held \cup Standing(live, role')
  /\ UNCHANGED <<live, browser, cookie, shown, check>>

(* The user signs in and is sent back with a token.  Nothing here relies   *)
(* on that token being good: it may be refused already.                    *)
SignIn(t) ==
  /\ browser.at = "login"
  /\ live' \in {live, live \cup {t}}
  /\ browser' = [browser EXCEPT !.at = "sent", !.token = t]
  /\ held' = Standing(live', role)
  /\ UNCHANGED <<role, changes, cookie, shown, check>>

-----------------------------------------------------------------------------
(* The browser                                                             *)

Visit(method, path, referer) ==
  /\ browser.at = "idle"
  /\ referer \notin PostOnly        \* only a page can carry a form
  /\ method = "GET" => path \notin PostOnly /\ referer = None
  /\ method = "POST" => path \in PostOnly
  /\ browser' = [at |-> "sent", method |-> method, path |-> path, token |-> None,
                 referer |-> referer]
  /\ shown' = "none"
  /\ held' = Standing(live, role)
  /\ UNCHANGED <<identity, cookie, check>>

Done(outcome) == browser' = AtRest /\ shown' = outcome

(* The form token of a write does not match: refused in front of Wrap.     *)
RefuseForm ==
  /\ browser.at = "sent" /\ browser.method = "POST" /\ check[Home].at = "idle"
  /\ Done("refused")
  /\ UNCHANGED <<identity, cookie, check, held>>

-----------------------------------------------------------------------------
(* Wrap                                                                    *)

Callback == browser.token # None

Begin(token) ==
  IF token = None THEN [NoCheck EXCEPT !.at = "decided", !.verdict = "login"]
  ELSE [NoCheck EXCEPT !.at = "me", !.token = token]

Receive ==
  /\ browser.at = "sent" /\ check[Home].at = "idle"
  /\ check' = [check EXCEPT ![Home] = Begin(IF Callback THEN browser.token ELSE cookie)]
  /\ UNCHANGED <<identity, browser, cookie, shown, held>>

Decide(o, verdict) ==
  check' = [check EXCEPT ![o] = [@ EXCEPT !.at = "decided", !.verdict = verdict]]

(* What an answer other than 200 makes of the request: 401 and 403 are     *)
(* passed on, everything else (a timeout too) is 503.                      *)
Failure(o) == IF check[o].token \in live THEN {"denied", "unavailable"}
              ELSE {"unauthorized", "denied", "unavailable"}

(* fetch "/api/me"                                                         *)
AskMe(o) ==
  /\ check[o].at = "me"
  /\ \/ /\ check[o].token \in live
        /\ check' = [check EXCEPT ![o] = [@ EXCEPT !.at = "memberships"]]
     \/ \E verdict \in Failure(o) : Decide(o, verdict)
  /\ UNCHANGED <<identity, browser, cookie, shown, held>>

AdmitAnyMember(o) == "served"

Admit(o) == IF role[o] = "none" THEN "denied" ELSE "served"

(* fetch "/api/me/memberships" and look for this organization.             *)
AskMemberships(o) ==
  /\ check[o].at = "memberships"
  /\ \/ /\ check[o].token \in live
        /\ check' = [check EXCEPT ![o] =
                       [@ EXCEPT !.at = "decided", !.verdict = Admit(o),
                                 !.orgs = {p \in Orgs : role[p] # "none"},
                                 !.admin = (role[o] = "admin")]]
     \/ \E verdict \in Failure(o) : Decide(o, verdict)
  /\ UNCHANGED <<identity, browser, cookie, shown, held>>

Answering(verdicts) ==
  /\ browser.at = "sent" /\ check[Home].at = "decided" /\ check[Home].verdict \in verdicts
  /\ check' = [check EXCEPT ![Home] = NoCheck]

(* redirectToLogin: the page to return to is the one asked for, or for a   *)
(* form post the page of this site that carried the form.                  *)
ReturnTarget ==
  IF browser.method = "GET" THEN browser.path
  ELSE IF browser.referer \in Paths THEN browser.referer
  ELSE Root

ToLogin ==
  /\ browser' = [AtRest EXCEPT !.at = "login", !.path = ReturnTarget]
  /\ UNCHANGED shown

ReloginAlways == browser.method = "GET"

(* A callback that is refused is not sent to sign in again.                *)
Relogin == ~Callback /\ browser.method = "GET"

NotSignedIn ==
  /\ Answering({"login"})
  /\ ToLogin
  /\ UNCHANGED <<identity, cookie, held>>

Unauthorized ==
  /\ Answering({"unauthorized"})
  /\ cookie' = None
  /\ IF Relogin THEN ToLogin ELSE Done("refused")
  /\ UNCHANGED <<identity, held>>

Refused ==
  /\ Answering({"denied", "unavailable"})
  /\ Done("refused")
  /\ UNCHANGED <<identity, cookie, held>>

(* A good token becomes the cookie; the browser asks again without it.     *)
SignedIn ==
  /\ Answering({"served"}) /\ Callback
  /\ cookie' = check[Home].token
  /\ browser' = [AtRest EXCEPT !.at = "sent", !.path = browser.path]
  /\ held' = Standing(live, role)
  /\ UNCHANGED <<identity, shown>>

(* The handlers that answer at once.                                       *)
Handle(path) ==
  /\ Answering({"served"}) /\ ~Callback /\ browser.path = path
  /\ Done(IF browser.method = "POST" THEN "accepted"
          ELSE IF path \in PostOnly THEN "missing" ELSE "page")
  /\ UNCHANGED <<identity, cookie, held>>

-----------------------------------------------------------------------------

(* The steps of iamnim and of the browser that nothing forces.             *)
Environment ==
  \/ \E t \in Tokens : Revoke(t)
  \/ \E o \in Orgs, r \in Roles : ChangeRole(o, r)
  \/ \E method \in {"GET", "POST"}, path \in Paths, referer \in Paths \cup {None} :
       Visit(method, path, referer)

(* The steps of Home before a handler runs, and of a user who signs in.    *)
Wrap ==
  \/ \E t \in Tokens : SignIn(t)
  \/ RefuseForm \/ Receive \/ AskMe(Home) \/ AskMemberships(Home)
  \/ NotSignedIn \/ Unauthorized \/ Refused \/ SignedIn
=============================================================================
