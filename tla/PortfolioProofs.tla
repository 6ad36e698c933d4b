--------------------------- MODULE PortfolioProofs ---------------------------
(***************************************************************************)
(* Proofs about Access and Portfolio: nobody is served, and nothing of a   *)
(* workspace is shown, without a membership confirmed during the request,  *)
(* and no goroutine's append is lost, for any number of organizations,     *)
(* tokens, paths and revocations.                                          *)
(***************************************************************************)
EXTENDS Portfolio, TLAPS

(* What iamnim would confirm now was good during the request.              *)
HeldIsCurrent == browser.at = "sent" => Standing(live, role) \subseteq held

(* Good o: the user had his role there at some moment of the request.      *)
Good(token, o) == \E r \in Roles : <<token, o, r>> \in held

GoodRole(o) ==
  \E r \in Roles : <<check[o].token, o, r>> \in held /\ (check[o].admin => r = "admin")

ServedIsDecided == \A o \in Orgs : check[o].verdict = "served" => check[o].at = "decided"

ServedIsGood == \A o \in Orgs : check[o].verdict = "served" => GoodRole(o)

ChecksInRequest ==
  /\ check[Home].at # "idle" => browser.at = "sent"
  /\ \A o \in Orgs \ {Home} : check[o].at # "idle" =>
       task[o] = "reading" /\ check[o].token = check[Home].token

(* Between two requests nothing of the handler is left.                    *)
Quiet ==
  /\ wanted = {} /\ pending = {} /\ task = NoTasks
  /\ mu = NoOne /\ entries = {} /\ unavailable = {}

QuietOutside == ~Running => Quiet

Tasks ==
  /\ task[Home] \in {"none", "done"}
  /\ \A o \in Orgs : o \notin wanted \/ o \in pending => task[o] = "none"

(* A reply that will be shown is that of a workspace that let the user in. *)
RepliesGood ==
  \A o \in Orgs : task[o] \in {"locking", "appending", "done"} /\ reply[o].ok =>
    /\ o # Home => Good(check[Home].token, o)
    /\ \A e \in reply[o].items : e[1] = o

Mutex ==
  /\ mu # NoOne => task[mu] = "appending"
  /\ \A o \in Orgs : task[o] = "appending" =>
       mu = o /\ local[o] = [entries |-> entries, unavailable |-> unavailable]

(* The slices hold what the goroutines that are done have appended.        *)
SlicesExact ==
  /\ unavailable = {o \in wanted : task[o] = "done" /\ ~reply[o].ok}
  /\ entries = UNION {reply[o].items : o \in {p \in wanted : task[p] = "done" /\ reply[p].ok}}

AccessInv == HeldIsCurrent /\ ServedIsDecided /\ ServedIsGood

PortfolioInv ==
  /\ TypeOK /\ AccessInv /\ ChecksInRequest
  /\ QuietOutside /\ Tasks /\ RepliesGood /\ Mutex /\ SlicesExact

-----------------------------------------------------------------------------
(* Access                                                                  *)

LEMMA NoCheckTyped ==
  /\ NoCheck \in Check /\ NoCheck.at = "idle" /\ NoCheck.verdict = "none"
  /\ \A token \in Token :
       /\ Begin(token) \in Check /\ Begin(token).verdict # "served"
       /\ Begin(token).at # "idle"
       /\ Begin(token).token = token
<1>1. NoCheck \in Check /\ NoCheck.at = "idle" /\ NoCheck.verdict = "none"
  BY DEF NoCheck, Check, Token
<1>2. ASSUME NEW token \in Token
      PROVE  /\ Begin(token) \in Check /\ Begin(token).verdict # "served"
             /\ Begin(token).at # "idle"
             /\ Begin(token).token = token
  BY <1>1 DEF Begin, NoCheck, Check, Token
<1> QED BY <1>1, <1>2

(* One question to iamnim about the request at one workspace.              *)
LEMMA Questioned ==
  ASSUME AccessTypeOK, ServedIsDecided, Standing(live, role) \subseteq held,
         NEW o \in Orgs, AskMe(o) \/ AskMemberships(o)
  PROVE  /\ UNCHANGED <<identity, browser, cookie, shown, held>>
         /\ check[o].at \in {"me", "memberships"}
         /\ check' \in [Orgs -> Check]
         /\ \A p \in Orgs : p # o => check'[p] = check[p]
         /\ check'[o].at # "idle" /\ check'[o].token = check[o].token
         /\ check'[o].verdict = "served" => check'[o].at = "decided"
         /\ check'[o].verdict = "served" => GoodRole(o)'
<1>1. check \in [Orgs -> Check] /\ check[o] \in Check
  BY DEF AccessTypeOK
<1>2. UNCHANGED <<identity, browser, cookie, shown, held>> /\ check[o].at \in {"me", "memberships"}
  BY DEF AskMe, AskMemberships
<1>3. check[o].verdict # "served"
  BY <1>2 DEF ServedIsDecided
<1>4. PICK c \in Check :
         /\ check' = [check EXCEPT ![o] = c]
         /\ c.token = check[o].token /\ c.at # "idle"
         /\ c.verdict = "served" =>
              /\ c.at = "decided"
              /\ \E r \in Roles : <<c.token, o, r>> \in held /\ (c.admin => r = "admin")
  <2>1. ASSUME NEW verdict \in {"unauthorized", "denied", "unavailable"}, Decide(o, verdict)
        PROVE  \E c \in Check :
                 /\ check' = [check EXCEPT ![o] = c]
                 /\ c.token = check[o].token /\ c.at # "idle" /\ c.verdict # "served"
    <3> DEFINE c == [check[o] EXCEPT !.at = "decided", !.verdict = verdict]
    <3>1. c \in Check /\ c.token = check[o].token /\ c.at = "decided" /\ c.verdict = verdict
      BY <1>1 DEF Check
    <3>2. check' = [check EXCEPT ![o] = c]
      BY <2>1 DEF Decide
    <3> HIDE DEF c
    <3> QED BY <3>1, <3>2
  <2>2. Failure(o) \subseteq {"unauthorized", "denied", "unavailable"}
    BY DEF Failure
  <2>3. ASSUME check' = [check EXCEPT ![o] = [@ EXCEPT !.at = "memberships"]]
        PROVE  \E c \in Check :
                 /\ check' = [check EXCEPT ![o] = c]
                 /\ c.token = check[o].token /\ c.at # "idle" /\ c.verdict # "served"
    <3> DEFINE c == [check[o] EXCEPT !.at = "memberships"]
    <3>1. c \in Check /\ c.token = check[o].token /\ c.at = "memberships" /\ c.verdict # "served"
      BY <1>1, <1>3 DEF Check
    <3>2. check' = [check EXCEPT ![o] = c]
      BY <2>3
    <3> HIDE DEF c
    <3> QED BY <3>1, <3>2
  <2>4. ASSUME check[o].token \in live, AskMemberships(o),
               check' = [check EXCEPT ![o] =
                           [@ EXCEPT !.at = "decided", !.verdict = Admit(o),
                                     !.orgs = {p \in Orgs : role[p] # "none"},
                                     !.admin = (role[o] = "admin")]]
        PROVE  \E c \in Check :
                 /\ check' = [check EXCEPT ![o] = c]
                 /\ c.token = check[o].token /\ c.at = "decided"
                 /\ c.verdict = "served" =>
                      \E r \in Roles : <<c.token, o, r>> \in held /\ (c.admin => r = "admin")
    <3>1. PICK b \in BOOLEAN : b = (role[o] = "admin")
      OBVIOUS
    <3>2. PICK m \in SUBSET Orgs : m = {p \in Orgs : role[p] # "none"}
      OBVIOUS
    <3>3. PICK v \in {"denied", "served"} : v = Admit(o)
      BY DEF Admit
    <3> DEFINE c == [check[o] EXCEPT !.at = "decided", !.verdict = v, !.orgs = m, !.admin = b]
    <3>4. /\ c \in Check /\ c.token = check[o].token /\ c.at = "decided"
          /\ c.verdict = v /\ c.admin = b
      BY <1>1 DEF Check
    <3>5. check' = [check EXCEPT ![o] = c]
      BY <2>4, <3>1, <3>2, <3>3, Zenon
    <3>6. v = "served" => <<check[o].token, o, role[o]>> \in held
      <4>1. v = "served" => role[o] # "none"
        BY <3>3 DEF Admit
      <4>2. v = "served" => <<check[o].token, o, role[o]>> \in Standing(live, role)
        BY <2>4, <4>1 DEF Standing
      <4> QED BY <4>2
    <3>7. role[o] \in Roles
      BY DEF AccessTypeOK
    <3> HIDE DEF c
    <3> QED BY <3>1, <3>4, <3>5, <3>6, <3>7
  <2>5. CASE AskMe(o)
    BY <2>1, <2>2, <2>3, <2>5 DEF AskMe
  <2>6. CASE AskMemberships(o)
    BY <2>1, <2>2, <2>4, <2>6 DEF AskMemberships
  <2> QED BY <2>5, <2>6
<1>5. check'[o] = c /\ \A p \in Orgs : p # o => check'[p] = check[p]
  BY <1>1, <1>4
<1>6. check' \in [Orgs -> Check] /\ held' = held
  BY <1>1, <1>2, <1>4
<1> QED BY <1>2, <1>4, <1>5, <1>6 DEF GoodRole

(* A step of the browser or of Home, in front of the handlers.             *)
HomeStep ==
  /\ AccessTypeOK' /\ HeldIsCurrent'
  /\ \A o \in Orgs \ {Home} : check'[o] = check[o]
  /\ check'[Home].at # "idle" => browser'.at = "sent"
  /\ check'[Home].verdict = "served" => check'[Home].at = "decided" /\ GoodRole(Home)'

LEMMA StandingTyped ==
  ASSUME NEW tokens \in SUBSET Tokens, NEW roles \in [Orgs -> Roles]
  PROVE  Standing(tokens, roles) \in SUBSET (Tokens \X Orgs \X Roles)
BY DEF Standing

(* The steps of the browser while no workspace looks at the request.       *)
LEMMA BrowserSteps ==
  ASSUME AccessTypeOK, HeldIsCurrent, ServedIsDecided,
         check[Home].at # "idle" => browser.at = "sent",
         \/ \E t \in Tokens : SignIn(t)
         \/ \E method \in {"GET", "POST"}, path \in Paths, referer \in Paths \cup {None} :
              Visit(method, path, referer)
         \/ RefuseForm
  PROVE  HomeStep
<1> USE AccessAssumption DEF AccessTypeOK
<1>0. AtRest \in Request /\ AtRest.at = "idle"
  BY DEF AtRest, Request, Token
<1>1. ASSUME NEW t \in Tokens, SignIn(t)
      PROVE  HomeStep
  <2>1. /\ browser.at = "login" /\ UNCHANGED <<role, changes, cookie, shown, check>>
        /\ live' \subseteq Tokens /\ held' = Standing(live', role)
        /\ browser' = [browser EXCEPT !.at = "sent", !.token = t]
    BY <1>1 DEF SignIn
  <2>2. browser' \in Request
    BY <2>1 DEF Request, Token
  <2>3. held' \subseteq Tokens \X Orgs \X Roles
    BY <2>1, StandingTyped
  <2>4. check[Home].at = "idle" /\ check[Home].verdict # "served"
    BY <2>1 DEF ServedIsDecided
  <2> QED BY <2>1, <2>2, <2>3, <2>4 DEF HomeStep, HeldIsCurrent
<1>2. ASSUME NEW method \in {"GET", "POST"}, NEW path \in Paths, NEW referer \in Paths \cup {None},
             Visit(method, path, referer)
      PROVE  HomeStep
  <2>1. /\ browser.at = "idle" /\ UNCHANGED <<identity, cookie, check>>
        /\ shown' = "none" /\ held' = Standing(live, role)
        /\ browser' = [at |-> "sent", method |-> method, path |-> path, token |-> None,
                       referer |-> referer]
    BY <1>2 DEF Visit
  <2>2. browser' \in Request
    BY <2>1 DEF Request, Token
  <2>3. held' \subseteq Tokens \X Orgs \X Roles
    BY <2>1, StandingTyped
  <2>4. check[Home].at = "idle" /\ check[Home].verdict # "served"
    BY <2>1 DEF ServedIsDecided
  <2> QED BY <2>1, <2>2, <2>3, <2>4 DEF HomeStep, HeldIsCurrent, identity, Outcomes
<1>3. CASE RefuseForm
  <2>1. /\ UNCHANGED <<identity, cookie, check, held>> /\ browser' = AtRest /\ shown' = "refused"
        /\ check[Home].at = "idle" /\ check[Home].verdict # "served"
    BY <1>3 DEF RefuseForm, Done, ServedIsDecided
  <2> QED BY <1>0, <2>1 DEF HomeStep, HeldIsCurrent, identity, Outcomes
<1> QED BY <1>1, <1>2, <1>3

(* The steps of Wrap at Home.                                              *)
LEMMA CheckSteps ==
  ASSUME AccessTypeOK, HeldIsCurrent, ServedIsDecided,
         check[Home].at # "idle" => browser.at = "sent",
         Receive \/ AskMe(Home) \/ AskMemberships(Home)
  PROVE  HomeStep
<1> USE AccessAssumption DEF AccessTypeOK
<1>1. CASE Receive
  <2>1. PICK token \in Token : check' = [check EXCEPT ![Home] = Begin(token)]
    BY <1>1 DEF Receive, Request
  <2>2. /\ UNCHANGED <<identity, browser, cookie, shown, held>>
        /\ browser.at = "sent" /\ check[Home].at = "idle"
    BY <1>1 DEF Receive
  <2>3. Begin(token) \in Check /\ Begin(token).verdict # "served"
    BY NoCheckTyped
  <2> QED BY <2>1, <2>2, <2>3 DEF HomeStep, HeldIsCurrent, identity
<1>2. CASE AskMe(Home) \/ AskMemberships(Home)
  <2>1. browser.at = "sent"
    BY <1>2 DEF AskMe, AskMemberships
  <2>2. Standing(live, role) \subseteq held
    BY <2>1 DEF HeldIsCurrent
  <2>3. /\ UNCHANGED <<identity, browser, cookie, shown, held>>
        /\ check' \in [Orgs -> Check]
        /\ \A p \in Orgs : p # Home => check'[p] = check[p]
        /\ check'[Home].verdict = "served" => check'[Home].at = "decided"
        /\ check'[Home].verdict = "served" => GoodRole(Home)'
    BY <1>2, <2>2, Questioned
  <2> QED BY <2>1, <2>3 DEF HomeStep, HeldIsCurrent, identity
<1> QED BY <1>1, <1>2

(* The answers of Home that no handler of the portfolio gives.             *)
LEMMA AnswerSteps ==
  ASSUME AccessTypeOK, HeldIsCurrent,
         \/ NotSignedIn \/ Unauthorized \/ Refused \/ SignedIn
         \/ \E path \in Paths \ {Overview} : Handle(path)
  PROVE  HomeStep
<1> USE AccessAssumption DEF AccessTypeOK
<1>0. AtRest \in Request /\ AtRest.at = "idle"
  BY DEF AtRest, Request, Token
<1>1. /\ browser.at = "sent" /\ check' = [check EXCEPT ![Home] = NoCheck]
      /\ UNCHANGED identity
  BY DEF NotSignedIn, Unauthorized, Refused, SignedIn, Handle, Answering
<1>2. check[Home] \in Check /\ NoCheck \in Check /\ NoCheck.at = "idle" /\ NoCheck.verdict = "none"
  BY NoCheckTyped
<1>3. SUFFICES /\ browser' \in Request /\ cookie' \in Token /\ shown' \in Outcomes
               /\ held' \subseteq Tokens \X Orgs \X Roles
               /\ browser'.at = "sent" => Standing(live, role) \subseteq held'
  BY <1>1, <1>2 DEF HomeStep, HeldIsCurrent, identity
<1>4. ReturnTarget \in Paths
  BY DEF ReturnTarget, Request
<1>5. ASSUME ToLogin
      PROVE  browser' \in Request /\ browser'.at = "login" /\ shown' = shown
  BY <1>4, <1>5 DEF ToLogin, AtRest, Request, Token
<1>6. ASSUME NEW outcome \in Outcomes, Done(outcome)
      PROVE  browser' \in Request /\ browser'.at = "idle" /\ shown' \in Outcomes
  BY <1>0, <1>6 DEF Done
<1>7. CASE NotSignedIn
  BY <1>5, <1>7 DEF NotSignedIn
<1>8. CASE Unauthorized \/ Refused
  <2>1. (ToLogin \/ Done("refused")) /\ cookie' \in {cookie, None} /\ held' = held
    BY <1>8 DEF Unauthorized, Refused
  <2> QED BY <1>5, <1>6, <2>1 DEF Outcomes, Token
<1>9. CASE SignedIn
  <2>1. /\ cookie' = check[Home].token /\ shown' = shown /\ held' = Standing(live, role)
        /\ browser' = [AtRest EXCEPT !.at = "sent", !.path = browser.path]
    BY <1>9 DEF SignedIn
  <2>2. browser' \in Request /\ cookie' \in Token
    BY <1>2, <2>1 DEF AtRest, Request, Token, Check
  <2>3. held' \subseteq Tokens \X Orgs \X Roles
    BY <2>1, StandingTyped
  <2> QED BY <2>1, <2>2, <2>3
<1>10. ASSUME NEW path \in Paths, Handle(path)
       PROVE  /\ browser' \in Request /\ cookie' \in Token /\ shown' \in Outcomes
              /\ held' \subseteq Tokens \X Orgs \X Roles
              /\ browser'.at # "sent"
  <2>1. PICK outcome \in {"accepted", "missing", "page"} : Done(outcome)
    BY <1>10 DEF Handle
  <2> QED BY <1>6, <1>10, <2>1 DEF Handle, Outcomes
<1> QED BY <1>7, <1>8, <1>9, <1>10

(* None of them is taken while the portfolio is being served.              *)
LEMMA NotWhileServing ==
  ASSUME ServedIsDecided,
         \/ \E method \in {"GET", "POST"}, path \in Paths, referer \in Paths \cup {None} :
              Visit(method, path, referer)
         \/ Wrap \/ \E path \in Paths \ {Overview} : Handle(path)
  PROVE  ~Serving
BY DEF Serving, Visit, Wrap, SignIn, RefuseForm, Receive, AskMe, AskMemberships, NotSignedIn,
   Unauthorized, Refused, SignedIn, Handle, Answering

-----------------------------------------------------------------------------
(* Steps around the handler                                                *)

LEMMA OutsideKeepsInv ==
  ASSUME PortfolioInv, ~Serving, HomeStep, UNCHANGED portfolioVars
  PROVE  PortfolioInv'
<1> USE DEF PortfolioInv, AccessInv
<1>1. Quiet
  BY DEF QuietOutside, Running
<1>2. UNCHANGED <<wanted, pending, task, reply, mu, local, entries, unavailable>>
  BY DEF portfolioVars
<1>3. \A o \in Orgs : task[o] = "none"
  BY <1>1 DEF Quiet, NoTasks
<1>4. \A o \in Orgs \ {Home} : check'[o] = check[o] /\ check[o].at = "idle" /\ check[o].verdict # "served"
  BY <1>3 DEF HomeStep, ChecksInRequest, ServedIsDecided
<1>5. TypeOK'
  BY <1>2 DEF HomeStep, TypeOK
<1>6. ServedIsDecided'
  BY <1>4 DEF HomeStep, ServedIsDecided
<1>7. ServedIsGood'
  BY <1>4 DEF HomeStep, ServedIsGood
<1>8. ChecksInRequest'
  BY <1>4 DEF HomeStep, ChecksInRequest
<1>9. QuietOutside' /\ Tasks' /\ RepliesGood' /\ Mutex' /\ SlicesExact'
  <2>1. Quiet'
    BY <1>1, <1>2 DEF Quiet
  <2>2. Home \in Orgs
    BY AccessAssumption
  <2>3. Tasks' /\ RepliesGood' /\ Mutex'
    BY <1>1, <1>2, <1>3, <2>2 DEF Tasks, RepliesGood, Mutex, Quiet
  <2>4. SlicesExact'
    BY <1>1, <1>2 DEF SlicesExact, Quiet
  <2> QED BY <2>1, <2>3, <2>4 DEF QuietOutside
<1> QED BY <1>5, <1>6, <1>7, <1>8, <1>9 DEF HomeStep

(* iamnim changes its mind.                                                *)
LEMMA IamnimKeepsInv ==
  ASSUME PortfolioInv, UNCHANGED portfolioVars,
         \/ \E t \in Tokens : Revoke(t)
         \/ \E o \in Orgs, r \in Roles : ChangeRole(o, r)
  PROVE  PortfolioInv'
<1> USE DEF PortfolioInv, AccessInv
<1>1. UNCHANGED <<browser, cookie, shown, check>>
  BY DEF Revoke, ChangeRole
<1>2. UNCHANGED <<wanted, pending, task, reply, mu, local, entries, unavailable>>
  BY DEF portfolioVars
<1>3. /\ live' \in SUBSET Tokens /\ role' \in [Orgs -> Roles] /\ changes' \in 0 .. MaxChanges
      /\ held \subseteq held' /\ held' \subseteq Tokens \X Orgs \X Roles
      /\ browser.at = "sent" => Standing(live', role') \subseteq held'
  <2>1. live \in SUBSET Tokens /\ role \in [Orgs -> Roles] /\ held \subseteq Tokens \X Orgs \X Roles
    BY DEF TypeOK, AccessTypeOK
  <2>2. changes < MaxChanges => changes + 1 \in 0 .. MaxChanges
    BY AccessAssumption DEF TypeOK, AccessTypeOK
  <2>3. ASSUME NEW t \in Tokens, Revoke(t)
        PROVE  <1>3!:
    <3>1. /\ live' = live \ {t} /\ changes' = changes + 1 /\ changes < MaxChanges
          /\ role' = role /\ held' = held
      BY <2>3 DEF Revoke
    <3>2. Standing(live', role') \subseteq Standing(live, role)
      BY <3>1 DEF Standing
    <3> QED BY <2>1, <2>2, <3>1, <3>2 DEF HeldIsCurrent
  <2>4. ASSUME NEW o \in Orgs, NEW r \in Roles, ChangeRole(o, r)
        PROVE  <1>3!:
    <3>1. /\ role' = [role EXCEPT ![o] = r] /\ changes' = changes + 1 /\ changes < MaxChanges
          /\ live' = live /\ held' = held \cup Standing(live, role')
      BY <2>4 DEF ChangeRole
    <3>2. role' \in [Orgs -> Roles]
      BY <2>1, <3>1
    <3>3. Standing(live, role') \in SUBSET (Tokens \X Orgs \X Roles)
      BY <2>1, <3>2, StandingTyped
    <3> QED BY <2>1, <2>2, <3>1, <3>2, <3>3
  <2> QED BY <2>3, <2>4
<1>4. TypeOK'
  BY <1>1, <1>2, <1>3 DEF TypeOK, AccessTypeOK
<1>5. HeldIsCurrent'
  BY <1>1, <1>3 DEF HeldIsCurrent
<1>6. ServedIsDecided' /\ ServedIsGood'
  BY <1>1, <1>3 DEF ServedIsDecided, ServedIsGood, GoodRole
<1>7. ChecksInRequest' /\ QuietOutside' /\ Tasks' /\ Mutex' /\ SlicesExact'
  BY <1>1, <1>2 DEF ChecksInRequest, QuietOutside, Running, Serving, Callback, Quiet, Tasks, Mutex,
     SlicesExact
<1>8. RepliesGood'
  BY <1>1, <1>2, <1>3 DEF RepliesGood, Good
<1> QED BY <1>4, <1>5, <1>6, <1>7, <1>8

(* The handler begins and ends.                                            *)
LEMMA StartKeepsInv ==
  ASSUME PortfolioInv, Start
  PROVE  PortfolioInv'
<1> USE DEF PortfolioInv, AccessInv
<1>1. /\ Serving /\ shown = "none" /\ shown' = "portfolio"
      /\ wanted' = Workspaces(check[Home].orgs) /\ pending' = wanted'
      /\ UNCHANGED <<identity, browser, cookie, check, held>>
      /\ UNCHANGED <<task, reply, mu, local, entries, unavailable>>
  BY DEF Start
<1>2. Quiet
  BY <1>1 DEF QuietOutside, Running
<1>3. \A o \in Orgs : task[o] = "none"
  BY <1>2 DEF Quiet, NoTasks
<1>4. wanted' \subseteq Orgs
  BY <1>1, AccessAssumption DEF Workspaces, TypeOK, AccessTypeOK, Check
<1>5. TypeOK'
  BY <1>1, <1>4 DEF TypeOK, AccessTypeOK, identity, Outcomes
<1>6. HeldIsCurrent' /\ ServedIsDecided' /\ ServedIsGood' /\ ChecksInRequest'
  BY <1>1 DEF HeldIsCurrent, ServedIsDecided, ServedIsGood, GoodRole, ChecksInRequest, identity
<1>7. QuietOutside'
  BY <1>1 DEF QuietOutside, Running, Serving, Callback
<1>8. Tasks' /\ RepliesGood' /\ Mutex'
  BY <1>1, <1>2, <1>3, AccessAssumption DEF Tasks, RepliesGood, Mutex, Quiet
<1>9. SlicesExact'
  <2>1. \A o \in wanted' : task'[o] = "none"
    BY <1>1, <1>3, <1>4
  <2> QED BY <1>1, <1>2, <2>1 DEF SlicesExact, Quiet
<1> QED BY <1>5, <1>6, <1>7, <1>8, <1>9

LEMMA RespondKeepsInv ==
  ASSUME PortfolioInv, Respond
  PROVE  PortfolioInv'
<1> USE DEF PortfolioInv, AccessInv
<1>1. /\ Running /\ AllDone
      /\ browser' = AtRest
      /\ check' = [check EXCEPT ![Home] = NoCheck]
      /\ wanted' = {} /\ task' = NoTasks /\ reply' = NoReplies
      /\ entries' = {} /\ unavailable' = {}
      /\ UNCHANGED <<identity, cookie, shown, held, pending, mu, local>>
  BY DEF Respond
<1>2. \A o \in Orgs : task[o] \in {"none", "done"}
  BY <1>1 DEF AllDone, Tasks
<1>3. check \in [Orgs -> Check] /\ Home \in Orgs
  BY AccessAssumption DEF TypeOK, AccessTypeOK
<1>4. /\ check'[Home] = NoCheck /\ NoCheck.at = "idle" /\ NoCheck.verdict = "none" /\ NoCheck \in Check
      /\ \A o \in Orgs \ {Home} : check'[o] = check[o] /\ check[o].at = "idle"
                                    /\ check[o].verdict # "served"
  BY <1>1, <1>2, <1>3, NoCheckTyped DEF ChecksInRequest, ServedIsDecided
<1>5. AtRest \in Request /\ AtRest.at = "idle"
  BY AccessAssumption DEF AtRest, Request, Token
<1>6. AccessTypeOK'
  BY <1>1, <1>3, <1>4, <1>5 DEF TypeOK, AccessTypeOK, identity
<1>7. NoTasks \in [Orgs -> {"none", "spawned", "reading", "locking", "appending", "done"}]
      /\ NoReplies \in [Orgs -> Replies]
  BY DEF NoTasks, NoReplies, Failed, Replies
<1>8. TypeOK'
  BY <1>1, <1>6, <1>7 DEF TypeOK, AllDone
<1>9. HeldIsCurrent' /\ ServedIsDecided' /\ ServedIsGood' /\ ChecksInRequest'
  BY <1>1, <1>3, <1>4, <1>5 DEF HeldIsCurrent, ServedIsDecided, ServedIsGood, ChecksInRequest
<1>10. mu = NoOne
  BY <1>2 DEF Mutex, TypeOK
<1>11. Quiet'
  BY <1>1, <1>10 DEF Quiet, AllDone
<1>12. \A o \in Orgs : task'[o] = "none"
  BY <1>1 DEF NoTasks
<1>13. Tasks' /\ RepliesGood' /\ Mutex' /\ SlicesExact'
  BY <1>1, <1>3, <1>10, <1>12 DEF Tasks, RepliesGood, Mutex, SlicesExact
<1> QED BY <1>8, <1>9, <1>11, <1>13 DEF QuietOutside

-----------------------------------------------------------------------------
(* Steps of the handler and its goroutines                                 *)

(* What none of them touches.                                              *)
Inside ==
  /\ Running
  /\ UNCHANGED <<identity, browser, cookie, shown, held, wanted>>
  /\ check'[Home] = check[Home]

LEMMA InsideKeeps ==
  ASSUME PortfolioInv, Inside
  PROVE  Running' /\ QuietOutside' /\ HeldIsCurrent'
BY DEF PortfolioInv, AccessInv, Inside, QuietOutside, Running, Serving, Callback, HeldIsCurrent, identity

LEMMA BusyIsInside ==
  ASSUME PortfolioInv, NEW o \in Orgs, task[o] # "none"
  PROVE  Running /\ o \in wanted /\ o \notin pending
BY DEF PortfolioInv, QuietOutside, Quiet, NoTasks, Tasks

LEMMA ReadHomeKeepsInv ==
  ASSUME PortfolioInv, ReadHome
  PROVE  PortfolioInv'
<1> USE DEF PortfolioInv, AccessInv
<1>1. /\ Running /\ Home \in pending /\ mu = NoOne
      /\ pending' = pending \ {Home}
      /\ task' = [task EXCEPT ![Home] = "done"]
      /\ UNCHANGED <<accessVars, wanted, mu, local>>
  BY DEF ReadHome, MuFree
<1>2. PICK r \in Replies :
        /\ reply' = [reply EXCEPT ![Home] = r]
        /\ \A e \in r.items : e[1] = Home
        /\ \/ ~r.ok /\ unavailable' = unavailable \cup {Home} /\ entries' = entries
           \/ r.ok /\ entries' = entries \cup r.items /\ unavailable' = unavailable
  <2>1. CASE /\ reply' = [reply EXCEPT ![Home] = Failed]
             /\ unavailable' = unavailable \cup {Home} /\ UNCHANGED entries
    <3>1. Failed \in Replies /\ ~Failed.ok /\ Failed.items = {}
      BY DEF Failed, Replies
    <3> QED BY <2>1, <3>1
  <2>2. ASSUME NEW items \in SUBSET ({Home} \X Ids),
               reply' = [reply EXCEPT ![Home] = Items(items)],
               entries' = entries \cup items, UNCHANGED unavailable
        PROVE  \E r \in Replies :
                 /\ reply' = [reply EXCEPT ![Home] = r]
                 /\ \A e \in r.items : e[1] = Home
                 /\ r.ok /\ entries' = entries \cup r.items /\ unavailable' = unavailable
    <3>1. items \in SUBSET Entry
      BY AccessAssumption DEF Entry
    <3>2. Items(items) \in Replies /\ Items(items).ok /\ Items(items).items = items
      BY <3>1 DEF Items, Replies
    <3>3. \A e \in items : e[1] = Home
      OBVIOUS
    <3> QED BY <2>2, <3>2, <3>3
  <2> QED BY <2>1, <2>2 DEF ReadHome
<1>3. /\ task \in [Orgs -> {"none", "spawned", "reading", "locking", "appending", "done"}]
      /\ reply \in [Orgs -> Replies] /\ Home \in Orgs /\ Home \in wanted /\ task[Home] = "none"
  BY <1>1, AccessAssumption DEF TypeOK, Tasks
<1>4. /\ task'[Home] = "done" /\ reply'[Home] = r
      /\ \A o \in Orgs \ {Home} : task'[o] = task[o] /\ reply'[o] = reply[o]
  BY <1>1, <1>2, <1>3
<1>5. Inside /\ UNCHANGED check
  BY <1>1 DEF Inside, accessVars
<1>6. TypeOK'
  <2>1. r.items \subseteq Entry
    BY DEF Replies
  <2>2. AccessTypeOK'
    BY <1>1 DEF TypeOK, AccessTypeOK, accessVars, identity
  <2>3. entries' \subseteq Entry /\ unavailable' \subseteq Orgs
    BY <1>2, <1>3, <2>1 DEF TypeOK
  <2>4. /\ task' \in [Orgs -> {"none", "spawned", "reading", "locking", "appending", "done"}]
        /\ reply' \in [Orgs -> Replies]
    BY <1>1, <1>2, <1>3
  <2> QED BY <1>1, <2>2, <2>3, <2>4 DEF TypeOK
<1>7. ServedIsDecided' /\ ServedIsGood' /\ ChecksInRequest'
  BY <1>1, <1>4 DEF ServedIsDecided, ServedIsGood, GoodRole, ChecksInRequest, accessVars
<1>8. Tasks' /\ Mutex'
  BY <1>1, <1>3, <1>4, PortfolioAssumption DEF Tasks, Mutex
<1>9. RepliesGood'
  BY <1>1, <1>2, <1>4 DEF RepliesGood, Good, accessVars
<1>10. SlicesExact'
  <2>1. wanted \subseteq Orgs /\ wanted' = wanted
    BY <1>1 DEF TypeOK
  <2>2. unavailable' = {o \in wanted : task'[o] = "done" /\ ~reply'[o].ok}
    BY <1>2, <1>3, <1>4, <2>1 DEF SlicesExact
  <2>3. entries' = UNION {reply'[o].items : o \in {p \in wanted : task'[p] = "done" /\ reply'[p].ok}}
    BY <1>2, <1>3, <1>4, <2>1 DEF SlicesExact
  <2> QED BY <2>1, <2>2, <2>3 DEF SlicesExact
<1> QED BY <1>5, <1>6, <1>7, <1>8, <1>9, <1>10, InsideKeeps

LEMMA SpawnKeepsInv ==
  ASSUME PortfolioInv, NEW o \in Orgs, Spawn(o)
  PROVE  PortfolioInv'
<1> USE DEF PortfolioInv, AccessInv
<1>1. /\ Running /\ o \in pending /\ o # Home
      /\ pending' = pending \ {o}
      /\ task' = [task EXCEPT ![o] = "spawned"]
      /\ UNCHANGED <<accessVars, wanted, reply, mu, local, entries, unavailable>>
  BY DEF Spawn
<1>2. /\ task \in [Orgs -> {"none", "spawned", "reading", "locking", "appending", "done"}]
      /\ task[o] = "none" /\ o \in wanted
  BY <1>1 DEF TypeOK, Tasks
<1>3. task'[o] = "spawned" /\ \A p \in Orgs : p # o => task'[p] = task[p]
  BY <1>1, <1>2
<1>4. Inside /\ UNCHANGED check
  BY <1>1 DEF Inside, accessVars
<1>5. TypeOK'
  <2>1. AccessTypeOK'
    BY <1>1 DEF TypeOK, AccessTypeOK, accessVars, identity
  <2> QED BY <1>1, <1>2, <2>1 DEF TypeOK
<1>6. ServedIsDecided' /\ ServedIsGood' /\ ChecksInRequest'
  BY <1>1, <1>2, <1>3 DEF ServedIsDecided, ServedIsGood, GoodRole, ChecksInRequest, accessVars
<1>7. Tasks' /\ Mutex'
  BY <1>1, <1>2, <1>3 DEF Tasks, Mutex, TypeOK
<1>8. RepliesGood'
  BY <1>1, <1>3 DEF RepliesGood, Good, accessVars
<1>9. SlicesExact'
  <2>1. \A p \in Orgs : task'[p] = "done" <=> task[p] = "done"
    BY <1>2, <1>3
  <2>2. wanted \subseteq Orgs
    BY DEF TypeOK
  <2> QED BY <1>1, <2>1, <2>2 DEF SlicesExact
<1> QED BY <1>4, <1>5, <1>6, <1>7, <1>8, <1>9, InsideKeeps

LEMMA AskKeepsInv ==
  ASSUME PortfolioInv, NEW o \in Orgs, Ask(o)
  PROVE  PortfolioInv'
<1> USE DEF PortfolioInv, AccessInv
<1>1. /\ Running /\ task[o] = "spawned"
      /\ task' = [task EXCEPT ![o] = "reading"]
      /\ check' = [check EXCEPT ![o] = Begin(check[Home].token)]
      /\ UNCHANGED <<identity, browser, cookie, shown, held>>
      /\ UNCHANGED <<wanted, pending, reply, mu, local, entries, unavailable>>
  BY DEF Ask
<1>2. /\ task \in [Orgs -> {"none", "spawned", "reading", "locking", "appending", "done"}]
      /\ check \in [Orgs -> Check] /\ o # Home /\ Home \in Orgs
  BY <1>1, AccessAssumption DEF TypeOK, AccessTypeOK, Tasks
<1>3. check[Home].token \in Token
  BY <1>2 DEF Check
<1>4. PICK c \in Check : c = Begin(check[Home].token) /\ c.verdict # "served" /\ c.token = check[Home].token
  BY <1>3, NoCheckTyped
<1>5. /\ task'[o] = "reading" /\ \A p \in Orgs : p # o => task'[p] = task[p]
      /\ check'[o] = c /\ \A p \in Orgs : p # o => check'[p] = check[p]
  BY <1>1, <1>2, <1>4
<1>6. Inside
  BY <1>1, <1>2, <1>5 DEF Inside
<1>7. TypeOK'
  <2>1. AccessTypeOK'
    BY <1>1, <1>2, <1>4 DEF TypeOK, AccessTypeOK, identity
  <2> QED BY <1>1, <1>2, <2>1 DEF TypeOK
<1>8. ServedIsDecided' /\ ServedIsGood' /\ ChecksInRequest'
  BY <1>1, <1>2, <1>4, <1>5 DEF ServedIsDecided, ServedIsGood, GoodRole, ChecksInRequest
<1>9. Tasks' /\ Mutex'
  BY <1>1, <1>2, <1>5 DEF Tasks, Mutex, TypeOK
<1>10. RepliesGood'
  BY <1>1, <1>2, <1>5 DEF RepliesGood, Good
<1>11. SlicesExact'
  <2>1. \A p \in Orgs : task'[p] = "done" <=> task[p] = "done"
    BY <1>1, <1>5
  <2>2. wanted \subseteq Orgs
    BY DEF TypeOK
  <2> QED BY <1>1, <2>1, <2>2 DEF SlicesExact
<1> QED BY <1>6, <1>7, <1>8, <1>9, <1>10, <1>11, InsideKeeps

LEMMA CheckThereKeepsInv ==
  ASSUME PortfolioInv, NEW o \in Orgs, CheckThere(o)
  PROVE  PortfolioInv'
<1> USE DEF PortfolioInv, AccessInv
<1>1. o # Home /\ task[o] = "reading" /\ Running
  BY BusyIsInside DEF CheckThere
<1>2. UNCHANGED <<wanted, pending, task, reply, mu, local, entries, unavailable>>
  BY DEF CheckThere, portfolioVars
<1>3. Standing(live, role) \subseteq held /\ AccessTypeOK
  BY <1>1 DEF HeldIsCurrent, Running, Serving, TypeOK
<1>4. /\ UNCHANGED <<identity, browser, cookie, shown, held>>
      /\ check[o].at \in {"me", "memberships"}
      /\ check' \in [Orgs -> Check]
      /\ \A p \in Orgs : p # o => check'[p] = check[p]
      /\ check'[o].at # "idle" /\ check'[o].token = check[o].token
      /\ check'[o].verdict = "served" => check'[o].at = "decided"
      /\ check'[o].verdict = "served" => GoodRole(o)'
  BY <1>3, Questioned DEF CheckThere
<1>5. Inside
  BY <1>1, <1>2, <1>4, AccessAssumption DEF Inside
<1>6. TypeOK'
  BY <1>2, <1>4 DEF TypeOK, AccessTypeOK, identity
<1>7. ServedIsDecided' /\ ServedIsGood'
  BY <1>4 DEF ServedIsDecided, ServedIsGood, GoodRole
<1>8. ChecksInRequest'
  BY <1>1, <1>2, <1>4, AccessAssumption DEF ChecksInRequest
<1>9. Tasks' /\ Mutex' /\ SlicesExact'
  BY <1>2 DEF Tasks, Mutex, SlicesExact
<1>10. RepliesGood'
  BY <1>2, <1>4, <1>5 DEF RepliesGood, Good, Inside
<1> QED BY <1>5, <1>6, <1>7, <1>8, <1>9, <1>10, InsideKeeps

LEMMA ReadKeepsInv ==
  ASSUME PortfolioInv, NEW o \in Orgs, Answered(o) \/ NoAnswer(o)
  PROVE  PortfolioInv'
<1> USE DEF PortfolioInv, AccessInv
<1>1. o # Home /\ task[o] = "reading" /\ Running /\ Home \in Orgs
  BY BusyIsInside, AccessAssumption DEF Answered, NoAnswer
<1>2. Failed \in Replies /\ ~Failed.ok
  BY DEF Failed, Replies
<1>3. PICK r \in Replies :
        /\ Read(o, r)
        /\ r.ok => check[o].verdict = "served" /\ \A e \in r.items : e[1] = o
  <2>1. ASSUME NEW items \in SUBSET Entry
        PROVE  /\ Accept(o, items) \in Replies
               /\ Accept(o, items).ok => \A e \in Accept(o, items).items : e[1] = o
    BY <1>2 DEF Accept, Items, Replies
  <2>2. CASE NoAnswer(o)
    BY <1>2, <2>2 DEF NoAnswer
  <2>3. CASE Answered(o)
    BY <1>2, <2>1, <2>3 DEF Answered
  <2> QED BY <2>2, <2>3
<1>4. /\ task' = [task EXCEPT ![o] = "locking"]
      /\ reply' = [reply EXCEPT ![o] = r]
      /\ check' = [check EXCEPT ![o] = NoCheck]
      /\ UNCHANGED <<identity, browser, cookie, shown, held>>
      /\ UNCHANGED <<wanted, pending, mu, local, entries, unavailable>>
  BY <1>3 DEF Read
<1>5. /\ task \in [Orgs -> {"none", "spawned", "reading", "locking", "appending", "done"}]
      /\ check \in [Orgs -> Check] /\ reply \in [Orgs -> Replies]
  BY DEF TypeOK, AccessTypeOK
<1>6. /\ task'[o] = "locking" /\ check'[o] = NoCheck /\ reply'[o] = r
      /\ \A p \in Orgs : p # o => task'[p] = task[p] /\ check'[p] = check[p] /\ reply'[p] = reply[p]
  BY <1>4, <1>5
<1>7. r.ok => Good(check[Home].token, o)
  <2>1. check[o].verdict = "served" => check[o].token = check[Home].token
    BY <1>1 DEF ServedIsDecided, ChecksInRequest
  <2> QED BY <1>3, <2>1 DEF ServedIsGood, GoodRole, Good
<1>8. NoCheck \in Check /\ NoCheck.at = "idle" /\ NoCheck.verdict = "none"
  BY NoCheckTyped
<1>9. Inside
  BY <1>1, <1>4, <1>6 DEF Inside
<1>10. TypeOK'
  <2>1. AccessTypeOK'
    BY <1>4, <1>5, <1>8 DEF TypeOK, AccessTypeOK, identity
  <2> QED BY <1>4, <1>5, <2>1 DEF TypeOK
<1>11. ServedIsDecided' /\ ServedIsGood' /\ ChecksInRequest'
  <2>1. ServedIsDecided'
    BY <1>6, <1>8 DEF ServedIsDecided
  <2>2. ServedIsGood'
    BY <1>4, <1>6, <1>8 DEF ServedIsGood, GoodRole
  <2>3. ChecksInRequest'
    BY <1>1, <1>4, <1>6, <1>8 DEF ChecksInRequest
  <2> QED BY <2>1, <2>2, <2>3
<1>12. Tasks' /\ Mutex'
  <2>1. Tasks'
    BY <1>1, <1>4, <1>6 DEF Tasks
  <2>2. mu # NoOne => mu \in Orgs /\ mu # o
    BY <1>1 DEF Mutex, TypeOK
  <2>3. Mutex'
    BY <1>1, <1>4, <1>6, <2>2 DEF Mutex
  <2> QED BY <2>1, <2>3
<1>13. RepliesGood'
  <2> SUFFICES ASSUME NEW p \in Orgs, task'[p] \in {"locking", "appending", "done"}, reply'[p].ok
               PROVE  /\ p # Home => \E s \in Roles : <<check'[Home].token, p, s>> \in held'
                      /\ \A e \in reply'[p].items : e[1] = p
    BY DEF RepliesGood, Good
  <2>1. CASE p = o
    BY <1>1, <1>3, <1>4, <1>6, <1>7, <2>1 DEF Good
  <2>2. CASE p # o
    BY <1>1, <1>4, <1>6, <2>2 DEF RepliesGood, Good
  <2> QED BY <2>1, <2>2
<1>14. SlicesExact'
  <2>1. \A p \in Orgs : task'[p] = "done" <=> task[p] = "done"
    BY <1>1, <1>6
  <2>2. \A p \in Orgs : task[p] = "done" => reply'[p] = reply[p]
    BY <1>1, <1>6
  <2>3. wanted \subseteq Orgs
    BY DEF TypeOK
  <2>4. unavailable' = {p \in wanted : task'[p] = "done" /\ ~reply'[p].ok}
    BY <1>4, <2>1, <2>2, <2>3 DEF SlicesExact
  <2>5. entries' = UNION {reply'[p].items : p \in {q \in wanted : task'[q] = "done" /\ reply'[q].ok}}
    <3>1. {q \in wanted : task'[q] = "done" /\ reply'[q].ok} = {q \in wanted : task[q] = "done" /\ reply[q].ok}
      BY <2>1, <2>2, <2>3
    <3>2. \A p \in {q \in wanted : task[q] = "done" /\ reply[q].ok} : reply'[p] = reply[p]
      BY <2>2, <2>3
    <3> QED BY <1>4, <3>1, <3>2 DEF SlicesExact
  <2> QED BY <1>4, <2>4, <2>5 DEF SlicesExact
<1> QED BY <1>9, <1>10, <1>11, <1>12, <1>13, <1>14, InsideKeeps

LEMMA LockKeepsInv ==
  ASSUME PortfolioInv, NEW o \in Orgs, Lock(o)
  PROVE  PortfolioInv'
<1> USE DEF PortfolioInv, AccessInv
<1>1. /\ task[o] = "locking" /\ mu = NoOne /\ mu' = o
      /\ local' = [local EXCEPT ![o] = [entries |-> entries, unavailable |-> unavailable]]
      /\ task' = [task EXCEPT ![o] = "appending"]
      /\ UNCHANGED <<accessVars, wanted, pending, reply, entries, unavailable>>
  BY DEF Lock, MuFree
<1>2. Running /\ o # Home /\ o \in wanted /\ o \notin pending
  BY <1>1, BusyIsInside DEF Tasks
<1>3. /\ task \in [Orgs -> {"none", "spawned", "reading", "locking", "appending", "done"}]
      /\ local \in [Orgs -> Slices]
      /\ [entries |-> entries, unavailable |-> unavailable] \in Slices
  BY DEF TypeOK, Slices
<1>4. /\ task'[o] = "appending" /\ \A p \in Orgs : p # o => task'[p] = task[p]
      /\ local'[o] = [entries |-> entries, unavailable |-> unavailable]
  BY <1>1, <1>3
<1>5. Inside
  BY <1>1, <1>2 DEF Inside, accessVars
<1>6. TypeOK'
  <2>1. AccessTypeOK'
    BY <1>1 DEF TypeOK, AccessTypeOK, accessVars, identity
  <2> QED BY <1>1, <1>3, <2>1 DEF TypeOK
<1>7. ServedIsDecided' /\ ServedIsGood' /\ ChecksInRequest'
  BY <1>1, <1>4 DEF ServedIsDecided, ServedIsGood, GoodRole, ChecksInRequest, accessVars
<1>8. Tasks'
  BY <1>1, <1>2, <1>4, AccessAssumption DEF Tasks
<1>9. Mutex'
  <2>1. \A p \in Orgs : task[p] # "appending"
    BY <1>1, PortfolioAssumption DEF Mutex
  <2> QED BY <1>1, <1>4, <2>1 DEF Mutex
<1>10. RepliesGood'
  BY <1>1, <1>4 DEF RepliesGood, Good, accessVars
<1>11. SlicesExact'
  <2>1. \A p \in Orgs : task'[p] = "done" <=> task[p] = "done"
    BY <1>1, <1>4
  <2>2. wanted \subseteq Orgs
    BY DEF TypeOK
  <2> QED BY <1>1, <2>1, <2>2 DEF SlicesExact
<1> QED BY <1>5, <1>6, <1>7, <1>8, <1>9, <1>10, <1>11, InsideKeeps

(* What the goroutine read under the mutex is still there when it writes.  *)
LEMMA AppendKeepsInv ==
  ASSUME PortfolioInv, NEW o \in Orgs, Append(o)
  PROVE  PortfolioInv'
<1> USE DEF PortfolioInv, AccessInv
<1>1. /\ task[o] = "appending" /\ mu' = NoOne
      /\ local' = [local EXCEPT ![o] = NoSlices]
      /\ task' = [task EXCEPT ![o] = "done"]
      /\ UNCHANGED <<accessVars, wanted, pending, reply>>
  BY DEF Append
<1>2. Running /\ o # Home /\ o \in wanted /\ o \notin pending
  BY <1>1, BusyIsInside DEF Tasks
<1>3. mu = o /\ local[o].entries = entries /\ local[o].unavailable = unavailable
  BY <1>1 DEF Mutex
<1>4. IF reply[o].ok
      THEN entries' = entries \cup reply[o].items /\ unavailable' = unavailable
      ELSE unavailable' = unavailable \cup {o} /\ entries' = entries
  BY <1>3 DEF Append
<1>5. /\ task \in [Orgs -> {"none", "spawned", "reading", "locking", "appending", "done"}]
      /\ local \in [Orgs -> Slices] /\ reply[o] \in Replies /\ NoSlices \in Slices
  BY DEF TypeOK, Slices, NoSlices
<1>6. task'[o] = "done" /\ \A p \in Orgs : p # o => task'[p] = task[p]
  BY <1>1, <1>5
<1>7. Inside
  BY <1>1, <1>2 DEF Inside, accessVars
<1>8. TypeOK'
  <2>1. AccessTypeOK'
    BY <1>1 DEF TypeOK, AccessTypeOK, accessVars, identity
  <2>2. entries' \subseteq Entry /\ unavailable' \subseteq Orgs
    BY <1>4, <1>5 DEF TypeOK, Replies
  <2> QED BY <1>1, <1>5, <2>1, <2>2 DEF TypeOK
<1>9. ServedIsDecided' /\ ServedIsGood' /\ ChecksInRequest'
  BY <1>1, <1>6 DEF ServedIsDecided, ServedIsGood, GoodRole, ChecksInRequest, accessVars
<1>10. Tasks'
  BY <1>1, <1>2, <1>6, AccessAssumption DEF Tasks
<1>11. Mutex'
  <2>1. \A p \in Orgs : p # o => task[p] # "appending"
    BY <1>3 DEF Mutex
  <2> QED BY <1>1, <1>6, <2>1 DEF Mutex
<1>12. RepliesGood'
  BY <1>1, <1>6 DEF RepliesGood, Good, accessVars
<1>13. SlicesExact'
  <2>1. wanted \subseteq Orgs /\ wanted' = wanted /\ reply' = reply
    BY <1>1 DEF TypeOK
  <2>2. unavailable' = {p \in wanted : task'[p] = "done" /\ ~reply[p].ok}
    BY <1>1, <1>2, <1>4, <1>6, <2>1 DEF SlicesExact
  <2>3. entries' = UNION {reply[p].items : p \in {q \in wanted : task'[q] = "done" /\ reply[q].ok}}
    BY <1>1, <1>2, <1>4, <1>6, <2>1 DEF SlicesExact
  <2> QED BY <2>1, <2>2, <2>3 DEF SlicesExact
<1> QED BY <1>7, <1>8, <1>9, <1>10, <1>11, <1>12, <1>13, InsideKeeps

LEMMA StepKeepsPortfolioInv ==
  ASSUME PortfolioInv, [Next]_vars
  PROVE  PortfolioInv'
<1>1. CASE UNCHANGED vars
  <2> USE <1>1 DEF vars, accessVars, identity, portfolioVars, PortfolioInv, AccessInv
  <2>1. TypeOK'
    BY DEF TypeOK, AccessTypeOK
  <2>2. HeldIsCurrent' /\ ServedIsDecided' /\ ServedIsGood' /\ ChecksInRequest'
    BY DEF HeldIsCurrent, ServedIsDecided, ServedIsGood, GoodRole, ChecksInRequest
  <2>3. QuietOutside' /\ Tasks'
    BY DEF QuietOutside, Running, Serving, Callback, Quiet, Tasks
  <2>4. RepliesGood' /\ Mutex' /\ SlicesExact'
    BY DEF RepliesGood, Good, Mutex, SlicesExact
  <2> QED BY <2>1, <2>2, <2>3, <2>4
<1>2. ASSUME (Environment \/ Serve) /\ UNCHANGED portfolioVars
      PROVE  PortfolioInv'
  <2>1. CASE \/ \E t \in Tokens : Revoke(t)
             \/ \E o \in Orgs, r \in Roles : ChangeRole(o, r)
    BY <1>2, <2>1, IamnimKeepsInv
  <2>2. CASE \/ \E method \in {"GET", "POST"}, path \in Paths, referer \in Paths \cup {None} :
                  Visit(method, path, referer)
             \/ Wrap \/ \E path \in Paths \ {Overview} : Handle(path)
    <3>1. ~Serving
      BY <2>2, NotWhileServing DEF PortfolioInv, AccessInv
    <3>2. /\ AccessTypeOK /\ HeldIsCurrent /\ ServedIsDecided
          /\ check[Home].at # "idle" => browser.at = "sent"
      BY DEF PortfolioInv, AccessInv, TypeOK, ChecksInRequest
    <3>3. HomeStep
      BY <2>2, <3>2, BrowserSteps, CheckSteps, AnswerSteps DEF Wrap
    <3> QED BY <1>2, <3>1, <3>3, OutsideKeepsInv
  <2> QED BY <1>2, <2>1, <2>2 DEF Environment, Serve
<1> QED
  BY <1>1, <1>2, StartKeepsInv, ReadHomeKeepsInv, RespondKeepsInv, SpawnKeepsInv, AskKeepsInv,
     CheckThereKeepsInv, ReadKeepsInv, LockKeepsInv, AppendKeepsInv DEF Next, Step

LEMMA InitEstablishesPortfolioInv ==
  ASSUME Init
  PROVE  PortfolioInv
<1> USE AccessAssumption DEF Init, AccessInit
<1>1. NoCheck \in Check /\ NoCheck.at = "idle" /\ NoCheck.verdict = "none"
  BY NoCheckTyped
<1>2. AtRest \in Request /\ AtRest.at = "idle"
  BY DEF AtRest, Request, Token
<1>3. AccessTypeOK
  BY <1>1, <1>2 DEF AccessTypeOK, Outcomes
<1>4. TypeOK
  BY <1>3 DEF TypeOK, NoTasks, NoReplies, Failed, Replies, Slices, NoSlices
<1>5. HeldIsCurrent /\ ServedIsDecided /\ ServedIsGood /\ ChecksInRequest
  BY <1>1, <1>2 DEF HeldIsCurrent, ServedIsDecided, ServedIsGood, ChecksInRequest
<1>6. QuietOutside /\ Tasks /\ RepliesGood /\ Mutex /\ SlicesExact
  BY DEF QuietOutside, Quiet, Tasks, RepliesGood, Mutex, SlicesExact, NoTasks
<1> QED BY <1>4, <1>5, <1>6 DEF PortfolioInv, AccessInv

LEMMA PortfolioInvariant == Spec => []PortfolioInv
BY InitEstablishesPortfolioInv, StepKeepsPortfolioInv, PTL DEF Spec

-----------------------------------------------------------------------------

(* The variables of Wrap, the handler and its goroutines keep their types. *)
THEOREM PortfolioTyped == Spec => []TypeOK
<1>1. PortfolioInv => TypeOK
  BY DEF PortfolioInv
<1> QED BY <1>1, PortfolioInvariant, PTL

(* Nobody is served, and no forecast of another workspace is shown, without*)
(* a session and a membership that held at some moment of the request.     *)
THEOREM PortfolioServesMembers == Spec => []NoAccessWithoutMembership
<1>1. PortfolioInv => NoAccessWithoutMembership
  <2> SUFFICES ASSUME PortfolioInv PROVE NoAccessWithoutMembership
    OBVIOUS
  <2> USE DEF PortfolioInv, AccessInv
  <2>1. ASSUME NEW o \in Orgs, check[o].verdict = "served"
        PROVE  \E r \in Roles : <<check[o].token, o, r>> \in held /\ (check[o].admin => r = "admin")
    BY <2>1 DEF ServedIsGood, GoodRole
  <2>2. ASSUME NEW e \in entries
        PROVE  e[1] = Home \/ \E r \in Roles : <<check[Home].token, e[1], r>> \in held
    <3>1. PICK o \in wanted : task[o] = "done" /\ reply[o].ok /\ e \in reply[o].items
      BY DEF SlicesExact
    <3>2. o \in Orgs
      BY DEF TypeOK
    <3> QED BY <3>1, <3>2 DEF RepliesGood, Good
  <2> QED BY <2>1, <2>2 DEF NoAccessWithoutMembership
<1> QED BY <1>1, PortfolioInvariant, PTL

(* The answer accounts for every workspace: no append is lost.             *)
THEOREM PortfolioAccounts == Spec => []WorkspacesAccounted
<1>1. PortfolioInv => WorkspacesAccounted
  <2> SUFFICES ASSUME PortfolioInv, AllDone
               PROVE  /\ unavailable = {o \in wanted : ~reply[o].ok}
                      /\ entries = UNION {reply[o].items : o \in {p \in wanted : reply[p].ok}}
                      /\ \A e \in entries : e \in reply[e[1]].items
    BY DEF WorkspacesAccounted
  <2> USE DEF PortfolioInv
  <2>1. \A o \in wanted : task[o] = "done" /\ o \in Orgs
    BY DEF AllDone, TypeOK
  <2>2. unavailable = {o \in wanted : ~reply[o].ok}
    BY <2>1 DEF SlicesExact
  <2>3. entries = UNION {reply[o].items : o \in {p \in wanted : reply[p].ok}}
    BY <2>1 DEF SlicesExact
  <2>4. \A e \in entries : e \in reply[e[1]].items
    BY <2>1, <2>3 DEF RepliesGood
  <2> QED BY <2>2, <2>3, <2>4
<1> QED BY <1>1, PortfolioInvariant, PTL
=============================================================================
