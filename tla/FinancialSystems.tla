--------------------------- MODULE FinancialSystems ---------------------------
(***************************************************************************)
(* Server.financialSystems: which financial tools the organization has,    *)
(* which are connected, and which it designated as its systems of record.  *)
(* Five goroutines ask five services (external) under one deadline and     *)
(* write to variables of the handler; after the wait group one pass over   *)
(* them makes the answer.  A tool is its key; names and details are left   *)
(* out.  One request: requests share nothing.                              *)
(***************************************************************************)
EXTENDS Integers, Sequences, FiniteSets

CONSTANTS
  Org,                 \* this organization
  None,                \* nothing
  CatalogAnswers,      \* what /api/tools may answer
  IntegrationAnswers   \* what /api/org/integrations may answer

Reads == {"catalog", "integrations", "ledger", "odoo", "okioki"}

BuiltIn == {"ledger", "odoo", "exact_online", "okioki", "shopify"}

Roles == {"cashflow", "accounting", "revenue"}

(* The keys of the tools and connections that stand for a built-in one.    *)
Aliases ==
  [shopify |-> "shopify", ledger |-> "ledger", nimsforestledger |-> "ledger",
   odoo |-> "odoo", nimsforestodoo |-> "odoo", exact_online |-> "exact_online",
   exactonline |-> "exact_online", nimsforestexactonline |-> "exact_online",
   okioki |-> "okioki", nimsforestokioki |-> "okioki"]

(* A tool of the catalog: role is that of its last financial assignment,   *)
(* status the catalog's own word.                                          *)
Tool == [key : STRING, role : Roles \cup {None}, connection : STRING \cup {None},
         status : STRING]

(* An entry of the shared integrations: a record of designations, sound if *)
(* its schema and its provider keys are, or a connection of some type.     *)
Integration == [type : STRING, org : STRING, sound : BOOLEAN,
                binding : [Roles -> STRING \cup {None}],
                grant : {"recorded", "revoked", "garbled"}]

(* Status 0 stands for no answer, one too long, or another status.         *)
Silent == [status |-> 0, org |-> Org, valid |-> FALSE, list |-> <<>>]

ASSUME FinancialAssumption ==
  /\ None \notin BuiltIn
  /\ Silent \in CatalogAnswers \cap IntegrationAnswers
  /\ \A a \in CatalogAnswers \cup IntegrationAnswers :
       a.status \in {0, 200, 503} /\ (a.status = 0 => a = Silent)
  /\ \A a \in CatalogAnswers : a.list \in Seq(Tool)
  /\ \A a \in IntegrationAnswers : a.list \in Seq(Integration)

SourceAnswers == {"resources", "empty", "denied", "failed"}

HealthAnswers == {"silent", "missing", "well", "ailing"}

Configurations ==
  {"Unavailable", "Configured", "Connected, no resources", "Setup required",
   "Not set", "Needs attention", "Revoked", "Connection recorded"}

VARIABLES
  run,                 \* the goroutines: reading or done
  expired,             \* the four seconds are over
  catalogOK, tools,    \* written by the goroutine "catalog"
  integrationsOK, integrations,
  configuration,       \* providers[i].Configuration of the built-in ones
  said,                \* history: what the services answered
  answer               \* what the handler wrote

overviewVars == <<run, expired, catalogOK, tools, integrationsOK, integrations,
                  configuration, said, answer>>

OverviewTypeOK ==
  /\ run \in [Reads -> {"reading", "done"}]
  /\ expired \in BOOLEAN /\ catalogOK \in BOOLEAN /\ integrationsOK \in BOOLEAN
  /\ tools \in {a.list : a \in CatalogAnswers}
  /\ integrations \in {a.list : a \in IntegrationAnswers}
  /\ configuration \in [BuiltIn -> Configurations]

NotAnswered == [done |-> FALSE]

OverviewInit ==
  /\ run = [g \in Reads |-> "reading"]
  /\ expired = FALSE
  /\ catalogOK = FALSE /\ tools = <<>>
  /\ integrationsOK = FALSE /\ integrations = <<>>
  /\ configuration = [k \in BuiltIn |-> "Unavailable"]
  /\ said = [catalog |-> Silent, integrations |-> Silent, ledger |-> "failed",
             odoo |-> "failed", okioki |-> "silent"]
  /\ answer = NotAnswered

-----------------------------------------------------------------------------
(* The goroutines                                                          *)

StillReading(g) == run[g] = "reading"

DoneIfHeard(g, heard) == run' = [run EXCEPT ![g] = IF heard THEN "done" ELSE "reading"]

(* defer wait.Done(): however the read ended.                              *)
Done(g, heard) == run' = [run EXCEPT ![g] = "done"]

Heard(g, a) == said' = [said EXCEPT ![g] = a]

Expire ==
  /\ ~expired /\ answer = NotAnswered
  /\ expired' = TRUE
  /\ UNCHANGED <<run, catalogOK, tools, integrationsOK, integrations, configuration,
                 said, answer>>

(* A catalog of another organization, of another schema, or with a tool    *)
(* that is not well-formed is no catalog.                                  *)
ReadCatalog(a) ==
  /\ StillReading("catalog") /\ (expired => a = Silent)
  /\ catalogOK' = (a.status = 200 /\ a.org = Org /\ a.valid)
  /\ tools' = a.list
  /\ Done("catalog", a # Silent) /\ Heard("catalog", a)
  /\ UNCHANGED <<expired, integrationsOK, integrations, configuration, answer>>

CompleteWhenDecoded(a) == a.status \in {200, 503}

(* financialRead also decodes the body of a 503: only a 200 is complete.   *)
Complete(a) == a.status = 200

ReadIntegrations(a) ==
  /\ StillReading("integrations") /\ (expired => a = Silent)
  /\ integrationsOK' = Complete(a)
  /\ integrations' = a.list
  /\ Done("integrations", a # Silent) /\ Heard("integrations", a)
  /\ UNCHANGED <<expired, catalogOK, tools, configuration, answer>>

(* sourceGET: the credential (denied if 403, 404 or empty), then the list. *)
SourceConfiguration(a) ==
  CASE a = "resources" -> "Configured"
    [] a = "empty"     -> "Connected, no resources"
    [] a = "denied"    -> "Setup required"
    [] OTHER           -> "Unavailable"

ReadSource(g, a) ==
  /\ StillReading(g) /\ (expired => a = "failed")
  /\ configuration' = [configuration EXCEPT ![g] = SourceConfiguration(a)]
  /\ Done(g, a # "failed") /\ Heard(g, a)
  /\ UNCHANGED <<expired, catalogOK, tools, integrationsOK, integrations, answer>>

HealthConfiguration(a) ==
  CASE a = "missing" -> "Not set"
    [] a = "well"    -> "Configured"
    [] a = "ailing"  -> "Needs attention"
    [] OTHER         -> "Unavailable"

(* No answer, the health of another service, or one that does not speak of *)
(* credentials: the goroutine returns early.                               *)
ReadHealth(a) ==
  /\ StillReading("okioki") /\ (expired => a = "silent")
  /\ configuration' = [configuration EXCEPT !["okioki"] = HealthConfiguration(a)]
  /\ Done("okioki", a # "silent") /\ Heard("okioki", a)
  /\ UNCHANGED <<expired, catalogOK, tools, integrationsOK, integrations, answer>>

-----------------------------------------------------------------------------
(* The pass over what was read                                             *)

(* A tool with a role that no key stands for yet becomes a provider, and   *)
(* its connection type stands for it from then on.                         *)
Adds(keys, t) == t.key \notin DOMAIN keys /\ t.role # None

WithTool(keys, t) ==
  LET new == {t.key} \cup ({t.connection} \ {None})
  IN IF Adds(keys, t)
     THEN [k \in DOMAIN keys \cup new |-> IF k \in new THEN t.key ELSE keys[k]]
     ELSE keys

KeysAfter ==
  LET keys[n \in 0 .. Len(tools)] ==
        IF n = 0 THEN Aliases ELSE WithTool(keys[n - 1], tools[n])
  IN keys

Keys == IF catalogOK THEN KeysAfter[Len(tools)] ELSE Aliases

Denoted(key) == IF key \in DOMAIN Keys THEN Keys[key] ELSE None

Providers ==
  BuiltIn \cup IF catalogOK
               THEN {tools[n].key : n \in {m \in DOMAIN tools : Adds(KeysAfter[m - 1], tools[m])}}
               ELSE {}

Last(S) == CHOOSE n \in S : \A m \in S : m <= n

Availability(p) ==
  LET listed == {n \in DOMAIN tools : Denoted(tools[n].key) = p}
  IN IF ~catalogOK THEN "Unavailable"
     ELSE IF listed = {} THEN "Not listed"
     ELSE tools[Last(listed)].status

RecordedConnection(grant) ==
  CASE grant = "revoked" -> "Revoked"
    [] grant = "garbled" -> "Unavailable"
    [] OTHER             -> "Connection recorded"

Configuration(p) ==
  LET own == IF p \in BuiltIn THEN configuration[p] ELSE "Unavailable"
      connections == {n \in DOMAIN integrations : Denoted(integrations[n].type) = p}
  IN IF integrationsOK /\ own = "Unavailable" /\ p \notin {"ledger", "odoo", "okioki"}
     THEN IF connections = {} THEN "Not set"
          ELSE RecordedConnection(integrations[Last(connections)].grant)
     ELSE own

Designations == {n \in DOMAIN integrations : integrations[n].type = "financial_systems"}

SoundIfAny ==
  /\ integrationsOK
  /\ \A n \in Designations : integrations[n].sound /\ integrations[n].org = Org

(* readFinancialBindings returns no error.                                 *)
Sound ==
  /\ integrationsOK
  /\ Cardinality(Designations) <= 1
  /\ \A n \in Designations : integrations[n].sound /\ integrations[n].org = Org

Binding(role) ==
  IF Designations = {} THEN None ELSE integrations[Last(Designations)].binding[role]

(* The name shown is that of the provider the designated key stands for,   *)
(* or the key itself; the connection shown is that provider's.             *)
Shown(key) == IF Denoted(key) # None THEN Denoted(key) ELSE key

System(role) ==
  LET key == Binding(role)
  IN IF ~Sound \/ key = None
     THEN [status |-> IF Sound THEN "Not set" ELSE "Unavailable",
           provider |-> None, name |-> None, configuration |-> None]
     ELSE [status |-> "Set", provider |-> key, name |-> Shown(key),
           configuration |-> IF Denoted(key) # None THEN Configuration(Denoted(key)) ELSE None]

Respond ==
  /\ answer = NotAnswered
  /\ \A g \in Reads : run[g] = "done"
  /\ answer' = [done      |-> TRUE,
                providers |-> [p \in Providers |-> [availability  |-> Availability(p),
                                                    configuration |-> Configuration(p)]],
                systems   |-> [role \in Roles |-> System(role)]]
  /\ UNCHANGED <<run, expired, catalogOK, tools, integrationsOK, integrations,
                 configuration, said>>

-----------------------------------------------------------------------------

ReadEnds(g) ==
  \/ g = "catalog" /\ \E a \in CatalogAnswers : ReadCatalog(a)
  \/ g = "integrations" /\ \E a \in IntegrationAnswers : ReadIntegrations(a)
  \/ g \in {"ledger", "odoo"} /\ \E a \in SourceAnswers : ReadSource(g, a)
  \/ g = "okioki" /\ \E a \in HealthAnswers : ReadHealth(a)

OverviewNext == Expire \/ Respond \/ \E g \in Reads : ReadEnds(g)

(* The services need not answer; the deadline comes, and then every read   *)
(* ends.                                                                   *)
Fairness ==
  /\ WF_overviewVars(Expire) /\ WF_overviewVars(Respond)
  /\ \A g \in Reads : WF_overviewVars(expired /\ ReadEnds(g))

OverviewSpec == OverviewInit /\ [][OverviewNext]_overviewVars

OverviewFairSpec == OverviewSpec /\ Fairness

-----------------------------------------------------------------------------

OwnCatalog ==
  said.catalog.status = 200 /\ said.catalog.org = Org /\ said.catalog.valid

(* The tools of the catalog that declare key as their connection type.     *)
Takers(key) ==
  {n \in DOMAIN said.catalog.list : said.catalog.list[n].connection = key}

(* Some tool of the catalog has this word as its status.                   *)
CatalogSays(word) ==
  \E n \in DOMAIN said.catalog.list : said.catalog.list[n].status = word

(* The answer says of every provider what its services said, whatever the  *)
(* order in which they answered, and an outage is never shown as an        *)
(* absence: "Not listed" needs a catalog of this organization, "Not set" a *)
(* complete list of its connections (docs/runbooks/financial-systems.md:   *)
(* "Configuration outages or mismatched orgs display Unavailable rather    *)
(* than Not set").  The two absences are excepted for a provider that a    *)
(* tool of the catalog declares as its connection type: the code takes its *)
(* key away from it.  Availability is a word of the overview or the status *)
(* of a tool in the catalog's words, which may be the same.                *)
StatusFollowsSources ==
  answer.done => \A p \in DOMAIN answer.providers :
    LET shown == answer.providers[p]
    IN /\ ~OwnCatalog => shown.availability = "Unavailable"
       /\ shown.availability = "Unavailable" => ~OwnCatalog \/ CatalogSays("Unavailable")
       /\ shown.availability = "Not listed" /\ Takers(p) = {} =>
            \/ \A n \in DOMAIN said.catalog.list : said.catalog.list[n].key # p
            \/ CatalogSays("Not listed")
       /\ p \in {"ledger", "odoo"} => shown.configuration = SourceConfiguration(said[p])
       /\ p = "okioki" => shown.configuration = HealthConfiguration(said.okioki)
       /\ p \notin {"ledger", "odoo", "okioki"} =>
            /\ said.integrations.status # 200 => shown.configuration = "Unavailable"
            /\ shown.configuration = "Not set" /\ Takers(p) = {} =>
                 \A n \in DOMAIN said.integrations.list : said.integrations.list[n].type # p

(* A system of record is the one that the only sound record of this        *)
(* organization names for the role, and is shown under its own name; no    *)
(* installed tool, connection or outage changes it.  "Not set" means that  *)
(* the record, if there is one, leaves the role empty; everything else is  *)
(* "Unavailable" ("Do not infer a designation from an installed tool").    *)
(* The name is excepted when a tool of the catalog declares the designated *)
(* key as its connection type: the code then shows that tool's name.       *)
DesignationIsRecorded ==
  answer.done => \A role \in Roles :
    LET system == answer.systems[role]
        records == {n \in DOMAIN said.integrations.list :
                      said.integrations.list[n].type = "financial_systems"}
        named == {said.integrations.list[n].binding[role] : n \in records} \ {None}
        known == /\ said.integrations.status = 200
                 /\ Cardinality(records) <= 1
                 /\ \A n \in records : LET r == said.integrations.list[n]
                                       IN r.sound /\ r.org = Org
    IN /\ system.status = "Unavailable" <=> ~known
       /\ known => named = {system.provider} \ {None}
       /\ system.status = "Set" <=> known /\ named # {}
       /\ system.status = "Set" /\ Takers(system.provider) = {} =>
            system.name = IF system.provider \in DOMAIN Aliases
                          THEN Aliases[system.provider] ELSE system.provider

(* The overview is answered although any service may be silent.            *)
OverviewAnswered == <>answer.done
=============================================================================
