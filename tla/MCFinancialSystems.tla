-------------------------- MODULE MCFinancialSystems --------------------------
(***************************************************************************)
(* FinancialSystems for TLC.  The catalogs: empty; two tools of built-in   *)
(* systems, one under another name, and a further accounting tool that     *)
(* calls itself unavailable; a tool whose connection type is a built-in    *)
(* key.  The integrations: none; one sound record beside a connection; two *)
(* records; a record of another organization; one that is not sound; a     *)
(* revoked and a garbled connection.                                       *)
(***************************************************************************)
EXTENDS FinancialSystems

MCTool(key, role, connection) ==
  [key |-> key, role |-> role, connection |-> connection, status |-> "running"]

MCCatalogs ==
  {<<>>,
   <<MCTool("shopify", "revenue", None), MCTool("nimsforestledger", "cashflow", None),
     [MCTool("books", "accounting", "booksapi") EXCEPT !.status = "Unavailable"],
     MCTool("chat", None, None)>>,
   <<MCTool("store", "revenue", "shopify")>>}

MCCatalogAnswers ==
  {Silent} \cup
  [status : {200, 503}, org : {Org, "other"}, valid : {TRUE}, list : MCCatalogs] \cup
  [status : {200}, org : {Org}, valid : {FALSE}, list : MCCatalogs]

MCNoBinding == [r \in Roles |-> None]

MCBinding == [cashflow |-> "nimsforestledger", accounting |-> None, revenue |-> "shopify"]

MCRecord(org, sound) ==
  [type |-> "financial_systems", org |-> org, sound |-> sound, binding |-> MCBinding,
   grant |-> "recorded"]

MCConnection(type, grant) ==
  [type |-> type, org |-> Org, sound |-> FALSE, binding |-> MCNoBinding, grant |-> grant]

MCLists ==
  {<<>>,
   <<MCConnection("shopify", "recorded"), MCRecord(Org, TRUE)>>,
   <<MCRecord(Org, TRUE), MCRecord(Org, TRUE)>>,
   <<MCRecord("other", TRUE)>>,
   <<MCRecord(Org, FALSE)>>,
   <<MCConnection("booksapi", "revoked"), MCConnection("exactonline", "garbled")>>}

MCIntegrationAnswers ==
  {Silent} \cup [status : {200, 503}, org : {Org}, valid : {TRUE}, list : MCLists]
=============================================================================
