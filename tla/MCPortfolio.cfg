SPECIFICATION FairSpec
CONSTANTS
  home = home
  a = a
  b = b
  t1 = t1
  t2 = t2
  f1 = f1
  None = None
  NoOne = NoOne
  Orgs <- MCOrgs
  Home = home
  Tokens <- MCTokens
  Paths <- MCPaths
  PostOnly <- MCPostOnly
  Root = "/"
  MaxChanges = 1
  Overview = "/api/portfolio"
  Deployed <- MCDeployed
  Slugs <- MCOrgs
  Ids <- MCIds
INVARIANTS
  NoAccessWithoutMembership
  WorkspacesAccounted
PROPERTIES
  RequestsEnd
