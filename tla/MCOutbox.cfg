SPECIFICATION FairSpec
CONSTANTS
  r1 = r1
  r2 = r2
  r3 = r3
  i1 = i1
  bob = bob
  org = org
  None = None
  Refs <- MCRefs
  LongRefs <- MCNoRefs
  Ids <- MCIds
  Actors <- MCActors
  Contents <- MCContents
  ValidContents <- MCContents
  ApprovableContents <- MCContents
  Orgs <- MCOrgs
  Org = org
  Commands <- MCCommands
  Limit = 2
  MaxFaults = 2
INVARIANTS
  SentWasAnnounced
  RiverShowsChanges
  RiverInRevisionOrder
PROPERTIES
  OutcomesReachHumus
  ChangesReachRiver
CHECK_DEADLOCK FALSE
