SPECIFICATION StoreSpec
CONSTANTS
  r1 = r1
  r2 = r2
  r3 = r3
  r4 = r4
  r5 = r5
  long = long
  i1 = i1
  i2 = i2
  alice = alice
  bob = bob
  org = org
  other = other
  None = None
  Refs <- MCRefs
  LongRefs <- MCLongRefs
  Ids <- MCIds
  Actors <- MCActors
  Contents <- MCContents
  ValidContents <- MCValid
  ApprovableContents <- MCApprovable
  Orgs <- MCOrgs
  Org = org
  Commands <- MCCommands
SYMMETRY Symmetry
INVARIANTS
  StoreTypeOK
  HistoryMatchesForecasts
  EveryRevisionAudited
  ApprovedWasReviewed
  LineageSound
PROPERTIES
  ApprovedImmutable
  ImplementsWorkflow
