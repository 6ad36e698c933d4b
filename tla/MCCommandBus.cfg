SPECIFICATION Spec
CONSTANTS
  r1 = r1
  r2 = r2
  r3 = r3
  r4 = r4
  long = long
  i1 = i1
  alice = alice
  bob = bob
  bus = bus
  org = org
  other = other
  None = None
  Refs <- MCRefs
  LongRefs <- MCLongRefs
  Ids <- MCIds
  Actors <- MCActors
  Contents <- MCContents
  ValidContents <- MCValid
  ApprovableContents <- MCApprovable
  Orgs <- MCOrgs
  Org = org
  Commands <- MCAllCommands
  Admins <- MCAdmins
  BusActor = bus
  SealedContents <- MCSealed
  Requests <- MCAllRequests
  BusMessages <- MCBusMessages
  BatchSize = 2
  MaxMessages = 3
  MaxFaults = 2
INVARIANTS
  BusTypeOK
  NothingSettledUndecided
  AuthorityTraced
  ProvenanceKept
PROPERTIES
  OutcomeFinal
  NoLostUpdate
CHECK_DEADLOCK FALSE
