SPECIFICATION FairSpec
CONSTANTS
  r1 = r1
  r2 = r2
  r3 = r3
  r4 = r4
  long = long
  i1 = i1
  alice = alice
  bob = bob
  bus = bus
  org = org
  other = other
  None = None
  Refs <- MCRefs
  LongRefs <- MCNoRefs
  Ids <- MCIds
  Actors <- MCActors
  Contents <- MCContents
  ValidContents <- MCValid
  ApprovableContents <- MCApprovable
  Orgs <- MCOrgs
  Org = org
  Commands <- MCCommands
  Admins <- MCAdmins
  BusActor = bus
  SealedContents <- MCSealed
  Requests <- MCRequests
  BusMessages <- MCBusMessages
  BatchSize = 2
  MaxMessages = 2
  MaxFaults = 2
PROPERTIES
  EveryMessageSettled
  AcceptedIsDecided
CHECK_DEADLOCK FALSE
