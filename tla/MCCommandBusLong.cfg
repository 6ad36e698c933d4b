SPECIFICATION FairSpec
CONSTANTS
  r1 = r1
  r2 = r2
  r3 = r3
  r4 = r4
  long = long
  i1 = i1
  alice = alice
  bob = bob
  bus = bus
  org = org
  other = other
  None = None
  Refs <- MCRefs
  LongRefs <- MCLongRefs
  Ids <- MCIds
  Actors <- MCActors
  Contents <- MCContents
  ValidContents <- MCValid
  ApprovableContents <- MCApprovable
  Orgs <- MCOrgs
  Org = org
  Commands <- MCLongRequest
  Admins <- MCAdmins
  BusActor = bus
  SealedContents <- MCSealed
  Requests <- MCLongRequest
  BusMessages <- MCNoMessages
  BatchSize = 2
  MaxMessages = 1
  MaxFaults = 0
PROPERTIES
  AcceptedIsDecided
CHECK_DEADLOCK FALSE
