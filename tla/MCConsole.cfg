SPECIFICATION Spec
CONSTANTS
  r1 = r1
  r2 = r2
  r3 = r3
  i1 = i1
  i2 = i2
  t1 = t1
  alice = alice
  org = org
  None = None
  Refs <- MCRefs
  LongRefs = {}
  Ids <- MCIds
  Actors <- MCActors
  Contents <- MCContents
  ValidContents <- MCContents
  ApprovableContents <- MCContents
  Orgs <- MCOrgs
  Org = org
  Commands <- MCCommands
  Tabs <- MCTabs
  User <- MCUser
  Admins <- MCActors
  MaxPolls = 1
  MaxForms = 2
  MaxReloads = 3
CONSTRAINTS FewReloads PressedOnce
SYMMETRY Symmetry
INVARIANTS
  EditAppliedOnce
PROPERTIES
  ShownNeverOlder
CHECK_DEADLOCK FALSE
