SPECIFICATION Spec
CONSTANTS
  r1 = r1
  r2 = r2
  k1 = k1
  k2 = k2
  Refs <- MCRefs
  Keys <- MCKeys
  None = None
  MaxFaults = 3
INVARIANTS
  DegradedIsReported
CHECK_DEADLOCK FALSE
