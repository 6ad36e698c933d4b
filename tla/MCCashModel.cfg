SPECIFICATION Spec
CONSTANTS
  Days <- MCDays
  Half = 32
  MaxAmount = 4
  MaxMovements = 3
  MovementIds <- MCIds
  SourceRefs <- MCSources
  Candidates <- MCCandidates
  Schedules <- MCSchedules
  s1 = s1
  None = None
INVARIANTS
  TypeOK
  OutlookMatchesDefinition
  NeedIsExact
  ApprovedCountsCommitted
  LongerOutlookNeedsMore
  PromisesExcluded
CHECK_DEADLOCK FALSE
