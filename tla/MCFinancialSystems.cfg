SPECIFICATION OverviewFairSpec
CONSTANTS
  Org = "org"
  None = None
  CatalogAnswers <- MCCatalogAnswers
  IntegrationAnswers <- MCIntegrationAnswers
INVARIANTS
  StatusFollowsSources
  DesignationIsRecorded
PROPERTIES
  OverviewAnswered
CHECK_DEADLOCK FALSE
