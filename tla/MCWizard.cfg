SPECIFICATION FairSpec
CONSTANTS
  Tabs <- TwoTabs
  Drafts <- FewDrafts
  MaxManualEndpoints = 2
INVARIANTS TypeOK WrittenConfigWorks NilMeansConfigured
PROPERTIES RoundTripsKeepEverything ConfirmEndsServe CancelEndsServe
CHECK_DEADLOCK FALSE
