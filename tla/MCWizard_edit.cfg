SPECIFICATION Spec
CONSTANTS
  Tabs <- OneTab
  Drafts <- FewDrafts
  MaxManualEndpoints = 2
PROPERTY EditKeepsSaved
CHECK_DEADLOCK FALSE
