SPECIFICATION Spec
CONSTANTS
  Tabs <- TwoTabs
  Drafts <- FewDrafts
  MaxManualEndpoints = 1
INVARIANT ReturnedConfigIsComplete
CHECK_DEADLOCK FALSE
