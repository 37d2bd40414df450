SPECIFICATION Spec
CONSTANTS
  CountLimit = 4
  OffsetLimit = 576
  Tree <- MCTree
  Cuts <- MCCuts
  MaxTopics = 4
INVARIANTS
  OnlyCompleteFilesOpen
  SuccessfulBuildOpens
  ReadsBackTheTree
