CONSTANTS
  MinCnt = 1
  MaxCnt = 2
  MaxDepth = 3
  Descriptors = 3
  IOFails = TRUE
SPECIFICATION FairSpec
CHECK_DEADLOCK FALSE
INVARIANTS
  TreeShape
  FilledUnlessFailed
  DiesOnlyOfFailure
PROPERTIES
  IterationEnds
  EndsWithoutDescriptors
