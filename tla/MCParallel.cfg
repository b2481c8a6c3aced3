CONSTANTS
  ForkError = ForkError
  NumJobs = 3
  MaxIter = 2
  ForkFails = TRUE
  IOFails = TRUE
SPECIFICATION FairSpec
CHECK_DEADLOCK FALSE
INVARIANTS
  OwnIteration
  WrittenUnlessFailed
PROPERTY Ends
