CONSTANTS
  ForkError = ForkError
  NumJobs = 2
  MaxIter = 2
  ForkFails = FALSE
  IOFails = TRUE
SPECIFICATION Spec
CHECK_DEADLOCK FALSE
INVARIANT SucceedsMeansWritten
