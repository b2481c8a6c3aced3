CONSTANTS
  ForkError = ForkError
  NumServers = 2
  NumBricks = 2
  MaxFaults = 0
SPECIFICATION Spec
CHECK_DEADLOCK FALSE
INVARIANT VerdictOfRead
