CONSTANTS
  ForkError = ForkError
  NumServers = 2
  NumBricks = 2
  MaxFaults = 2
SPECIFICATION FairSpec
CHECK_DEADLOCK FALSE
INVARIANTS
  RestartsDone
  LastDisksRecovered
PROPERTY Ends
