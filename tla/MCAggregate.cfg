CONSTANTS
  ForkError = ForkError
  MaxClients = 3
  Before <- MCBefore
  ForkFails = TRUE
  CommandFails = TRUE
SPECIFICATION FairSpec
CHECK_DEADLOCK FALSE
INVARIANTS
  ClientMeasured
  GivesUpForCause
PROPERTIES
  Ends
  ImplementsPhaseBarrier
