CONSTANTS
  r1 = r1
  r2 = r2
  Runs = {r1, r2}
  NumFiles = 2
  Volumes <- MCVolumes
  IOFails = TRUE
  Dies = TRUE
  SshBreaks = TRUE
SPECIFICATION FairSpec
CHECK_DEADLOCK FALSE
INVARIANTS
  OnVolume
  CleanExit
  TransferComplete
  TimeIsMeasured
  TimeIsLatest
PROPERTY RunEnds
