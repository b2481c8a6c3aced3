CONSTANTS
  t1 = t1
  t2 = t2
  m1 = m1
  NoThread = NoThread
  SizeofType = 4
  Count = 3
  Pool = 64
  WordSize = 4096
  HeapBlocks <- MCHeapBlocks
  Threads = {t1, t2}
  Monitors = {m1}
  StrayPutters = {t1, t2}
  CallocFails = TRUE
  MaxHeld = 2
  MaxAllocs = 8
  Iter = 2
SPECIFICATION FairSpecWorkers
CHECK_DEADLOCK FALSE
INVARIANTS
  WorkingSet
  NoFreedPut
  ContentsKept
PROPERTIES
  RoundEnds
