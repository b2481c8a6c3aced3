CONSTANTS
  t1 = t1
  t2 = t2
  m1 = m1
  NoThread = NoThread
  SizeofType = 4
  Count = 2
  Pool = 64
  WordSize = 4096
  HeapBlocks <- MCHeapBlocks
  Threads = {t1, t2}
  Monitors = {}
  StrayPutters = {t1}
  CallocFails = TRUE
  MaxHeld = 2
  MaxAllocs = 2
SPECIFICATION FairSpec
CHECK_DEADLOCK FALSE
INVARIANT PoolConsistent
PROPERTY LockReleased
