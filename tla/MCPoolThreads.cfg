CONSTANTS
  t1 = t1
  t2 = t2
  m1 = m1
  NoThread = NoThread
  SizeofType = 4
  Count = 2
  Pool = 64
  WordSize = 4096
  HeapBlocks <- MCHeapBlocks
  Threads = {t1, t2}
  Monitors = {m1}
  StrayPutters = {}
  CallocFails = FALSE
  MaxHeld = 2
  MaxAllocs = 3
SPECIFICATION Spec
INVARIANTS
  TypeOK
  PoolConsistent
  ExclusiveOwnership
  NoLeak
  ReturnedZeroed
  Watermarks
  HeapAccounted
  SnapshotConsistent
  StaysAlive
PROPERTY ImplementsObjectPool
