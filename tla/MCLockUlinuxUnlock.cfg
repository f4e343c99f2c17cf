SPECIFICATION Spec
CONSTANTS
  Threads = {t1, t2}
  Mandates = {m1, m2}
  Types <- MCTypes
  LockRegions <- SmallLockRegions
  UnlockRegions <- SmallUnlockRegions
  MaxRecords = 3
  NoThread = NoThread
  NoCall = NoCall
INVARIANT UnlockComplete
CHECK_DEADLOCK FALSE
