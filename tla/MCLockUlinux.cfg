SPECIFICATION FairSpec
CONSTANTS
  Threads = {t1, t2}
  Mandates = {m1, m2}
  Types <- MCTypes
  LockRegions <- SmallLockRegions
  UnlockRegions <- SmallUnlockRegions
  MaxRecords = 3
  NoThread = NoThread
  NoCall = NoCall
INVARIANT TypeOK
INVARIANT NoConflict
INVARIANT SleepersHaveReason
INVARIANT RecordsNonEmpty
PROPERTY ImplementsRegionLock
PROPERTY HoldingsAsAsked
PROPERTY WaiterServed
CHECK_DEADLOCK FALSE
