SPECIFICATION FairSpec
CONSTANTS
  Threads = {t1, t2, t3}
  Types <- DataTypes
  Requests <- SmallRequests
  MAX_LOCK_RECORDS = 2
  N_NATIVE_LOCKS = 14
  NoThread = NoThread
  None = None
INVARIANT TypeOK
INVARIANT ListSorted
INVARIANT HoldersExcluded
INVARIANT HoldingsBacked
INVARIANT SleepersHaveReason
PROPERTY WaiterServed
CHECK_DEADLOCK FALSE
