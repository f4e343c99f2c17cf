SPECIFICATION Spec
CONSTANTS
  Threads = {t1, t2}
  Types <- DataTypes
  Requests <- PlainRequests
  MAX_LOCK_RECORDS = 2
  N_NATIVE_LOCKS = 1
  NoThread = NoThread
  None = None
INVARIANT HoldersExcluded
CHECK_DEADLOCK FALSE
