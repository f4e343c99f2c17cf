SPECIFICATION Spec
CONSTANTS
  Mandates = {m1, m2}
  Types <- ReadWrite
  Requests <- PlainRequests
  UnlockRegions <- MandUnlocks
  Actions = {"wait"}
  MAX_LOCK_RECORDS = 3
  None = None
INVARIANT HoldersExcluded
CHECK_DEADLOCK FALSE
