SPECIFICATION FairSpec
CONSTANTS
  Mandates = {m1, m2}
  Types <- ReadWrite
  Requests <- MandRequests
  UnlockRegions <- MandUnlocks
  Actions = {"wait"}
  MAX_LOCK_RECORDS = 2
  None = None
INVARIANT TypeOK
INVARIANT HoldingsBacked
INVARIANT ExclusionWhileSorted
INVARIANT OwnDisjoint
INVARIANT UnlockComplete
INVARIANT SleepersHaveReason
CHECK_DEADLOCK FALSE
PROPERTY OptionalGivesWay
