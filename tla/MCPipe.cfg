SPECIFICATION FairSpec
CONSTANTS
  BUFSIZE = 4
  Lens = {1, 2, 4}
  TryLens = {0, 2}
INVARIANT TypeOK
INVARIANT ReaderSeesStream
INVARIANT RegionsSafe
INVARIANT NeverBothAsleep
INVARIANT SleepersHaveReason
PROPERTY ImplementsStream
PROPERTY WaiterServed
PROPERTY RefusedOnlyDuringDelete
