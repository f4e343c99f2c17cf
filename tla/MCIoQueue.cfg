SPECIFICATION FairSpec
CONSTANTS
  Users = {u1, u2}
  Arbiters = {a1}
  Submissions <- MCSubmissions
  Cancels <- MCCancels
  IOQUEUE_MAX_REQUESTS = 3
  IOQUEUE_ADD_REQUESTS = 1
  MAX_CALLS = 4
  NoOne = NoOne
INVARIANT TypeOK
INVARIANT RequestsAccounted
INVARIANT TicketsMatchQueue
INVARIANT NormalSorted
INVARIANT AbortOnlyOnError
PROPERTY WaitDrains
PROPERTY CallsReturn
CHECK_DEADLOCK FALSE
