SPECIFICATION Spec
CONSTANTS
  Users = {u1}
  Arbiters = {a1, a2}
  Submissions <- MCSubmissions
  Cancels = {}
  IOQUEUE_MAX_REQUESTS = 4
  IOQUEUE_ADD_REQUESTS = 1
  MAX_CALLS = 3
  NoOne = NoOne
INVARIANT AbortOnlyOnError
CHECK_DEADLOCK FALSE
