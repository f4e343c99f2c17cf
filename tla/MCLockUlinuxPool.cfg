SPECIFICATION Spec
CONSTANTS
  Threads = {t1, t2}
  Records = {r1, r2}
  NULL = NULL
INVARIANT RecordsUnshared
CHECK_DEADLOCK FALSE
