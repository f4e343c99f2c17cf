SPECIFICATION Spec
CONSTANTS
  c1 = c1
  c2 = c2
  k1 = k1
  k2 = k2
  Caches = {c1, c2}
  Clients = {k1, k2}
  CacheOf <- MCCacheOf
  Threads = {1}
  Nobody = Nobody
INVARIANT HoldersExcluded
CHECK_DEADLOCK FALSE
