---------------------------- MODULE MCLockCache ----------------------------
(* An instance of LockCache for TLC: two caches with a client each. *)
EXTENDS LockCache, TLC

CONSTANTS c1, c2, k1, k2

MCCacheOf == k1 :> c1 @@ k2 :> c2
============================================================================
