---------------------------- MODULE MCLockUlinux ----------------------------
(***************************************************************************)
(* Small instances of LockUlinux.  Two threads call the brick under two    *)
(* mandates; the regions are chosen so that merging, splitting, cutting at *)
(* either end and removal of records all occur.                            *)
(***************************************************************************)
EXTENDS LockUlinux

R(a, b) == [start |-> a, end |-> b]

MCTypes == {MAKE_TYPE(lock_read, lock_read), MAKE_TYPE(lock_write, lock_read)}

SmallLockRegions == {R(0, 3), R(1, 2), R(2, 2)}
SmallUnlockRegions == {R(0, 3), R(1, 2)}

(***************************************************************************)
(* The 9 x 9 matrix read as a rule: readers and writers exclude each other *)
(* on the data and on the address dimension, and a write lock on the       *)
(* address association excludes every real lock, a pure data lock too.     *)
(***************************************************************************)
ReadWriteRule(k, l) == \/ k = lock_write /\ l # lock_none
                       \/ l = lock_write /\ k # lock_none

ASSUME MatrixMeaning ==
  \A d, a, e, b \in lock_t :
    Confl(MAKE_TYPE(d, a), MAKE_TYPE(e, b)) =
      \/ ReadWriteRule(d, e)
      \/ ReadWriteRule(a, b)
      \/ lock_write \in {a, b} /\ {d, a} # {lock_none} /\ {e, b} # {lock_none}
==============================================================================
