----------------------------- MODULE MCLockMutex -----------------------------
(***************************************************************************)
(* Small instances of LockMutex on the addresses 0 and 1.                  *)
(***************************************************************************)
EXTENDS LockMutex

Req(a, b, c, d) == [obl |-> <<b, c>>, opt |-> <<a, d>>]

DataTypes == {make_lock_type(lock_read, lock_none), make_lock_type(lock_write, lock_none)}

(* A plain lock, one with an option above, one purely optional. *)
SmallRequests == {Req(0, 0, 2, 2), Req(0, 0, 1, 2), Req(0, 1, 1, 2)}
PlainRequests == {Req(0, 0, 1, 1), Req(0, 0, 2, 2)}

(***************************************************************************)
(* The bit masks read as a rule: readers and writers exclude each other on *)
(* the data and on the address dimension, independently of each other.     *)
(***************************************************************************)
ReadWriteRule(k, l) == \/ k = lock_write /\ l # lock_none
                       \/ l = lock_write /\ k # lock_none

ASSUME MaskMeaning ==
  \A d, a, e, b \in lock_t :
    is_conflict(make_lock_type(d, a), make_lock_type(e, b)) =
      (ReadWriteRule(d, e) \/ ReadWriteRule(a, b))
==============================================================================
