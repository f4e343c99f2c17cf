----------------------------- MODULE MCLockMand ------------------------------
(***************************************************************************)
(* Small instances of LockMand on the addresses 0 to 2.                    *)
(***************************************************************************)
EXTENDS LockMand

Req(a, b, c, d) == [obl |-> <<b, c>>, opt |-> <<a, d>>]

ReadWrite == {make_lock_type(lock_read, lock_none), make_lock_type(lock_write, lock_none)}

(* A plain lock, one with an option below, a purely optional one. *)
MandRequests == {Req(0, 0, 2, 2), Req(0, 1, 2, 2), Req(0, 1, 1, 1)}
(* A whole record, its upper part, its lower part. *)
MandUnlocks == {<<0, 2>>, <<1, 2>>, <<0, 1>>}

(* Without options. *)
PlainRequests == {Req(0, 0, 1, 1), Req(0, 0, 2, 2), Req(1, 1, 2, 2)}
==============================================================================
