------------------------------ MODULE LockTypes ------------------------------
(***************************************************************************)
(* The lock types of the $lock operation and the two tables by which the   *)
(* lock bricks decide whether two locks on the same address conflict.      *)
(*                                                                         *)
(* A request names a data lock and an address lock, each lock_none,        *)
(* lock_read or lock_write (common.h).  lock_ulinux packs the pair into    *)
(* addr * 3 + data and looks it up in the 9 x 9 matrix confl; lock_mutex,  *)
(* lock_mand and lock_cache pack it into addr << 2 | data and look it up   *)
(* in the bit masks lock_conflict_def.                                     *)
(***************************************************************************)
EXTENDS Integers, Sequences

lock_none == 0
lock_read == 1
lock_write == 2
lock_t == {lock_none, lock_read, lock_write}

(***************************************************************************)
(* lock_ulinux: type = addr_part * 3 + data_part.                          *)
(***************************************************************************)
MAKE_TYPE(data_part, addr_part) == addr_part * 3 + data_part

UlinuxTypes == 0 .. 8

confl ==
  << << 0, 0, 0,   0, 0, 0,   0, 0, 0 >>,
     << 0, 0, 1,   0, 0, 1,   1, 1, 1 >>,
     << 0, 1, 1,   0, 1, 1,   1, 1, 1 >>,

     << 0, 0, 0,   0, 0, 0,   1, 1, 1 >>,
     << 0, 0, 1,   0, 0, 1,   1, 1, 1 >>,
     << 0, 1, 1,   0, 1, 1,   1, 1, 1 >>,

     << 0, 1, 1,   1, 1, 1,   1, 1, 1 >>,
     << 0, 1, 1,   1, 1, 1,   1, 1, 1 >>,
     << 0, 1, 1,   1, 1, 1,   1, 1, 1 >> >>

(* confl[s][t] of the C code, whose arrays start at 0. *)
Confl(s, t) == confl[s + 1][t + 1] = 1

(***************************************************************************)
(* lock_mutex: type = addr_lock * 4 + data_lock.  Entry A of the table is  *)
(* a mask with bit B set when A conflicts with B.                          *)
(***************************************************************************)
make_lock_type(data_lock, addr_lock) == addr_lock * 4 + data_lock

MutexTypes == {make_lock_type(d, a) : d \in lock_t, a \in lock_t}

(* 0x444 = 1092, 0x666 = 1638, 0x700 = 1792, 0x744 = 1860, 0x766 = 1894,   *)
(* 0x770 = 1904, 0x774 = 1908, 0x776 = 1910.                               *)
lock_conflict_def ==
  <<    0, 1092, 1638,    0,
     1792, 1860, 1894,    0,
     1904, 1908, 1910 >>

is_conflict(desc, lock) == (lock_conflict_def[desc + 1] \div 2^lock) % 2 = 1

==============================================================================
