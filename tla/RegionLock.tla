----------------------------- MODULE RegionLock -----------------------------
(***************************************************************************)
(* What a $lock / $unlock interface promises to its callers (progr.lyx,    *)
(* section "Locking"), without any record, queue or list: each mandate     *)
(* holds lock types on addresses.                                          *)
(*                                                                         *)
(* Locking a region that the mandate already holds with another type is an *)
(* attempt to up- or downgrade it (progr.lyx:1093-1110), while locks       *)
(* accumulate (progr.lyx:1073-1090).  Which other types of the mandate     *)
(* remain on the region is therefore left open here: Grant allows a brick  *)
(* to keep them, as lock_ulinux does, and to give them up.                 *)
(***************************************************************************)
EXTENDS LockTypes

CONSTANTS
  Mandates,   \* the mandates under which locks are held
  Addrs,      \* the logical addresses
  Types       \* the packed lock types in use

VARIABLE held   \* held[m]: the pairs <<address, type>> locked under m

TypeOK == held \in [Mandates -> SUBSET (Addrs \X Types)]

Init == held = [m \in Mandates |-> {}]

(* Nobody but m holds something on region R that conflicts with type t. *)
Grantable(m, R, t) ==
  \A n \in Mandates \ {m} : \A h \in held[n] : h[1] \in R => ~Confl(h[2], t)

(* $lock succeeds: the mandate holds the region with the type asked for.   *)
(* Nothing else is added, and nothing is lost outside of the region.       *)
Grant(m, R, t) ==
  /\ Grantable(m, R, t)
  /\ held' = [held EXCEPT ![m] = held'[m]]
  /\ R \X {t} \subseteq held'[m]
  /\ held'[m] \subseteq held[m] \cup (R \X {t})
  /\ {h \in held[m] : h[1] \notin R} \subseteq held'[m]

(* $unlock, or a part of one: the mandate loses some of what it held. *)
Shed(m) ==
  /\ held' = [held EXCEPT ![m] = held'[m]]
  /\ held'[m] \subseteq held[m]

Next == \E m \in Mandates :
          \/ \E R \in SUBSET Addrs, t \in Types : Grant(m, R, t)
          \/ Shed(m)

Spec == Init /\ [][Next]_held

(***************************************************************************)
(* Two mandates never hold conflicting locks on the same address.          *)
(***************************************************************************)
Exclusion ==
  \A m, n \in Mandates : m # n =>
    \A g \in held[m], h \in held[n] : g[1] = h[1] => ~Confl(g[2], h[2])

==============================================================================
