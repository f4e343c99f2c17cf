----------------------------- MODULE LockCache -----------------------------
(***************************************************************************)
(* Lock caches (lock_cache.ath) in front of one lock manager               *)
(* (lock_manager.ath: a lock_cache that owns everything and whose clients  *)
(* are the caches).  A cache notes, as a record with its own mandate, what *)
(* the manager owns; what has no record it owns itself.  A client's $lock  *)
(* that meets the manager's record asks the manager for the region; the    *)
(* manager sends $retract to the other caches, and a thread of theirs      *)
(* locks the region with the cache's own mandate and then unlocks it at    *)
(* the manager.                                                            *)
(*                                                                         *)
(* One region is modelled: requests for other regions share only the       *)
(* mutex.  mutex[c] is the owner of the mutex of c between two actions; a  *)
(* wait releases it.  `ops' is the list of the calls a cache has sent to   *)
(* the manager (lock_manager_rec_storage).                                 *)
(***************************************************************************)
EXTENDS Integers, SequencesExt

CONSTANTS
  Caches,      \* the caches: their mandates at the manager
  Clients,     \* the clients of the caches
  CacheOf,     \* the cache of each client, in [Clients -> Caches]
  Threads,     \* bound: the threads of a cache that handle $retract
  Nobody       \* neither a cache nor a client

(* data_lock; a conflict needs a writer *)
lock_none == 0
lock_read == 1
lock_write == 2
Conflicting(s, t) == s # lock_none /\ t # lock_none /\ lock_write \in {s, t}

Retractors == Caches \X Threads
Procs == Clients \cup Retractors
Cache(p) == IF p \in Clients THEN CacheOf[p] ELSE p[1]

VARIABLES
  mutex,    \* mutex[c]: who keeps the mutex of c
  mgr,      \* mgr[c]: the record of the manager is in the list of c
  hold,     \* the record of each client: the type of its lock
  ops,      \* ops[c]: [type, native] of the calls to the manager on their way
  owner,    \* the record at the manager: the cache that owns the region
  pc, want, \* where each process is, the type a client asks for
  on        \* what a sleeper waits for: a client's record, a native lock, an owner

vars == <<mutex, mgr, hold, ops, owner, pc, want, on>>

Natives == 0 .. (Cardinality(Procs) - 1)

(* The record types. *)
TypeOK ==
  /\ mutex \in [Caches -> Procs \cup {Nobody}]
  /\ mgr \in [Caches -> BOOLEAN]
  /\ hold \in [Clients -> {lock_none, lock_read, lock_write}]
  /\ \A c \in Caches : ops[c] \in Seq([type : {"lock", "unlock"}, native : Natives])
  /\ owner \in Caches \cup {Nobody}
  /\ pc \in [Procs -> {"idle", "search", "sleep", "send", "opwait", "add", "call",
                       "callwait", "return", "holds"}]
  /\ want \in [Clients -> {lock_none, lock_read, lock_write}]
  /\ on \in [Procs -> Clients \cup Caches \cup Natives \cup {Nobody}]

(* The region belongs to the manager at first. *)
Init ==
  /\ mutex = [c \in Caches |-> Nobody]
  /\ mgr = [c \in Caches |-> TRUE]
  /\ hold = [k \in Clients |-> lock_none]
  /\ ops = [c \in Caches |-> << >>]
  /\ owner = Nobody
  /\ pc = [p \in Procs |-> "idle"]
  /\ want = [k \in Clients |-> lock_none]
  /\ on = [p \in Procs |-> Nobody]

Goto(p, where) == pc' = [pc EXCEPT ![p] = where]

(* p takes the mutex, or has kept it, and releases it or keeps it. *)
Released(p) ==
  mutex[Cache(p)] \in {Nobody, p} /\ mutex' = [mutex EXCEPT ![Cache(p)] = Nobody]
Kept(p) ==
  mutex[Cache(p)] \in {Nobody, p} /\ mutex' = [mutex EXCEPT ![Cache(p)] = p]

------------------------------------------------------------------------------
(* The conflicting records in the list of the cache of p; a $retract thread *)
(* asks for a write lock with the cache's mandate.                         *)
Type(p) == IF p \in Clients THEN want[p] ELSE lock_write

Conflictors(p) ==
  {k \in Clients \ {p} : CacheOf[k] = Cache(p) /\ Conflicting(hold[k], Type(p))}
    \cup (IF p \in Clients /\ mgr[Cache(p)] THEN {Cache(p)} ELSE {})

(* $lock with action_wait; without it, a conflict ends $lock at once and   *)
(* nothing changes.                                                        *)
CallLock(k, t) ==
  /\ pc[k] \in {"idle", "holds"}
  /\ want' = [want EXCEPT ![k] = t]
  /\ Goto(k, "search")
  /\ UNCHANGED <<mutex, mgr, hold, ops, owner, on>>

LockGranted(k) ==
  /\ pc[k] = "search"
  /\ Released(k)
  /\ Conflictors(k) = {}
  /\ hold' = [hold EXCEPT ![k] = IF want[k] > @ THEN want[k] ELSE @]
  /\ want' = [want EXCEPT ![k] = lock_none]
  /\ Goto(k, "holds")
  /\ UNCHANGED <<mgr, ops, owner, on>>

(* The first conflicting record is a client's: wait until it is removed.   *)
(* The $retract it is sent asks it to unlock, which it may do anyway.      *)
LockSleep(p) ==
  /\ pc[p] = "search"
  /\ Released(p)
  /\ \E k \in Conflictors(p) \cap Clients : on' = [on EXCEPT ![p] = k]
  /\ Goto(p, "sleep")
  /\ UNCHANGED <<mgr, hold, ops, owner, want>>

(* It is the manager's: the region is requested from the manager. *)
LockMiss(k) ==
  /\ pc[k] = "search"
  /\ Kept(k)
  /\ Cache(k) \in Conflictors(k)
  /\ Goto(k, "send")
  /\ UNCHANGED <<mgr, hold, ops, owner, want, on>>

(* The records with native lock or client n are removed: sleepers go on. *)
Woken(n, from, to) ==
  [p \in Procs |-> IF pc[p] = from /\ on[p] = n THEN to ELSE pc[p]]

Unlock(k) ==
  /\ pc[k] = "holds"
  /\ Released(k)
  /\ hold' = [hold EXCEPT ![k] = lock_none]
  /\ pc' = [Woken(k, "sleep", "search") EXCEPT ![k] = "idle"]
  /\ UNCHANGED <<mgr, ops, owner, want, on>>

------------------------------------------------------------------------------
(* Calls to the manager: OP_LOCK of a client, OP_UNLOCK of a $retract.     *)
OpType(p) == IF p \in Clients THEN "lock" ELSE "unlock"

Opposed(p) == {i \in DOMAIN ops[Cache(p)] : ops[Cache(p)][i].type # OpType(p)}

(* Waits for the first conflicting call, once: the loop around it is only  *)
(* the do ... while(0) of the macro.                                       *)
wait_for_op_conflicts(p) ==
  /\ pc[p] = "send"
  /\ Released(p)
  /\ Opposed(p) # {}
  /\ on' = [on EXCEPT ![p] = ops[Cache(p)][Min(Opposed(p))].native]
  /\ Goto(p, "opwait")
  /\ UNCHANGED <<mgr, hold, ops, owner, want>>

add_manager_lock_record(p) ==
  /\ pc[p] = "add" \/ (pc[p] = "send" /\ Opposed(p) = {})
  /\ Released(p)
  /\ LET c == Cache(p)
         free == Natives \ {ops[c][i].native : i \in DOMAIN ops[c]} IN
     ops' = [ops EXCEPT ![c] = Append(@, [type |-> OpType(p), native |-> Min(free)])]
  /\ Goto(p, "call")
  /\ UNCHANGED <<mgr, hold, owner, want, on>>

(* :<in$lock at the manager: the region is granted ... *)
ManagerGrants(k) ==
  /\ k \in Clients /\ pc[k] = "call"
  /\ owner \in {Nobody, Cache(k)}
  /\ owner' = Cache(k)
  /\ Goto(k, "return")
  /\ UNCHANGED <<mutex, mgr, hold, ops, want, on>>

(* ... or $retract goes to all other caches, and $lock waits. *)
ManagerRetracts(k) ==
  /\ k \in Clients /\ pc[k] = "call"
  /\ owner \notin {Nobody, Cache(k)}
  /\ \E s \in {f \in [Caches \ {Cache(k)} -> Threads] : \A c \in DOMAIN f : pc[<<c, f[c]>>] = "idle"} :
       pc' = [p \in Procs |->
                IF p = k THEN "callwait"
                ELSE IF p \in Retractors /\ p[1] # Cache(k) /\ p[2] = s[p[1]] THEN "search"
                ELSE pc[p]]
  /\ on' = [on EXCEPT ![k] = owner]
  /\ UNCHANGED <<mutex, mgr, hold, ops, owner, want>>

(* The $retract thread got the region: it belongs to the manager again. *)
RetractGranted(r) ==
  /\ pc[r] = "search"
  /\ Released(r)
  /\ Conflictors(r) = {}
  /\ mgr' = [mgr EXCEPT ![r[1]] = TRUE]
  /\ Goto(r, "send")
  /\ UNCHANGED <<hold, ops, owner, want, on>>

(* :<in$unlock at the manager *)
ManagerUnlocks(r) ==
  /\ r \in Retractors /\ pc[r] = "call"
  /\ owner' = IF owner = r[1] THEN Nobody ELSE owner
  /\ pc' = [Woken(r[1], "callwait", "call") EXCEPT ![r] = "return"]
  /\ UNCHANGED <<mutex, mgr, hold, ops, want, on>>

(* The call has returned: the first record of its kind is forgotten.  A    *)
(* client removes the record of the manager and searches again.            *)
remove_manager_lock_record(p) ==
  /\ pc[p] = "return"
  /\ IF p \in Clients THEN Kept(p) ELSE Released(p)
  /\ LET c == Cache(p)
         i == Min({j \in DOMAIN ops[c] : ops[c][j].type = OpType(p)})
         n == ops[c][i].native IN
     /\ ops' = [ops EXCEPT ![c] = RemoveAt(@, i)]
     /\ pc' = [q \in Procs |->
                 IF q = p THEN (IF p \in Clients THEN "search" ELSE "idle")
                 ELSE IF Cache(q) = c /\ pc[q] = "opwait" /\ on[q] = n THEN "add"
                 ELSE pc[q]]
     /\ mgr' = IF p \in Clients THEN [mgr EXCEPT ![c] = FALSE] ELSE mgr
  /\ UNCHANGED <<hold, owner, want, on>>

------------------------------------------------------------------------------
Next ==
  \/ \E k \in Clients :
       \/ \E t \in {lock_read, lock_write} : CallLock(k, t)
       \/ LockGranted(k) \/ LockMiss(k) \/ Unlock(k)
       \/ ManagerGrants(k) \/ ManagerRetracts(k)
  \/ \E r \in Retractors : RetractGranted(r) \/ ManagerUnlocks(r)
  \/ \E p \in Procs :
       \/ LockSleep(p) \/ wait_for_op_conflicts(p)
       \/ add_manager_lock_record(p) \/ remove_manager_lock_record(p)

Spec == Init /\ [][Next]_vars

------------------------------------------------------------------------------
(* Clients never hold conflicting locks, whichever caches they use: what a *)
(* cache lets its clients lock is unlocked at the manager only after they  *)
(* have given it back.                                                     *)
HoldersExcluded ==
  \A j, k \in Clients : j # k => ~Conflicting(hold[j], hold[k])
============================================================================
