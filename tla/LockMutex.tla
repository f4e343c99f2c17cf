------------------------------ MODULE LockMutex ------------------------------
(***************************************************************************)
(* The bricks lock_mutex and lock_native (lock_mutex.ath, lock_native.ath): *)
(* region locks that ignore mandates.  lock_mutex keeps granted locks in a *)
(* doubly linked list sorted by start address; overlapping locks that do   *)
(* not conflict stack, and an $unlock takes away one lock per address,     *)
(* whichever it meets first.  A $lock has an obligatory part, for which it *)
(* waits, and an optional part around it, which is cut where it conflicts. *)
(* Every record owns a native lock to sleep on; freeing the native lock    *)
(* wakes its sleepers, who search the list again.  The wait is that of the *)
(* ulinux build, pthread_cond_wait.                                        *)
(*                                                                         *)
(* The list is a sequence.  $lock is one step: it holds the native mutex   *)
(* and makes one change.  $unlock, which edits the list while it walks it, *)
(* takes one step per turn of its loop.  The users are part of the module: *)
(* a thread unlocks what it locked, whole or in two parts ("The sum of     *)
(* $lock and $unlock must be 0").                                          *)
(***************************************************************************)
EXTENDS LockList

CONSTANTS
  Threads,
  Types,            \* the packed lock types asked for
  Requests,         \* the regions: obligatory and optional part
  MAX_LOCK_RECORDS, \* bound: no $lock starts with so many records in the list
  N_NATIVE_LOCKS,   \* the native locks there are (128)
  NoThread, None

ASSUME MutexAssumption ==
  /\ Types \subseteq MutexTypes
  /\ Requests \subseteq [obl : Nat \X Nat, opt : Nat \X Nat]
  /\ \A r \in Requests : r.obl[1] =< r.obl[2] /\ r.opt[1] =< r.opt[2]
  /\ MAX_LOCK_RECORDS \in Nat
  /\ N_NATIVE_LOCKS \in Nat
  /\ NoThread \notin Threads

VARIABLES
  list,     \* the active lock records, by start address
  mutex,    \* the thread that holds the native mutex
  pc,       \* where each thread is
  call,     \* the arguments of its call; desc of a running $unlock
  cursor,   \* $unlock: position of the record looked at
  sleepon,  \* the native lock it sleeps on, or is about to
  held      \* what each thread's user believes to hold

vars == <<list, mutex, pc, call, cursor, sleepon, held>>

Natives == 0 .. (N_NATIVE_LOCKS - 1)

action_t == {"ask", "try", "wait"}
Desc == [start : Nat, end : Nat, type : MutexTypes]
LockRec == [start : Nat, end : Nat, type : MutexTypes, native_lock : Natives]
Call == [obl : Nat \X Nat, opt : Nat \X Nat, type : Types, action : action_t]

(* None is no region. *)
ASSUME NoDesc == None \notin Desc

TypeOK ==
  /\ list \in Seq(LockRec)
  /\ mutex \in Threads \cup {NoThread}
  /\ pc \in [Threads -> {"idle", "lock", "sleep", "unlock", "loop"}]
  /\ call \in [Threads -> Call \cup Desc \cup {None}]
  /\ cursor \in [Threads -> Nat]
  /\ sleepon \in [Threads -> Natives \cup {None}]
  /\ held \in [Threads -> Desc \cup {None}]

Init ==
  /\ list = << >>
  /\ mutex = NoThread
  /\ pc = [t \in Threads |-> "idle"]
  /\ call = [t \in Threads |-> None]
  /\ cursor = [t \in Threads |-> 0]
  /\ sleepon = [t \in Threads |-> None]
  /\ held = [t \in Threads |-> None]

MkDesc(r, y) == [start |-> r[1], end |-> r[2], type |-> y]

(* new_lock_rec and set_lock_desc; add_lock_rec gives it its native lock. *)
Record(d) == [start |-> d.start, end |-> d.end, type |-> d.type, native_lock |-> None]

(* The records find_first_lock meets that conflict with desc. *)
Conflictors(d) == {k \in Found(list, d, 1) : is_conflict(d.type, list[k].type)}

FreeNatives(s) == Natives \ {s[k].native_lock : k \in DOMAIN s}

(* Mutant of add_lock_rec: the record is linked, but never activated. *)
add_lock_rec_inactive(s, l) == InsertSorted(s, l)

(***************************************************************************)
(* add_lock_rec: activate_lock takes the lowest free native lock.  When    *)
(* there is none, its @.check leaves the function add_lock_rec before the  *)
(* record is linked, and the caller goes on as if it were.                 *)
(***************************************************************************)
add_lock_rec(s, l) ==
  IF FreeNatives(s) = {} THEN s
  ELSE InsertSorted(s, [l EXCEPT !.native_lock = First(FreeNatives(s))])

(* Its native lock tells the record from all others. *)
remove_lock_rec(s, l) ==
  RemoveAt(s, First({k \in DOMAIN s : s[k].native_lock = l.native_lock}))

(* lock_native $padr: the sleepers on a freed native lock go on. *)
WokenFrom(n) == {t \in Threads : pc[t] = "sleep" /\ sleepon[t] = n}
(* Mutant of Wake: the broadcast is forgotten. *)
WakeNobody(S) == UNCHANGED <<pc, sleepon>>

Wake(S) ==
  /\ pc' = [t \in Threads |-> IF t \in S THEN "lock" ELSE pc[t]]
  /\ sleepon' = [t \in Threads |-> IF t \in S THEN None ELSE sleepon[t]]

------------------------------------------------------------------------------
(***************************************************************************)
(* $lock.  A user asks for a lock when it holds none.  Calls that return   *)
(* at once (the optional part does not contain the obligatory one, or      *)
(* there is nothing to lock) change nothing and are left out.              *)
(***************************************************************************)
Enclosed(r) == r.opt[1] =< r.obl[1] /\ r.obl[2] =< r.opt[2]
NoEffect(r, y) == r.opt[1] = r.opt[2] \/ y = make_lock_type(lock_none, lock_none)

CallLock(t, r, y, a) ==
  /\ pc[t] = "idle" /\ held[t] = None
  /\ Enclosed(r)
  /\ ~NoEffect(r, y)
  /\ Len(list) < MAX_LOCK_RECORDS
  /\ call' = [call EXCEPT ![t] = [obl |-> r.obl, opt |-> r.opt, type |-> y, action |-> a]]
  /\ pc' = [pc EXCEPT ![t] = "lock"]
  /\ UNCHANGED <<list, mutex, cursor, sleepon, held>>

(* The obligatory part, and who is in its way. *)
Obligatory(t) == MkDesc(call[t].obl, call[t].type)
InTheWay(t) == Conflictors(Obligatory(t))
EmptyObligatory(t) == call[t].obl[1] = call[t].obl[2]

Locking(t) == pc[t] = "lock" /\ mutex = NoThread

LockReturn(t, granted) ==
  /\ held' = [held EXCEPT ![t] = granted]
  /\ call' = [call EXCEPT ![t] = None]
  /\ pc' = [pc EXCEPT ![t] = "idle"]

(* Refused; or an empty obligatory part inside a conflicting lock, which   *)
(* is a successful lock of zero bytes.                                     *)
LockNothing(t) ==
  /\ Locking(t)
  /\ InTheWay(t) # {}
  /\ call[t].action # "wait" \/ EmptyObligatory(t)
  /\ LockReturn(t, None)
  /\ UNCHANGED <<list, mutex, cursor, sleepon>>

(* wait_for_lock: with pthread_cond_wait, asleep before the mutex is free. *)
LockWait(t) ==
  /\ Locking(t)
  /\ InTheWay(t) # {}
  /\ call[t].action = "wait" /\ ~EmptyObligatory(t)
  /\ sleepon' = [sleepon EXCEPT ![t] = list[First(InTheWay(t))].native_lock]
  /\ pc' = [pc EXCEPT ![t] = "sleep"]
  /\ UNCHANGED <<list, mutex, call, cursor, held>>

(***************************************************************************)
(* The optional part, cut at the conflicting locks below and above the     *)
(* obligatory one.  The loop meets them in the order of the list, and each *)
(* cut leaves those further inside.                                        *)
(***************************************************************************)
CutTo(t) ==
  LET opt == MkDesc(call[t].opt, call[t].type)
      lower == {list[k].end : k \in {j \in Conflictors(opt) : list[j].end =< call[t].obl[1]}}
      upper == {list[k].start : k \in {j \in Conflictors(opt) : list[j].end > call[t].obl[1]}}
  IN  [opt EXCEPT !.start = CHOOSE a \in lower \cup {@} : \A b \in lower \cup {@} : b =< a,
                  !.end = CHOOSE a \in upper \cup {@} : \A b \in upper \cup {@} : a =< b]

LockGranted(t) ==
  /\ Locking(t)
  /\ InTheWay(t) = {}
  /\ LET d == CutTo(t)
         adds == d.end > d.start /\ call[t].action # "ask"
     IN  /\ list' = IF adds THEN add_lock_rec(list, Record(d)) ELSE list
         /\ LockReturn(t, IF adds THEN d ELSE None)
  /\ UNCHANGED <<mutex, cursor, sleepon>>

(* pthread_cond_wait may return without a broadcast; $lock searches again. *)
SpuriousWakeup(t) ==
  /\ pc[t] = "sleep"
  /\ pc' = [pc EXCEPT ![t] = "lock"]
  /\ sleepon' = [sleepon EXCEPT ![t] = None]
  /\ UNCHANGED <<list, mutex, call, cursor, held>>

lock_op(t) == LockNothing(t) \/ LockWait(t) \/ LockGranted(t)

------------------------------------------------------------------------------
(***************************************************************************)
(* $unlock of what the user holds, or of the part below or above address k. *)
(* The user gives up its right with the call.                              *)
(***************************************************************************)
CallUnlock(t, d, rest) ==
  /\ pc[t] = "idle"
  /\ call' = [call EXCEPT ![t] = [start |-> d.start, end |-> d.end,
                                  type |-> make_lock_type(lock_write, lock_write)]]
  /\ held' = [held EXCEPT ![t] = rest]
  /\ pc' = [pc EXCEPT ![t] = "unlock"]
  /\ UNCHANGED <<list, mutex, cursor, sleepon>>

UnlockSome(t) ==
  /\ held[t] # None
  /\ \/ CallUnlock(t, held[t], None)
     \/ \E k \in (held[t].start + 1) .. (held[t].end - 1) :
          LET low == [held[t] EXCEPT !.end = k]
              high == [held[t] EXCEPT !.start = k]
          IN  CallUnlock(t, low, high) \/ CallUnlock(t, high, low)

(* The next record from position i on that $unlock has to touch. *)
Candidates(d, i) == IF d.start = d.end THEN {}
                    ELSE Found(list, d, i)

UnlockBegin(t) ==
  /\ pc[t] = "unlock" /\ mutex = NoThread
  /\ mutex' = t
  /\ cursor' = [cursor EXCEPT ![t] = 1]
  /\ pc' = [pc EXCEPT ![t] = "loop"]
  /\ UNCHANGED <<list, call, sleepon, held>>

(***************************************************************************)
(* One turn: what the record has below and above desc is put back as       *)
(* records of their own, desc shrinks to what is above the record, and the *)
(* record is removed.  Its sleepers wake.                                  *)
(***************************************************************************)
WithLower(s, l, d) == IF l.start < d.start
                      THEN add_lock_rec(s, [l EXCEPT !.end = d.start])
                      ELSE s
WithUpper(s, l, d) == IF l.end > d.end
                      THEN add_lock_rec(s, [l EXCEPT !.start = d.end])
                      ELSE s

(* Mutant of UnlockTurn: desc does not shrink, so every lock goes. *)
UnlockTurnAll(t) ==
  /\ pc[t] = "loop"
  /\ Candidates(call[t], cursor[t]) # {}
  /\ LET d == call[t]
         i == First(Candidates(d, cursor[t]))
         l == list[i]
     IN  /\ \E s \in {WithUpper(WithLower(list, l, d), l, d)} : list' = remove_lock_rec(s, l)
         /\ UNCHANGED call
         /\ cursor' = [cursor EXCEPT ![t] = IF WithLower(list, l, d) = list THEN i ELSE i + 1]
         /\ Wake(WokenFrom(l.native_lock))
  /\ UNCHANGED <<mutex, held>>

UnlockTurn(t) ==
  /\ pc[t] = "loop"
  /\ Candidates(call[t], cursor[t]) # {}
  /\ LET d == call[t]
         i == First(Candidates(d, cursor[t]))
         l == list[i]
     IN  /\ \E s \in {WithUpper(WithLower(list, l, d), l, d)} : list' = remove_lock_rec(s, l)
         /\ call' = [call EXCEPT ![t].start = IF l.end > d.end THEN d.end ELSE l.end]
         /\ cursor' = [cursor EXCEPT ![t] = IF WithLower(list, l, d) = list THEN i ELSE i + 1]
         /\ Wake(WokenFrom(l.native_lock))
  /\ UNCHANGED <<mutex, held>>

UnlockEnd(t) ==
  /\ pc[t] = "loop"
  /\ Candidates(call[t], cursor[t]) = {}
  /\ mutex' = NoThread
  /\ call' = [call EXCEPT ![t] = None]
  /\ cursor' = [cursor EXCEPT ![t] = 0]
  /\ pc' = [pc EXCEPT ![t] = "idle"]
  /\ UNCHANGED <<list, sleepon, held>>

unlock_op(t) == UnlockBegin(t) \/ UnlockTurn(t) \/ UnlockEnd(t)

------------------------------------------------------------------------------
Next ==
  \E t \in Threads :
    \/ \E r \in Requests, y \in Types, a \in action_t : CallLock(t, r, y, a)
    \/ lock_op(t)
    \/ SpuriousWakeup(t)
    \/ UnlockSome(t)
    \/ unlock_op(t)

Spec == Init /\ [][Next]_vars

(* A thread inside a brick that can run, runs. *)
Fairness == \A t \in Threads : WF_vars(lock_op(t)) /\ WF_vars(unlock_op(t))

FairSpec == Spec /\ Fairness

------------------------------------------------------------------------------
(***************************************************************************)
(* The list stays sorted by start address, through every grant and every   *)
(* pair of leftovers an $unlock puts back: the search of                   *)
(* find_next_lock_from stops early because of it.                          *)
(***************************************************************************)
ListSorted == SortedByStart(list)

(***************************************************************************)
(* Mutual exclusion as the users see it: what two of them believe to hold  *)
(* does not conflict where it overlaps ("Write locks conflict with any     *)
(* locks"), although an $unlock cannot tell whose record it removes.       *)
(***************************************************************************)
HoldersExcluded ==
  \A t, u \in Threads :
    t # u /\ held[t] # None /\ held[u] # None =>
      ~(Overlapping(held[t], held[u]) /\ is_conflict(held[t].type, held[u].type))

Quiet == \A t \in Threads : pc[t] \notin {"unlock", "loop"}

Covering(a, y) == {i \in DOMAIN list : /\ list[i].start =< a /\ a < list[i].end
                                       /\ list[i].type = y}
Holding(a, y) == {t \in Threads : /\ held[t] # None
                                  /\ held[t].start =< a /\ a < held[t].end
                                  /\ held[t].type = y}
LockedAddrs == UNION {r.opt[1] .. (r.opt[2] - 1) : r \in Requests}

(***************************************************************************)
(* Locks and unlocks add up: when no $unlock is under way, each address is *)
(* covered by exactly one record for each user that holds it, of the type  *)
(* the user asked for, whatever overlapping locks were split and removed   *)
(* in whatever order.                                                      *)
(***************************************************************************)
HoldingsBacked ==
  Quiet => \A a \in LockedAddrs, y \in Types :
             Cardinality(Holding(a, y)) = Cardinality(Covering(a, y))

(***************************************************************************)
(* No lost wakeup: who sleeps in $lock sleeps on the native lock of a      *)
(* record that is in the list and conflicts with its obligatory part.      *)
(***************************************************************************)
SleepersHaveReason ==
  \A t \in Threads : pc[t] = "sleep" =>
    \E i \in InTheWay(t) : list[i].native_lock = sleepon[t]

(***************************************************************************)
(* A waiting $lock is not left behind: when the others have come to rest   *)
(* and nothing conflicts with its obligatory part, it returns.             *)
(***************************************************************************)
WaiterServed ==
  \A t \in Threads :
    <>[](\A u \in Threads \ {t} : pc[u] \in {"idle", "sleep"})
      => ~<>[](pc[t] \in {"lock", "sleep"} /\ InTheWay(t) = {})

==============================================================================
