----------------------------- MODULE LockUlinux -----------------------------
(***************************************************************************)
(* The brick lock_ulinux (lock_ulinux.ath): region locks held under        *)
(* mandates, kept in one linear list that a process-wide pthread mutex     *)
(* protects.  A $lock that meets a conflicting record waits on that        *)
(* record's condition variable and scans the list again when woken.        *)
(*                                                                         *)
(* A struct lock is a record; its next pointer is its place in the         *)
(* sequence anchor, and its condition variable is the set of the threads   *)
(* that wait on it.  The list is touched under the mutex only, so one call *)
(* of lock_add is one step; lock_sub, which edits the list while it walks  *)
(* it, takes one step per turn of its loop, with the mutex held.           *)
(*                                                                         *)
(* newlock() hands out a record nobody else has.  The code calls it before *)
(* it takes the mutex; what happens when two of those calls overlap is the *)
(* subject of LockUlinuxPool, which models the free list itself.           *)
(***************************************************************************)
EXTENDS LockTypes, SequencesExt

CONSTANTS
  Threads,        \* the threads that call the brick
  Mandates,       \* the mandates they call it under
  Types,          \* the packed lock types they ask for
  LockRegions,    \* the regions [start, end) asked for by $lock
  UnlockRegions,  \* the regions [start, end) given to $unlock
  MaxRecords,     \* bound: no call starts once the list has this many records
  NoThread,       \* the mutex is free
  NoCall          \* the thread is not inside the brick

ASSUME UlinuxAssumption ==
  /\ Types \subseteq UlinuxTypes
  /\ LockRegions \subseteq [start : Nat, end : Nat]
  /\ UnlockRegions \subseteq [start : Nat, end : Nat]
  /\ \A r \in UnlockRegions : r.start =< r.end
  /\ NoThread \notin Threads
  /\ MaxRecords \in Nat

VARIABLES
  anchor,    \* the list of granted locks
  mutex,     \* the thread inside the critical section, or NoThread
  pc,        \* where each thread is
  new,       \* the record a thread's call works with
  base,      \* lock_sub: position of the list element looked at
  success    \* @success of the last call

vars == <<anchor, mutex, pc, new, base, success>>

action_t == {"ask", "try", "wait"}

(***************************************************************************)
(* new is the struct lock of $lock, with the caller's @action, or the      *)
(* struct del of $unlock, whose type is 0 and never looked at.             *)
(***************************************************************************)
Call == [start : Nat, end : Nat, mandate : Mandates, type : UlinuxTypes,
         action : action_t]

Record == [start : Nat, end : Nat, mandate : Mandates, type : Types,
           queue : SUBSET Threads]

TypeOK ==
  /\ anchor \in Seq(Record)
  /\ mutex \in Threads \cup {NoThread}
  /\ pc \in [Threads -> {"idle", "add", "sleep", "unlock", "sub"}]
  /\ new \in [Threads -> Call \cup {NoCall}]
  /\ base \in [Threads -> Nat \ {0}]
  /\ success \in [Threads -> BOOLEAN]

Init ==
  /\ anchor = << >>
  /\ mutex = NoThread
  /\ pc = [t \in Threads |-> "idle"]
  /\ new = [t \in Threads |-> NoCall]
  /\ base = [t \in Threads |-> 1]
  /\ success = [t \in Threads |-> FALSE]

Overlaps(e, n) == e.end > n.start /\ n.end > e.start
Touches(e, n) == e.end >= n.start /\ n.end >= e.start

(* Mutant of Conflicts: the end of a record taken as inclusive. *)
ConflictsOffByOne(n) ==
  {i \in DOMAIN anchor : /\ anchor[i].mandate # n.mandate
                         /\ anchor[i].end > n.start + 1 /\ n.end > anchor[i].start
                         /\ Confl(anchor[i].type, n.type)}

(* The records lock_add reports as conflicts, and those it can merge with. *)
Conflicts(n) ==
  {i \in DOMAIN anchor : /\ anchor[i].mandate # n.mandate
                         /\ Overlaps(anchor[i], n)
                         /\ Confl(anchor[i].type, n.type)}

(* Mutant of Mergeable: a record of any mandate will do. *)
MergeableAnyMandate(n) ==
  {i \in DOMAIN anchor : anchor[i].type = n.type /\ Touches(anchor[i], n)}

Mergeable(n) ==
  {i \in DOMAIN anchor : /\ anchor[i].mandate = n.mandate
                         /\ anchor[i].type = n.type
                         /\ Touches(anchor[i], n)}

(* Mutant of Woken: the broadcast is forgotten. *)
WokenNobody(Q) == pc

(* pthread_cond_broadcast: the waiters go on to compete for the mutex. *)
Woken(Q) == [t \in Threads |-> IF t \in Q THEN "add" ELSE pc[t]]
WokenAnd(Q, u, where) == [Woken(Q) EXCEPT ![u] = where]

(***************************************************************************)
(* $lock up to the mutex: the record is filled in from the arguments.      *)
(***************************************************************************)
CallLock(t, m, y, r, a) ==
  /\ pc[t] = "idle"
  /\ r.start < r.end
  /\ Len(anchor) < MaxRecords
  /\ new' = [new EXCEPT ![t] = [start |-> r.start, end |-> r.end, mandate |-> m,
                                type |-> y, action |-> a]]
  /\ pc' = [pc EXCEPT ![t] = "add"]
  /\ success' = [success EXCEPT ![t] = FALSE]
  /\ UNCHANGED <<anchor, mutex, base>>

(* $lock with "bad lock length": nothing happens. *)
CallLockBad(t, r) ==
  /\ pc[t] = "idle"
  /\ r.end =< r.start
  /\ success' = [success EXCEPT ![t] = FALSE]
  /\ UNCHANGED <<anchor, mutex, pc, new, base>>

(* A thread that takes (or, woken, takes again) the mutex to run lock_add. *)
Adding(t) == pc[t] = "add" /\ mutex = NoThread

Return(t, ok) == /\ success' = [success EXCEPT ![t] = ok]
                 /\ new' = [new EXCEPT ![t] = NoCall]

(* A conflict, and the caller does not want to wait. *)
LockRefused(t) ==
  /\ Adding(t)
  /\ Conflicts(new[t]) # {}
  /\ new[t].action # "wait"
  /\ pc' = [pc EXCEPT ![t] = "idle"]
  /\ Return(t, FALSE)
  /\ UNCHANGED <<anchor, mutex, base>>

(* A conflict: wait on the first conflicting record of the list. *)
LockSleep(t) ==
  /\ Adding(t)
  /\ new[t].action = "wait"
  /\ \E conflict \in Conflicts(new[t]) :
       /\ \A i \in Conflicts(new[t]) : conflict =< i
       /\ anchor' = [anchor EXCEPT ![conflict].queue = @ \cup {t}]
  /\ pc' = [pc EXCEPT ![t] = "sleep"]
  /\ UNCHANGED <<mutex, new, base, success>>

(* No conflict, and the caller only asked. *)
LockAsked(t) ==
  /\ Adding(t)
  /\ Conflicts(new[t]) = {}
  /\ new[t].action = "ask"
  /\ pc' = [pc EXCEPT ![t] = "idle"]
  /\ Return(t, TRUE)
  /\ UNCHANGED <<anchor, mutex, base>>

(* Mutant of Merged: the start of the record stays. *)
MergedStartKept(e, n) ==
  [e EXCEPT !.end = IF n.end > e.end THEN n.end ELSE e.end, !.queue = {}]

Merged(e, n) ==
  [e EXCEPT !.start = IF n.start < e.start THEN n.start ELSE e.start,
            !.end = IF n.end > e.end THEN n.end ELSE e.end,
            !.queue = {}]

(* No conflict: the last mergeable record grows by the new region. *)
LockMerge(t) ==
  /\ Adding(t)
  /\ Conflicts(new[t]) = {}
  /\ new[t].action # "ask"
  /\ \E modify \in Mergeable(new[t]) :
       /\ \A i \in Mergeable(new[t]) : i =< modify
       /\ anchor' = ReplaceAt(anchor, modify, Merged(anchor[modify], new[t]))
       /\ pc' = WokenAnd(anchor[modify].queue, t, "idle")
  /\ Return(t, TRUE)
  /\ UNCHANGED <<mutex, base>>

NewRecord(n) ==
  [start |-> n.start, end |-> n.end, mandate |-> n.mandate, type |-> n.type, queue |-> {}]

(* No conflict and nothing to merge with: a new head of the list. *)
LockInsert(t) ==
  /\ Adding(t)
  /\ Conflicts(new[t]) = {}
  /\ new[t].action # "ask"
  /\ Mergeable(new[t]) = {}
  /\ anchor' = Cons(NewRecord(new[t]), anchor)
  /\ pc' = [pc EXCEPT ![t] = "idle"]
  /\ Return(t, TRUE)
  /\ UNCHANGED <<mutex, base>>

(* pthread_cond_wait may return without a broadcast; the code scans again. *)
SpuriousWakeup(t) ==
  /\ pc[t] = "sleep"
  /\ anchor' = [i \in DOMAIN anchor |-> [anchor[i] EXCEPT !.queue = @ \ {t}]]
  /\ pc' = [pc EXCEPT ![t] = "add"]
  /\ UNCHANGED <<mutex, new, base, success>>

(***************************************************************************)
(* $unlock: lock_sub under the mutex, from the head of the list.           *)
(***************************************************************************)
CallUnlock(t, m, r) ==
  /\ pc[t] = "idle"
  /\ Len(anchor) < MaxRecords
  /\ new' = [new EXCEPT ![t] = [start |-> r.start, end |-> r.end, mandate |-> m,
                                type |-> 0, action |-> "ask"]]
  /\ pc' = [pc EXCEPT ![t] = "unlock"]
  /\ success' = [success EXCEPT ![t] = FALSE]
  /\ UNCHANGED <<anchor, mutex, base>>

SubBegin(t) ==
  /\ pc[t] = "unlock"
  /\ mutex = NoThread
  /\ mutex' = t
  /\ pc' = [pc EXCEPT ![t] = "sub"]
  /\ UNCHANGED <<anchor, new, base, success>>

(* The element under the loop's cursor, and whether lock_sub must cut it. *)
InLoop(t) == pc[t] = "sub" /\ base[t] \in DOMAIN anchor
Elem(t) == anchor[base[t]]
Hit(t) == Elem(t).mandate = new[t].mandate /\ Overlaps(Elem(t), new[t])

SubSkip(t) ==
  /\ InLoop(t)
  /\ ~Hit(t)
  /\ base' = [base EXCEPT ![t] = @ + 1]
  /\ UNCHANGED <<anchor, mutex, pc, new, success>>

(* Mutant of SubSplit: the type of the upper remainder is not copied, and  *)
(* is 0 in the fresh memory newlock() returned.                            *)
SubSplitUntyped(t) ==
  /\ InLoop(t)
  /\ Hit(t)
  /\ Elem(t).start < new[t].start
  /\ Elem(t).end > new[t].end
  /\ anchor' = InsertAt(ReplaceAt(anchor, base[t],
                                  [Elem(t) EXCEPT !.end = new[t].start, !.queue = {}]),
                        base[t],
                        [Elem(t) EXCEPT !.start = new[t].end, !.type = 0, !.queue = {}])
  /\ pc' = Woken(Elem(t).queue)
  /\ base' = [base EXCEPT ![t] = @ + 1]
  /\ UNCHANGED <<mutex, new, success>>

(* The region lies strictly inside: the upper remainder gets a record of   *)
(* its own in front of the element, which keeps the lower one.             *)
SubSplit(t) ==
  /\ InLoop(t)
  /\ Hit(t)
  /\ Elem(t).start < new[t].start
  /\ Elem(t).end > new[t].end
  /\ anchor' = InsertAt(ReplaceAt(anchor, base[t],
                                  [Elem(t) EXCEPT !.end = new[t].start, !.queue = {}]),
                        base[t],
                        [Elem(t) EXCEPT !.start = new[t].end, !.queue = {}])
  /\ pc' = Woken(Elem(t).queue)
  /\ base' = [base EXCEPT ![t] = @ + 1]
  /\ UNCHANGED <<mutex, new, success>>

(* The region cuts off the upper end. *)
SubCutEnd(t) ==
  /\ InLoop(t)
  /\ Hit(t)
  /\ Elem(t).start < new[t].start
  /\ Elem(t).end =< new[t].end
  /\ anchor' = ReplaceAt(anchor, base[t],
                         [Elem(t) EXCEPT !.end = new[t].start, !.queue = {}])
  /\ pc' = Woken(Elem(t).queue)
  /\ base' = [base EXCEPT ![t] = @ + 1]
  /\ UNCHANGED <<mutex, new, success>>

(* Mutant of SubCutStart: a covered record is cut to nothing and stays. *)
SubCutStartEmpty(t) ==
  /\ InLoop(t)
  /\ Hit(t)
  /\ Elem(t).start >= new[t].start
  /\ Elem(t).end >= new[t].end
  /\ anchor' = ReplaceAt(anchor, base[t],
                         [Elem(t) EXCEPT !.start = new[t].end, !.queue = {}])
  /\ pc' = Woken(Elem(t).queue)
  /\ base' = [base EXCEPT ![t] = @ + 1]
  /\ UNCHANGED <<mutex, new, success>>

(* The region cuts off the lower end. *)
SubCutStart(t) ==
  /\ InLoop(t)
  /\ Hit(t)
  /\ Elem(t).start >= new[t].start
  /\ Elem(t).end > new[t].end
  /\ anchor' = ReplaceAt(anchor, base[t],
                         [Elem(t) EXCEPT !.start = new[t].end, !.queue = {}])
  /\ pc' = Woken(Elem(t).queue)
  /\ base' = [base EXCEPT ![t] = @ + 1]
  /\ UNCHANGED <<mutex, new, success>>

(***************************************************************************)
(* The region covers the element: it is unlinked.  *base already is the    *)
(* next element when the loop's increment steps over it.                   *)
(***************************************************************************)
SubRemove(t) ==
  /\ InLoop(t)
  /\ Hit(t)
  /\ Elem(t).start >= new[t].start
  /\ Elem(t).end =< new[t].end
  /\ anchor' = RemoveAt(anchor, base[t])
  /\ pc' = Woken(Elem(t).queue)
  /\ base' = [base EXCEPT ![t] = @ + 1]
  /\ UNCHANGED <<mutex, new, success>>

SubEnd(t) ==
  /\ pc[t] = "sub"
  /\ base[t] \notin DOMAIN anchor
  /\ mutex' = NoThread
  /\ pc' = [pc EXCEPT ![t] = "idle"]
  /\ base' = [base EXCEPT ![t] = 1]
  /\ Return(t, TRUE)
  /\ UNCHANGED anchor

lock_add(t) == LockRefused(t) \/ LockSleep(t) \/ LockAsked(t) \/ LockMerge(t) \/ LockInsert(t)

lock_sub(t) == \/ SubBegin(t) \/ SubSkip(t) \/ SubSplit(t) \/ SubCutEnd(t)
               \/ SubCutStart(t) \/ SubRemove(t) \/ SubEnd(t)

Next ==
  \E t \in Threads :
    \/ \E m \in Mandates, y \in Types, r \in LockRegions, a \in action_t :
         CallLock(t, m, y, r, a)
    \/ \E r \in LockRegions : CallLockBad(t, r)
    \/ \E m \in Mandates, r \in UnlockRegions : CallUnlock(t, m, r)
    \/ lock_add(t)
    \/ SpuriousWakeup(t)
    \/ lock_sub(t)

Spec == Init /\ [][Next]_vars

(* A thread that is neither idle nor asleep and can run, runs. *)
Fairness == \A t \in Threads : WF_vars(lock_add(t)) /\ WF_vars(lock_sub(t))

FairSpec == Spec /\ Fairness

------------------------------------------------------------------------------
(***************************************************************************)
(* Mutual exclusion: records of different mandates that overlap never      *)
(* conflict, whatever splitting, shrinking and merging the list went       *)
(* through (lock_add checks the whole list before it changes anything).    *)
(***************************************************************************)
NoConflict ==
  \A i, j \in DOMAIN anchor :
    anchor[i].mandate # anchor[j].mandate /\ Overlaps(anchor[i], anchor[j])
      => ~Confl(anchor[i].type, anchor[j].type)

(***************************************************************************)
(* No lost wakeup: a thread asleep in $lock is in the queue of a record    *)
(* that is still in the list and still conflicts with its request.  Every  *)
(* path that changes or unlinks a record must have broadcast before.       *)
(***************************************************************************)
SleepersHaveReason ==
  \A t \in Threads : pc[t] = "sleep" =>
    \E i \in Conflicts(new[t]) : t \in anchor[i].queue

(***************************************************************************)
(* lock_sub never leaves an empty or inverted record behind: such a record *)
(* conflicts with nothing and could never be removed by any $unlock.       *)
(***************************************************************************)
RecordsNonEmpty == \A i \in DOMAIN anchor : anchor[i].start < anchor[i].end

(***************************************************************************)
(* What each mandate holds, address by address, and the specification of   *)
(* the lock interface it has to follow.                                    *)
(***************************************************************************)
LockedAddrs == UNION {r.start .. (r.end - 1) : r \in LockRegions}

HeldBy(m) ==
  UNION {(anchor[i].start .. (anchor[i].end - 1)) \X {anchor[i].type} :
           i \in {k \in DOMAIN anchor : anchor[k].mandate = m}}

RL == INSTANCE RegionLock WITH Addrs <- LockedAddrs,
                               held <- [m \in Mandates |-> HeldBy(m)]

(***************************************************************************)
(* lock_ulinux implements the region locks of the nest interface: a        *)
(* mandate's holdings only grow when nothing conflicts, they grow and      *)
(* shrink one mandate at a time, and everything else the brick does to its *)
(* list (splitting, merging, waiting) is invisible.  RegionLock leaves     *)
(* open whether a $lock with another type replaces the first one, as an    *)
(* up- or downgrade (progr.lyx:1093-1110), or adds to it, as it does here. *)
(***************************************************************************)
ImplementsRegionLock == RL!Spec

Region(n) == n.start .. (n.end - 1)

(* A $lock of t that locks its region with another type than y. *)
Retyped(t, y) == /\ pc[t] = "add"
                 /\ success'[t]
                 /\ new[t].action # "ask"
                 /\ new[t].type # y

(***************************************************************************)
(* Holdings change as the callers asked: a mandate loses an address only   *)
(* inside the region of its own running $unlock, gains one only inside the *)
(* region of its own $lock, and when that $lock reports success the whole  *)
(* region is held with the type asked for, merged or not.  The property    *)
(* takes no side on what a $lock does to the other types its mandate holds *)
(* in its region: progr.lyx:1093-1110 calls that an up- or downgrade.      *)
(***************************************************************************)
HoldingsAsAsked ==
  [][/\ \A m \in Mandates :
          /\ \A h \in HeldBy(m) \ HeldBy(m)' :
               \E t \in Threads : /\ pc[t] = "sub" \/ Retyped(t, h[2])
                                  /\ new[t].mandate = m
                                  /\ h[1] \in Region(new[t])
          /\ \A h \in HeldBy(m)' \ HeldBy(m) :
               \E t \in Threads : /\ pc[t] = "add"
                                  /\ success'[t]
                                  /\ new[t].mandate = m
                                  /\ h \in Region(new[t]) \X {new[t].type}
     /\ \A t \in Threads, m \in Mandates :
          /\ pc[t] = "add"
          /\ success'[t]
          /\ new[t].mandate = m
          /\ new[t].action # "ask"
          => Region(new[t]) \X {new[t].type} \subseteq HeldBy(m)'
    ]_vars

(***************************************************************************)
(* progr.lyx on $unlock: "Ensure that the specified areas are no longer    *)
(* locked under the specified mandate"; lock_sub: "we should remove all    *)
(* conflicting parts".  When the loop has ended, nothing of the region is  *)
(* left locked under the mandate.                                          *)
(***************************************************************************)
UnlockComplete ==
  \A t \in Threads : pc[t] = "sub" /\ base[t] \notin DOMAIN anchor =>
    \A i \in DOMAIN anchor :
      ~(anchor[i].mandate = new[t].mandate /\ Overlaps(anchor[i], new[t]))

(***************************************************************************)
(* A waiting $lock returns once nothing stands in its way any more: it is  *)
(* not the case that the others have left the brick (or sleep) for good,   *)
(* and the request waits for ever although no record conflicts with it.    *)
(***************************************************************************)
WaiterServed ==
  \A t \in Threads :
    <>[](\A u \in Threads \ {t} : pc[u] \in {"idle", "sleep"})
      => ~<>[](pc[t] \in {"add", "sleep"} /\ Conflicts(new[t]) = {})

==============================================================================
