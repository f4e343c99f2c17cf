--------------------------- MODULE LockUlinuxPool ---------------------------
(***************************************************************************)
(* The records of lock_ulinux (lock_ulinux.ath): newlock() takes one from  *)
(* emptylist, or from malloc when that is empty, and freelock() puts one   *)
(* back.  $lock calls newlock() before it takes the mutex, so that its two *)
(* accesses to emptylist can meet another thread's; everything else runs   *)
(* under the mutex and is one step.                                        *)
(*                                                                         *)
(* What the records say and which requests conflict is LockUlinux's        *)
(* business; here a call is granted, merged or refused at will.            *)
(***************************************************************************)
EXTENDS Naturals, FiniteSets

CONSTANTS
  Threads,
  Records,   \* the addresses malloc returns; bound: so many and no more
  NULL

VARIABLES
  emptylist,  \* head of the list of unused records
  anchor,     \* head of the list of granted locks
  next,       \* the next pointer of each record
  granted,    \* the records linked into the list of granted locks
  unused,     \* the records malloc has not returned yet
  pc, new     \* where each thread is in $lock, and its local variable new

vars == <<emptylist, anchor, next, granted, unused, pc, new>>

Pointer == Records \cup {NULL}

TypeOK ==
  /\ emptylist \in Pointer /\ anchor \in Pointer
  /\ next \in [Records -> Pointer]
  /\ granted \subseteq Records /\ unused \subseteq Records
  /\ pc \in [Threads -> {"idle", "pop", "add"}]
  /\ new \in [Threads -> Pointer]

Init ==
  /\ emptylist = NULL /\ anchor = NULL
  /\ next = [r \in Records |-> NULL]
  /\ granted = {} /\ unused = Records
  /\ pc = [t \in Threads |-> "idle"]
  /\ new = [t \in Threads |-> NULL]

Goto(t, where, r) == /\ pc' = [pc EXCEPT ![t] = where]
                     /\ new' = [new EXCEPT ![t] = r]

(* newlock(), not protected: new = emptylist, or malloc ... *)
NewRead(t) ==
  /\ pc[t] = "idle"
  /\ emptylist # NULL
  /\ Goto(t, "pop", emptylist)
  /\ UNCHANGED <<emptylist, anchor, next, granted, unused>>

NewMalloc(t, r) ==
  /\ pc[t] = "idle"
  /\ emptylist = NULL
  /\ r \in unused
  /\ unused' = unused \ {r}
  /\ Goto(t, "add", r)
  /\ UNCHANGED <<emptylist, anchor, next, granted>>

(* ... and emptylist = new->next. *)
NewPop(t) ==
  /\ pc[t] = "pop"
  /\ emptylist' = next[new[t]]
  /\ Goto(t, "add", new[t])
  /\ UNCHANGED <<anchor, next, granted, unused>>

freelock(r) ==
  /\ next' = [next EXCEPT ![r] = emptylist]
  /\ emptylist' = r

(* lock_add links the record in as the head of the list. *)
AddInsert(t) ==
  /\ pc[t] = "add"
  /\ next' = [next EXCEPT ![new[t]] = anchor]
  /\ anchor' = new[t]
  /\ granted' = granted \cup {new[t]}
  /\ Goto(t, "idle", NULL)
  /\ UNCHANGED <<emptylist, unused>>

(* Merged, refused or only asked: the record goes back. *)
AddFree(t) ==
  /\ pc[t] = "add"
  /\ freelock(new[t])
  /\ Goto(t, "idle", NULL)
  /\ UNCHANGED <<anchor, granted, unused>>

(* lock_sub unlinks the head of the list and frees it. *)
SubRemove ==
  /\ anchor # NULL
  /\ anchor' = next[anchor]
  /\ freelock(anchor)
  /\ granted' = granted \ {anchor}
  /\ UNCHANGED <<unused, pc, new>>

Next ==
  \/ \E t \in Threads : \/ NewRead(t) \/ NewPop(t) \/ AddInsert(t) \/ AddFree(t)
                        \/ \E r \in Records : NewMalloc(t, r)
  \/ SubRemove

Spec == Init /\ [][Next]_vars

(***************************************************************************)
(* progr.lyx: "you are responsible for implementing a brick in a           *)
(* thread-safe fashion".  The record newlock() gave to a $lock belongs to  *)
(* that call alone: no other call has it, and it is no granted lock.       *)
(***************************************************************************)
RecordsUnshared ==
  \A t \in Threads : pc[t] = "add" =>
    /\ new[t] \notin granted
    /\ \A u \in Threads \ {t} : pc[u] = "add" => new[u] # new[t]

==============================================================================
