------------------------------- MODULE LockMand ------------------------------
(***************************************************************************)
(* The brick lock_mand (lock_mand.ath): region locks owned by mandates.    *)
(* Locks of one mandate do not conflict but melt together, the stronger    *)
(* type winning; a lock has an obligatory part and an optional part around *)
(* it, and who waits for an optional lock asks its owner to give it back   *)
(* with an asynchronous $retract.                                          *)
(*                                                                         *)
(* The list is the one of LockList.  A $lock runs under the native mutex   *)
(* until it sleeps or returns.  melt_lock_into_list, called up to three    *)
(* times, and $unlock edit the list while they walk it; each turn of their *)
(* loops is a step, and their local variables, of which the mutex allows   *)
(* one set at a time, are the variable frame.  A record carries the set of *)
(* mandates that sleep on its native lock, which it has for itself (the    *)
(* 128 native locks are taken to suffice; LockMutex models that they are   *)
(* used up).                                                               *)
(*                                                                         *)
(* The users are part of the module: each has a mandate, locks as often as *)
(* it likes, unlocks any part, and answers a $retract as lock_cache does,  *)
(* by unlocking the region once nothing in it is obligatory.               *)
(***************************************************************************)
EXTENDS LockList, FiniteSets

CONSTANTS
  Mandates,
  Types,            \* the packed lock types asked for
  Requests,         \* the regions: obligatory and optional part
  UnlockRegions,    \* the regions users unlock
  Actions,          \* the actions asked for
  MAX_LOCK_RECORDS, \* bound: no $lock starts with so many records in the list
  None

ASSUME MandAssumption ==
  /\ Types \subseteq MutexTypes
  /\ Requests \subseteq [obl : Nat \X Nat, opt : Nat \X Nat]
  /\ \A r \in Requests : /\ r.opt[1] =< r.obl[1] /\ r.obl[1] =< r.obl[2]
                         /\ r.obl[2] =< r.opt[2] /\ r.opt[1] < r.opt[2]
  /\ UnlockRegions \subseteq Nat \X Nat
  /\ Actions \subseteq {"ask", "try", "wait"}
  /\ make_lock_type(lock_none, lock_none) \notin Types
  /\ MAX_LOCK_RECORDS \in Nat
  /\ None \notin Mandates

VARIABLES
  list,      \* the active lock records
  frame,     \* the local variables of the call that holds the mutex
  pc,        \* where each mandate's $lock is
  call,      \* its arguments
  held,      \* what the user believes to hold, by address
  retracts,  \* $retract calls on their way to a user
  broken     \* history: the list has been out of order

vars == <<list, frame, pc, call, held, retracts, broken>>

Addrs == UNION {r.opt[1] .. (r.opt[2] - 1) : r \in Requests}

Strength == [type : MutexTypes, oblig : BOOLEAN]
Desc == [start : Nat, end : Nat, mand : Mandates, type : MutexTypes, oblig : BOOLEAN]
LockRec == [start : Nat, end : Nat, mand : Mandates, type : MutexTypes, oblig : BOOLEAN,
            waiters : SUBSET Mandates]
Frame == [op : {"melt", "begin", "unlock"}, todo : Seq(Desc), lock : Nat, prev : Nat,
          grant : Desc]

ASSUME NoFrame == None \notin Frame

TypeOK ==
  /\ list \in Seq(LockRec)
  /\ frame \in Frame \cup {None}
  /\ pc \in [Mandates -> {"idle", "lock", "sleep", "melt"}]
  /\ call \in [Mandates -> [obl : Nat \X Nat, opt : Nat \X Nat, type : Types,
                            action : Actions] \cup {None}]
  /\ held \in [Mandates -> [Addrs -> Strength \cup {None}]]
  /\ retracts \subseteq [mand : Mandates, start : Nat, end : Nat]
  /\ broken \in BOOLEAN

Init ==
  /\ list = << >>
  /\ frame = None
  /\ pc = [m \in Mandates |-> "idle"]
  /\ call = [m \in Mandates |-> None]
  /\ held = [m \in Mandates |-> [a \in Addrs |-> None]]
  /\ retracts = {}
  /\ broken = FALSE

------------------------------------------------------------------------------
(* Comparison of lock types; the second line of is_weaker_or_equal compares *)
(* with the data type, as the source does.                                 *)
DataType(l) == l.type % 4
AddrType(l) == l.type \div 4

is_weaker_or_equal(l, d) == /\ DataType(l) =< DataType(d)
                            /\ AddrType(l) =< DataType(d)
                            /\ l.oblig => d.oblig
is_equally_strong(l, d) == l.type = d.type
is_stronger_or_equal(l, d) == /\ DataType(l) >= DataType(d)
                              /\ AddrType(l) >= AddrType(d)
                              /\ d.oblig => l.oblig

Larger(a, b) == IF a > b THEN a ELSE b
Smaller(a, b) == IF a < b THEN a ELSE b

(* Mutant of Strengthened: the types are added up. *)
StrengthenedSummed(l, d) == [l EXCEPT !.type = @ + d.type, !.oblig = @ \/ d.oblig]

(* Mutant of Strengthened: the type of the request, not the stronger one. *)
StrengthenedOverwritten(l, d) == [l EXCEPT !.type = d.type, !.oblig = @ \/ d.oblig]

(* set_strongest_lock_type *)
Strengthened(l, d) == [l EXCEPT !.type = make_lock_type(Larger(DataType(l), DataType(d)),
                                                        Larger(AddrType(l), AddrType(d))),
                                !.oblig = @ \/ d.oblig]

Conflicting(l, d) == l.mand # d.mand /\ is_conflict(d.type, l.type)
Own(l, d) == l.mand = d.mand

(* find_next_lock_from with either requirement: a position, 0 for none. *)
NextOf(S) == IF S = {} THEN 0 ELSE First(S)
find_conflict(s, d, i) == NextOf({k \in Found(s, d, i) : Conflicting(s[k], d)})

(* Mutant of find_own: the first record of the mandate is passed over. *)
find_own_behind(s, d, i) == NextOf({k \in Found(s, d, i + 1) : Own(s[k], d)})

find_own(s, d, i) == NextOf({k \in Found(s, d, i) : Own(s[k], d)})

MkDesc(r, m, y, o) == [start |-> r[1], end |-> r[2], mand |-> m, type |-> y, oblig |-> o]
Record(d) == [start |-> d.start, end |-> d.end, mand |-> d.mand, type |-> d.type,
              oblig |-> d.oblig, waiters |-> {}]

(* Mutant of Edit: nobody is woken. *)
EditSilent(s, freed, pcs) ==
  /\ list' = s
  /\ broken' = (broken \/ ~SortedByStart(s))
  /\ pc' = pcs

(* The list changes, and who slept on a record taken out of it goes on. *)
Edit(s, freed, pcs) ==
  /\ list' = s
  /\ broken' = (broken \/ ~SortedByStart(s))
  /\ pc' = [m \in Mandates |-> IF \E l \in freed : m \in l.waiters THEN "lock" ELSE pcs[m]]

------------------------------------------------------------------------------
(***************************************************************************)
(* $lock.  Calls that return before they take the mutex change nothing and *)
(* are left out.                                                           *)
(***************************************************************************)
CallLock(m, r, y, a) ==
  /\ pc[m] = "idle"
  /\ Len(list) < MAX_LOCK_RECORDS
  /\ call' = [call EXCEPT ![m] = [obl |-> r.obl, opt |-> r.opt, type |-> y, action |-> a]]
  /\ pc' = [pc EXCEPT ![m] = "lock"]
  /\ UNCHANGED <<list, frame, held, retracts, broken>>

Obligatory(m) == MkDesc(call[m].obl, m, call[m].type, TRUE)
Optional(m) == MkDesc(call[m].opt, m, call[m].type, TRUE)
EmptyObligatory(m) == call[m].obl[1] = call[m].obl[2]

Locking(m) == pc[m] = "lock" /\ frame = None
Conflictor(m) == find_conflict(list, Obligatory(m), 1)

Blocked(m) == Conflictor(m) # 0

(* What the user holds after a grant: in the region it was told, the data  *)
(* and the address lock it asked for now or before, and what was promised  *)
(* to be obligatory.                                                       *)
AsStrong(x, y) == DataType(x) >= DataType(y) /\ AddrType(x) >= AddrType(y) /\ (y.oblig => x.oblig)
Both(x, y) == CHOOSE z \in Strength :
                /\ AsStrong(z, x) /\ AsStrong(z, y)
                /\ \A w \in Strength : AsStrong(w, x) /\ AsStrong(w, y) => AsStrong(w, z)

Granted(m, d, obl) ==
  [a \in Addrs |->
     LET new == [type |-> d.type, oblig |-> obl[1] =< a /\ a < obl[2]]
     IN  IF ~(d.start =< a /\ a < d.end) THEN held[m][a]
         ELSE IF held[m][a] = None THEN new ELSE Both(held[m][a], new)]

LockReturn(m) ==
  /\ call' = [call EXCEPT ![m] = None]
  /\ pc' = [pc EXCEPT ![m] = "idle"]

(* Refused; or an obligatory part of length zero inside a conflicting lock. *)
LockNothing(m) ==
  /\ Locking(m) /\ Blocked(m)
  /\ call[m].action # "wait" \/ EmptyObligatory(m)
  /\ LockReturn(m)
  /\ UNCHANGED <<list, frame, held, retracts, broken>>

(* What of record l is in the way of desc. *)
PartInTheWay(l, d) == [mand |-> l.mand, start |-> Larger(l.start, d.start),
                       end |-> Smaller(l.end, d.end)]

(* Mutant of RetractsFor: obligatory locks are retracted, optional ones not. *)
RetractsForObligatory(l, d) == IF l.oblig THEN {PartInTheWay(l, d)} ELSE {}

(* The owner of an optional lock is asked for what is in the way. *)
RetractsFor(l, d) == IF l.oblig THEN {} ELSE {PartInTheWay(l, d)}

LockWait(m) ==
  /\ Locking(m) /\ Blocked(m)
  /\ call[m].action = "wait" /\ ~EmptyObligatory(m)
  /\ LET l == list[Conflictor(m)]
     IN  retracts' = retracts \cup RetractsFor(l, Obligatory(m))
  /\ list' = [list EXCEPT ![Conflictor(m)].waiters = @ \cup {m}]
  /\ pc' = [pc EXCEPT ![m] = "sleep"]
  /\ UNCHANGED <<frame, call, held, broken>>

SpuriousWakeup(m) ==
  /\ pc[m] = "sleep"
  /\ pc' = [pc EXCEPT ![m] = "lock"]
  /\ list' = [i \in DOMAIN list |-> [list[i] EXCEPT !.waiters = @ \ {m}]]
  /\ UNCHANGED <<frame, call, held, retracts, broken>>

(* Mutant of CutTo: the optional part is reported as asked for. *)
UncutTo(m) == Optional(m)

(***************************************************************************)
(* The optional part is cut at each conflicting lock the search meets:     *)
(* those below the obligatory part move its start up, the first one above  *)
(* sets its end and ends the search.                                       *)
(***************************************************************************)
CutTo(m) ==
  LET opt == Optional(m)
      met == {k \in Found(list, opt, 1) : Conflicting(list[k], opt)}
      above == {k \in met : list[k].end > call[m].obl[1]}
      below == {list[k].end : k \in {j \in met \ above : \A u \in above : j < u}}
  IN  [opt EXCEPT !.start = CHOOSE a \in below \cup {@} : \A b \in below \cup {@} : b =< a,
                  !.end = IF above = {} THEN @ ELSE list[First(above)].start]

(* The parts to melt in: the optional ones with the bounds asked for. *)
NonEmpty(d) == IF d.start < d.end THEN <<d>> ELSE << >>
Parts(m) == NonEmpty(MkDesc(<<call[m].opt[1], call[m].obl[1]>>, m, call[m].type, FALSE))
            \o NonEmpty(Obligatory(m))
            \o NonEmpty(MkDesc(<<call[m].obl[2], call[m].opt[2]>>, m, call[m].type, FALSE))

LockGranted(m) ==
  /\ Locking(m) /\ ~Blocked(m)
  /\ CutTo(m).end > CutTo(m).start /\ call[m].action # "ask"
  /\ frame' = [op |-> "begin", todo |-> Parts(m), lock |-> 0, prev |-> 0, grant |-> CutTo(m)]
  /\ pc' = [pc EXCEPT ![m] = "melt"]
  /\ UNCHANGED <<list, call, held, retracts, broken>>

(* Success without a lock: only asked for, or everything was cut away. *)
LockVoid(m) ==
  /\ Locking(m) /\ ~Blocked(m)
  /\ CutTo(m).end =< CutTo(m).start \/ call[m].action = "ask"
  /\ LockReturn(m)
  /\ UNCHANGED <<list, frame, held, retracts, broken>>

------------------------------------------------------------------------------
(***************************************************************************)
(* melt_lock_into_list.  desc is the first part still to do; its start     *)
(* moves up as the region gets covered.                                    *)
(***************************************************************************)
desc == Head(frame.todo)
WithStart(d, a) == [d EXCEPT !.start = a]
WithEnd(d, a) == [d EXCEPT !.end = a]

(* A record is added; position i moves up if it stands behind. *)
Moved(s, l, i) == IF PlaceOf(s, l) =< i THEN i + 1 ELSE i

(* The record at i is taken out, and r1 and r2 are put in, in this order. *)
SplitInto(s, i, r1, r2) ==
  LET s1 == InsertSorted(RemoveAt(s, i), r1)
  IN  [list |-> InsertSorted(s1, r2), at |-> Moved(s1, r2, PlaceOf(RemoveAt(s, i), r1))]

Leftover(l, a, b) == [l EXCEPT !.start = a, !.end = b, !.waiters = {}]

FrameLoop(todo, lock, prev) == frame' = [frame EXCEPT !.op = "melt", !.todo = todo,
                                                      !.lock = lock, !.prev = prev]

(***************************************************************************)
(* The first own record starts below desc: when it is weaker it is split,  *)
(* and all of it above desc's start is strengthened.                       *)
(***************************************************************************)
MeltBegin(m) ==
  LET i == find_own(list, desc, 1)
      l == list[i]
      partly == i # 0 /\ l.start < desc.start
      split == partly /\ ~is_stronger_or_equal(l, desc)
      x == IF split THEN SplitInto(list, i, Strengthened(Leftover(l, desc.start, l.end), desc),
                                   Leftover(l, l.start, desc.start))
           ELSE [list |-> list, at |-> i]
      d == IF partly THEN WithStart(desc, l.end) ELSE desc
  IN  /\ pc[m] = "melt" /\ frame.op = "begin"
      /\ FrameLoop(<<d>> \o Tail(frame.todo),
                   IF partly THEN find_own(x.list, d, x.at) ELSE i, 0)
      /\ Edit(x.list, IF split THEN {l} ELSE {}, pc)
      /\ UNCHANGED <<call, held, retracts>>

(***************************************************************************)
(* A turn of the loop: the gap below the own record is filled, by          *)
(* stretching that record where it stands, by stretching the previous one, *)
(* or with a new one; a record that reaches behind desc is split if weaker; *)
(* the rest is strengthened.                                               *)
(***************************************************************************)
(* Mutant of GapFilled: the new record covers the own record, too. *)
GapFilledUncut(i, j) ==
  LET l == list[i]
      gap == Record(desc)
  IN  IF l.start =< desc.start THEN [list |-> list, at |-> i]
      ELSE IF is_weaker_or_equal(l, desc)
      THEN [list |-> [list EXCEPT ![i].start = desc.start], at |-> i]
      ELSE IF j # 0 /\ is_equally_strong(list[j], desc)
      THEN [list |-> [list EXCEPT ![j].end = l.start], at |-> i]
      ELSE [list |-> InsertSorted(list, gap), at |-> Moved(list, gap, i)]

GapFilled(i, j) ==
  LET l == list[i]
      gap == Record(WithEnd(desc, l.start))
  IN  IF l.start =< desc.start THEN [list |-> list, at |-> i]
      ELSE IF is_weaker_or_equal(l, desc)
      THEN [list |-> [list EXCEPT ![i].start = desc.start], at |-> i]
      ELSE IF j # 0 /\ is_equally_strong(list[j], desc)
      THEN [list |-> [list EXCEPT ![j].end = l.start], at |-> i]
      ELSE [list |-> InsertSorted(list, gap), at |-> Moved(list, gap, i)]

(* The own record, of what the list x now is, is strengthened. *)
TurnEnd(x, freed) ==
  LET s == [x.list EXCEPT ![x.at] = Strengthened(@, desc)]
      d == WithStart(desc, s[x.at].end)
  IN  /\ FrameLoop(<<d>> \o Tail(frame.todo),
                   IF d.start >= d.end THEN 0 ELSE find_own(s, d, x.at), x.at)
      /\ Edit(s, freed, pc)

MeltTurn(m) ==
  LET x == GapFilled(frame.lock, frame.prev)
      l == x.list[x.at]
  IN  /\ pc[m] = "melt" /\ frame.op = "melt" /\ frame.lock # 0
      /\ IF l.end > desc.end /\ ~is_stronger_or_equal(l, desc)
         THEN TurnEnd(SplitInto(x.list, x.at, Leftover(l, l.start, desc.end),
                                Leftover(l, desc.end, l.end)), {l})
         ELSE TurnEnd(x, {})
      /\ UNCHANGED <<call, held, retracts>>

(* What is left behind the last own record becomes a new record; then the  *)
(* next part, or $lock returns.                                            *)
MeltEnd(m) ==
  LET s == IF desc.start < desc.end THEN InsertSorted(list, Record(desc)) ELSE list
  IN  /\ pc[m] = "melt" /\ frame.op = "melt" /\ frame.lock = 0
      /\ IF Len(frame.todo) > 1
         THEN /\ frame' = [frame EXCEPT !.op = "begin", !.todo = Tail(@), !.prev = 0]
              /\ Edit(s, {}, pc)
              /\ UNCHANGED <<call, held>>
         ELSE /\ frame' = None
              /\ Edit(s, {}, [pc EXCEPT ![m] = "idle"])
              /\ call' = [call EXCEPT ![m] = None]
              /\ held' = [held EXCEPT ![m] = Granted(m, frame.grant, call[m].obl)]
      /\ UNCHANGED retracts

lock_op(m) ==
  \/ LockNothing(m) \/ LockWait(m) \/ LockGranted(m) \/ LockVoid(m)
  \/ MeltBegin(m) \/ MeltTurn(m) \/ MeltEnd(m)

------------------------------------------------------------------------------
(***************************************************************************)
(* $unlock of a region, from the time it has the mutex.                    *)
(***************************************************************************)
UnlockDesc(m, r) == MkDesc(r, m, make_lock_type(lock_write, lock_write), TRUE)

UnlockBegin(m, r) ==
  /\ frame = None
  /\ LET d == UnlockDesc(m, r)
     IN  frame' = [op |-> "unlock", todo |-> <<d>>, grant |-> d, prev |-> 0,
                   lock |-> find_own(list, d, 1)]
  /\ held' = [held EXCEPT ![m] = [a \in Addrs |-> IF r[1] =< a /\ a < r[2] THEN None ELSE @[a]]]
  /\ UNCHANGED <<list, pc, call, broken>>

CallUnlock(m, r) ==
  /\ pc[m] = "idle"
  /\ \E a \in r[1] .. (r[2] - 1) : held[m][a] # None
  /\ UnlockBegin(m, r)
  /\ UNCHANGED retracts

(***************************************************************************)
(* A user answers $retract, even while its own $lock sleeps.  Which ones   *)
(* it answers is no code of this brick but an assumption about its users:  *)
(* only those for a region it holds optionally throughout.  (lock_cache,   *)
(* as such a user, waits for its clients' calls before it answers.)        *)
(***************************************************************************)
HoldsObligatory(r) == \E a \in r.start .. (r.end - 1) : /\ held[r.mand][a] # None
                                                        /\ held[r.mand][a].oblig

AnswerRetract(r) ==
  /\ r \in retracts
  /\ ~HoldsObligatory(r)
  /\ UnlockBegin(r.mand, <<r.start, r.end>>)
  /\ retracts' = retracts \ {r}

(***************************************************************************)
(* One own record: its leftovers below and above are put back, it goes.    *)
(* The record behind it was noted before.  x is the list, and where the    *)
(* two records are in it.                                                  *)
(***************************************************************************)
Adding(x, l) == [list |-> InsertSorted(x.list, l), i |-> Moved(x.list, l, x.i),
                 j |-> Moved(x.list, l, x.j)]
AddingBelow(x, l) == IF l.start < desc.start THEN Adding(x, Leftover(l, l.start, desc.start)) ELSE x
AddingAbove(x, l) == IF l.end > desc.end THEN Adding(x, Leftover(l, desc.end, l.end)) ELSE x

UnlockTurn ==
  /\ frame # None
  /\ frame.op = "unlock" /\ frame.lock # 0
  /\ LET l == list[frame.lock]
         x0 == [list |-> list, i |-> frame.lock, j |-> frame.lock + 1]
         x == AddingAbove(AddingBelow(x0, l), l)
         s == RemoveAt(x.list, x.i)
     IN  /\ Edit(s, {l}, pc)
         /\ frame' = [frame EXCEPT !.lock = IF frame.lock = Len(list) THEN 0
                                           ELSE find_own(s, desc, x.j - 1)]
  /\ UNCHANGED <<call, held, retracts>>

UnlockEnd ==
  /\ frame # None
  /\ frame.op = "unlock" /\ frame.lock = 0
  /\ frame' = None
  /\ UNCHANGED <<list, pc, call, held, retracts, broken>>

unlock_op == UnlockTurn \/ UnlockEnd

------------------------------------------------------------------------------
Next ==
  \/ \E m \in Mandates :
       \/ \E r \in Requests, y \in Types, a \in Actions : CallLock(m, r, y, a)
       \/ lock_op(m)
       \/ SpuriousWakeup(m)
       \/ \E r \in UnlockRegions : CallUnlock(m, r)
  \/ \E r \in retracts : AnswerRetract(r)
  \/ unlock_op

Spec == Init /\ [][Next]_vars

AnswersRetract(m) == \E r \in retracts : r.mand = m /\ AnswerRetract(r)

(* A call that can go on goes on; each user has a thread that answers the  *)
(* $retracts, which gets the mutex some time.                              *)
Fairness ==
  /\ \A m \in Mandates : WF_vars(lock_op(m)) /\ SF_vars(AnswersRetract(m))
  /\ WF_vars(unlock_op)

FairSpec == Spec /\ Fairness

------------------------------------------------------------------------------
Quiet(m) == ~(frame # None /\ desc.mand = m)
Covers(l, a) == l.start =< a /\ a < l.end

(***************************************************************************)
(* What a user was granted is in the list: at every address it holds,      *)
(* records of its mandate are at least as strong in the data lock, the     *)
(* address lock and the obligation, however its locks were stretched,      *)
(* split and strengthened since, whichever part it gave back, and even in  *)
(* a list out of order.                                                    *)
(***************************************************************************)
HoldingsBacked ==
  \A m \in Mandates, a \in Addrs :
    Quiet(m) /\ held[m][a] # None =>
      LET own == {i \in DOMAIN list : list[i].mand = m /\ Covers(list[i], a)}
      IN  /\ \E i \in own : DataType(list[i]) >= DataType(held[m][a])
          /\ \E i \in own : AddrType(list[i]) >= AddrType(held[m][a])
          /\ held[m][a].oblig => \E i \in own : list[i].oblig

(***************************************************************************)
(* Mutual exclusion between users: no two hold conflicting locks at one    *)
(* address ("write locks do always conflict with any other lock").         *)
(***************************************************************************)
HoldersExcluded ==
  \A m, k \in Mandates, a \in Addrs :
    m # k /\ held[m][a] # None /\ held[k][a] # None =>
      ~is_conflict(held[m][a].type, held[k][a].type)

(***************************************************************************)
(* The order of the list is all that exclusion depends on: as long as no   *)
(* record has been stretched in front of another one's start, holders are  *)
(* excluded, with the records melted in beyond the cut, or strengthened    *)
(* beyond the request, present or not.                                     *)
(***************************************************************************)
ExclusionWhileSorted == ~broken => HoldersExcluded

(***************************************************************************)
(* As long as the list was in order, the records of a mandate do not       *)
(* overlap between calls, which print_lock_list tests in debug builds.     *)
(***************************************************************************)
OwnDisjoint ==
  ~broken /\ frame = None =>
    \A i, j \in DOMAIN list :
      i # j /\ Own(list[i], list[j]) => ~Overlapping(list[i], list[j])

(***************************************************************************)
(* As long as the list was in order, an $unlock that returns has left no   *)
(* record of its mandate in the region, although it puts leftovers into    *)
(* the list it walks.                                                      *)
(***************************************************************************)
UnlockComplete ==
  ~broken /\ frame # None =>
    (frame.op = "unlock" /\ frame.lock = 0 =>
       \A i \in DOMAIN list : Own(list[i], desc) => ~Overlapping(list[i], desc))

(***************************************************************************)
(* No lost wakeup: who sleeps in $lock sleeps on the native lock of a      *)
(* record that is in the list and conflicts with its obligatory part.      *)
(***************************************************************************)
SleptOn(m) == {i \in DOMAIN list : m \in list[i].waiters}

SleepersHaveReason ==
  \A m \in Mandates : pc[m] = "sleep" =>
    \E i \in SleptOn(m) : /\ Overlapping(list[i], Obligatory(m))
                          /\ Conflicting(list[i], Obligatory(m))

(***************************************************************************)
(* Optional locks give way: when users answer $retract, nobody sleeps for  *)
(* ever on an optional lock in a part its owner does not hold obligatory   *)
(* ("Generates $retract operations on optional locks to attempt conflict   *)
(* solvation"), although one record after the other may be in the way, be  *)
(* split, or be taken again before the waiter runs.                        *)
(***************************************************************************)
OnOptional(m) ==
  pc[m] = "sleep" /\ \E i \in SleptOn(m) :
    /\ ~list[i].oblig
    /\ ~HoldsObligatory(PartInTheWay(list[i], Obligatory(m)))

OptionalGivesWay == \A m \in Mandates : ~broken /\ OnOptional(m) ~> broken \/ ~OnOptional(m)
==============================================================================
