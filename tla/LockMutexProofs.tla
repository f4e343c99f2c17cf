--------------------------- MODULE LockMutexProofs ---------------------------
(***************************************************************************)
(* Proofs about LockMutex, for every set of threads, requests and types    *)
(* and every number of native locks, used up or not: the list stays in     *)
(* order, every record has a native lock of its own, and nobody sleeps on  *)
(* a native lock that no conflicting record in the list owns.              *)
(*                                                                         *)
(* The inductive invariant adds to the type invariant what a call's        *)
(* arguments are at each point of the program (CallsOK), that no two       *)
(* records share a native lock (NativesApart), and, for the sleepers, the  *)
(* record itself (SleepersOK): the search of the list, by which            *)
(* SleepersHaveReason names the record, then follows from the order.       *)
(*                                                                         *)
(* For exclusion a second invariant, EInv, counts: on each address lie as  *)
(* many records as there are threads that hold it or are giving it back.   *)
(* This is what keeps $unlock, which takes out any record, from taking one *)
(* too many.  It needs two hypotheses, Plain and NativesSuffice.           *)
(***************************************************************************)
EXTENDS LockMutex, LockListLemmas, FunctionTheorems, FiniteSetTheorems

(* What each call works on, and where a running $unlock looks. *)
CallsOK ==
  \A t \in Threads :
    /\ pc[t] \in {"lock", "sleep"} => call[t] \in Call
    /\ pc[t] \in {"unlock", "loop"} => call[t] \in Desc
    /\ pc[t] = "loop" => cursor[t] >= 1

(* Every record has a native lock of its own. *)
Apart(s) == \A i, j \in DOMAIN s : i # j => s[i].native_lock # s[j].native_lock
NativesApart == Apart(list)

(* Record l keeps a request c waiting on native lock n. *)
Keeps(l, c, n) == /\ l.native_lock = n
                  /\ Overlapping(l, MkDesc(c.obl, c.type))
                  /\ is_conflict(c.type, l.type)

SleepersOK ==
  \A t \in Threads : pc[t] = "sleep" =>
    \E i \in DOMAIN list : Keeps(list[i], call[t], sleepon[t])

IInv ==
  /\ TypeOK
  /\ CallsOK
  /\ NativesApart
  /\ ListSorted
  /\ SleepersOK

------------------------------------------------------------------------------
(* What a record and a request are made of. *)
LEMMA RecordFields ==
  ASSUME NEW l \in LockRec
  PROVE  l.start \in Nat /\ l.end \in Nat /\ l.type \in MutexTypes /\ l.native_lock \in Natives
BY DEF LockRec

LEMMA CallFields ==
  ASSUME NEW c \in Call
  PROVE  /\ c.obl[1] \in Nat /\ c.obl[2] \in Nat /\ c.opt[1] \in Nat /\ c.opt[2] \in Nat
         /\ c.type \in MutexTypes
BY MutexAssumption DEF Call

LEMMA MkDescType ==
  ASSUME NEW r, r[1] \in Nat, r[2] \in Nat, NEW y \in MutexTypes
  PROVE  /\ MkDesc(r, y) \in Desc
         /\ MkDesc(r, y).start = r[1] /\ MkDesc(r, y).end = r[2] /\ MkDesc(r, y).type = y
BY DEF MkDesc, Desc

LEMMA RecordStarts == Starts(LockRec)
BY RecordFields DEF Starts

LEMMA NativesNat == Natives \subseteq Nat
BY MutexAssumption DEF Natives

------------------------------------------------------------------------------
(* A list such as the brick keeps. *)
GoodList(s) == s \in Seq(LockRec) /\ SortedByStart(s) /\ Apart(s)

(***************************************************************************)
(* add_lock_rec keeps the list in order and the native locks apart; every  *)
(* record that was in the list stays.                                      *)
(***************************************************************************)
LEMMA AddKeepsList ==
  ASSUME NEW s, GoodList(s), NEW l,
         \A n \in Natives : [l EXCEPT !.native_lock = n] \in LockRec
                            /\ [l EXCEPT !.native_lock = n].native_lock = n
  PROVE  /\ GoodList(add_lock_rec(s, l))
         /\ AllKept(s, add_lock_rec(s, l))
<1>1. CASE FreeNatives(s) = {}
  <2>1. add_lock_rec(s, l) = s
    BY <1>1 DEF add_lock_rec
  <2>2. AllKept(s, s)
    BY Zenon DEF AllKept
  <2>3. QED
    BY <2>1, <2>2, Zenon
<1>2. CASE FreeNatives(s) # {}
  <2>1. FreeNatives(s) \subseteq Nat
    BY NativesNat DEF FreeNatives
  <2>2. First(FreeNatives(s)) \in FreeNatives(s)
    BY <1>2, <2>1, FirstIsLeast
  <2>3. PICK n \in Natives : /\ n = First(FreeNatives(s))
                             /\ \A k \in DOMAIN s : s[k].native_lock # n
    BY <2>2 DEF FreeNatives
  <2>4. PICK x \in LockRec : x = [l EXCEPT !.native_lock = n] /\ x.native_lock = n
    OBVIOUS
  <2>5. add_lock_rec(s, l) = InsertSorted(s, x)
    BY <1>2, <2>3, <2>4, Zenon DEF add_lock_rec
  <2>6. PICK r : r = InsertSorted(s, x)
    OBVIOUS
  <2>7. s \in Seq(LockRec) /\ SortedByStart(s) /\ Apart(s)
    BY DEF GoodList
  <2>8. SortedByStart(r)
    BY <2>6, <2>7, RecordStarts, InsertKeepsOrder, Zenon
  <2>9. r \in Seq(LockRec) /\ AllKept(s, r) /\ OnlyAdded(s, r, x)
    BY <2>6, <2>7, InsertKeepsRecords, Zenon
  <2>10. PICK p \in DOMAIN r :
             /\ r[p] = x
             /\ \A m \in DOMAIN r \ {p} : \E k \in DOMAIN s : r[m] = s[k]
             /\ FromApart(s, r, DOMAIN r \ {p})
    BY <2>9, Zenon DEF OnlyAdded
  <2>11. Apart(r)
    <3>1. SUFFICES ASSUME NEW i \in DOMAIN r, NEW j \in DOMAIN r, i # j
                   PROVE  r[i].native_lock # r[j].native_lock
      BY DEF Apart
    <3>2. CASE i = p
      <4>1. PICK k \in DOMAIN s : r[j] = s[k]
        BY <2>10, <3>1, <3>2, Zenon
      <4>2. QED
        BY <2>3, <2>4, <2>10, <3>2, <4>1, ZenonT(30)
    <3>3. CASE j = p
      <4>1. PICK k \in DOMAIN s : r[i] = s[k]
        BY <2>10, <3>1, <3>3, Zenon
      <4>2. QED
        BY <2>3, <2>4, <2>10, <3>3, <4>1, ZenonT(30)
    <3>4. CASE i # p /\ j # p
      <4>1. i \in DOMAIN r \ {p} /\ j \in DOMAIN r \ {p}
        BY <3>4
      <4>2. \A m, n1 \in DOMAIN r \ {p} : m # n1 =>
              \E k, h \in DOMAIN s : k # h /\ r[m] = s[k] /\ r[n1] = s[h]
        BY <2>10, Zenon DEF FromApart
      <4>3. \E k, h \in DOMAIN s : k # h /\ r[i] = s[k] /\ r[j] = s[h]
        BY <3>1, <4>1, <4>2
      <4>4. PICK k, h \in DOMAIN s : k # h /\ r[i] = s[k] /\ r[j] = s[h]
        BY <4>3, Zenon
      <4>5. s[k].native_lock # s[h].native_lock
        BY <2>7, <4>4 DEF Apart
      <4>6. QED
        BY <4>4, <4>5, Zenon
    <3>5. QED
      BY <3>2, <3>3, <3>4
  <2>12. GoodList(r)
    BY <2>8, <2>9, <2>11, Zenon DEF GoodList
  <2>13. add_lock_rec(s, l) = r
    BY <2>5, <2>6, Zenon
  <2>14. QED
    BY <2>9, <2>12, <2>13, Zenon
<1>3. QED
  BY <1>1, <1>2

(* Every record of s with another native lock than n is in r. *)
OthersKept(s, r, n) == \A k \in DOMAIN s : s[k].native_lock # n => \E m \in DOMAIN r : r[m] = s[k]

(***************************************************************************)
(* remove_lock_rec takes out a record of the list and keeps all others,    *)
(* the order and the native locks apart.                                   *)
(***************************************************************************)
LEMMA RemoveKeepsList ==
  ASSUME NEW s, GoodList(s), NEW i \in DOMAIN s, NEW l, l.native_lock = s[i].native_lock
  PROVE  /\ GoodList(remove_lock_rec(s, l))
         /\ OthersKept(s, remove_lock_rec(s, l), l.native_lock)
<1> DEFINE P == {k \in DOMAIN s : s[k].native_lock = l.native_lock}
<1>1. s \in Seq(LockRec) /\ SortedByStart(s) /\ Apart(s)
  BY DEF GoodList
<1>2. DOMAIN s = 1 .. Len(s)
  BY <1>1
<1>3. P \subseteq Nat /\ P # {}
  BY <1>2
<1>4. First(P) \in P
  <2> HIDE DEF P
  <2>1. QED
    BY <1>3, FirstIsLeast
<1>5. PICK p \in 1 .. Len(s) : p = First(P) /\ s[p].native_lock = l.native_lock
  BY <1>2, <1>4
<1>6. remove_lock_rec(s, l) = RemoveAt(s, p)
  BY <1>5, Zenon DEF remove_lock_rec
<1>7. PICK r : r = RemoveAt(s, p)
  OBVIOUS
<1>8. SortedByStart(r)
  BY <1>1, <1>7, RemoveKeepsOrder, Zenon
<1>9. r \in Seq(LockRec) /\ OnlyRemoved(s, r, p)
  BY <1>1, <1>7, RemoveKeepsRecords, Zenon
<1>10. Apart(r)
  <2>1. SUFFICES ASSUME NEW m \in DOMAIN r, NEW n \in DOMAIN r, m # n
                 PROVE  r[m].native_lock # r[n].native_lock
    BY DEF Apart
  <2>2. PICK k, h \in DOMAIN s : k # h /\ r[m] = s[k] /\ r[n] = s[h]
    BY <1>9, <2>1, Zenon DEF OnlyRemoved, FromApart
  <2>3. s[k].native_lock # s[h].native_lock
    BY <1>1, <2>2 DEF Apart
  <2>4. QED
    BY <2>2, <2>3, Zenon
<1>11. OthersKept(s, r, l.native_lock)
  BY <1>5, <1>9, Zenon DEF OnlyRemoved, OthersKept
<1>12. GoodList(r)
  BY <1>8, <1>9, <1>10, Zenon DEF GoodList
<1>13. QED
  BY <1>6, <1>7, <1>11, <1>12, Zenon

------------------------------------------------------------------------------
(***************************************************************************)
(* The region that is granted is a region inside the optional part, and    *)
(* no conflicting record that the search meets reaches into it.            *)
(***************************************************************************)
LEMMA CutToIs ==
  ASSUME TypeOK, NEW t \in Threads, call[t] \in Call
  PROVE  /\ CutTo(t) \in Desc /\ CutTo(t).type = call[t].type
         /\ CutTo(t).start >= call[t].opt[1] /\ CutTo(t).end =< call[t].opt[2]
         /\ \A j \in Conflictors(MkDesc(call[t].opt, call[t].type)) :
              IF list[j].end =< call[t].obl[1] THEN list[j].end =< CutTo(t).start
                                               ELSE CutTo(t).end =< list[j].start
<1> DEFINE opt == MkDesc(call[t].opt, call[t].type)
           lower == {list[k].end : k \in {j \in Conflictors(opt) : list[j].end =< call[t].obl[1]}}
           upper == {list[k].start : k \in {j \in Conflictors(opt) : list[j].end > call[t].obl[1]}}
           L == lower \cup {opt.start}
           U == upper \cup {opt.end}
           a == CHOOSE x \in L : \A b \in L : b =< x
           e == CHOOSE x \in U : \A b \in U : x =< b
<1>1. /\ call[t].obl[1] \in Nat /\ call[t].opt[1] \in Nat /\ call[t].opt[2] \in Nat
      /\ call[t].type \in MutexTypes
  BY CallFields
<1>2. /\ opt \in Desc /\ opt.start = call[t].opt[1] /\ opt.end = call[t].opt[2]
      /\ opt.type = call[t].type
  BY <1>1, MkDescType
<1>3. list \in Seq(LockRec) /\ DOMAIN list = 1 .. Len(list) /\ Len(list) \in Nat
  BY DEF TypeOK
<1>4. \A k \in DOMAIN list : list[k].start \in Nat /\ list[k].end \in Nat
  BY <1>3, RecordFields
<1>5. Conflictors(opt) \subseteq DOMAIN list
  BY <1>3, FoundInList DEF Conflictors
<1> HIDE DEF opt
<1>16. \A j \in Conflictors(opt) : IF list[j].end =< call[t].obl[1]
                                    THEN list[j].end \in L ELSE list[j].start \in U
  <2>1. \A j \in Conflictors(opt) : list[j].end \in Nat /\ list[j].start \in Nat
    BY <1>4, <1>5
  <2>2. ASSUME NEW j \in Conflictors(opt), list[j].end =< call[t].obl[1]
        PROVE  list[j].end \in L
    BY <2>2, Zenon
  <2>3. ASSUME NEW j \in Conflictors(opt), ~(list[j].end =< call[t].obl[1])
        PROVE  list[j].start \in U
    <3>1. list[j].end > call[t].obl[1]
      BY <1>1, <2>1, <2>3
    <3>2. QED
      BY <3>1, Zenon
  <2>4. QED
    BY <2>2, <2>3, Zenon
<1>6. /\ lower \subseteq Nat /\ \A x \in lower : x =< call[t].obl[1]
      /\ upper \subseteq Nat
  BY <1>4, <1>5
<1> HIDE DEF lower, upper
<1>7. L \subseteq Nat /\ L # {} /\ U \subseteq Nat /\ U # {}
  BY <1>1, <1>2, <1>6
<1>8. \A x \in L : x =< call[t].obl[1] + call[t].opt[1]
  BY <1>1, <1>2, <1>6
<1>9. call[t].obl[1] + call[t].opt[1] \in Nat
  BY <1>1
<1> HIDE DEF L, U
<1>10. \E x \in L : \A b \in L : b =< x
  BY <1>7, <1>8, <1>9, GreatestExists
<1>11. a \in Nat /\ \A b \in L : b =< a
  BY <1>7, <1>10
<1>12. \E x \in U : \A b \in U : x =< b
  BY <1>7, FirstIsLeast
<1>13. e \in Nat /\ \A b \in U : e =< b
  BY <1>7, <1>12
<1>14. CutTo(t) = [opt EXCEPT !.start = a, !.end = e]
  BY Zenon DEF CutTo, opt, lower, upper, L, U
<1> HIDE DEF a, e
<1>15. CutTo(t) \in Desc /\ CutTo(t).type = call[t].type /\ CutTo(t).start = a /\ CutTo(t).end = e
  BY <1>2, <1>11, <1>13, <1>14 DEF Desc
<1>17. opt.start \in L /\ opt.end \in U
  BY DEF L, U
<1>18. a >= call[t].opt[1] /\ e =< call[t].opt[2]
  BY <1>1, <1>2, <1>11, <1>13, <1>17
<1>19. QED
  BY <1>11, <1>13, <1>15, <1>16, <1>18 DEF opt

------------------------------------------------------------------------------
(***************************************************************************)
(* Sleepers stay justified when pc, call and sleepon of the sleepers are   *)
(* as before and the records they wait for are still in the list.          *)
(***************************************************************************)
LEMMA StillAsleep ==
  ASSUME SleepersOK,
         \A t \in Threads : pc'[t] = "sleep" =>
           /\ pc[t] = "sleep" /\ call'[t] = call[t] /\ sleepon'[t] = sleepon[t]
           /\ \A k \in DOMAIN list : list[k].native_lock = sleepon[t] =>
                \E m \in DOMAIN list' : list'[m] = list[k]
  PROVE  SleepersOK'
<1>1. SUFFICES ASSUME NEW t \in Threads, pc'[t] = "sleep"
               PROVE  \E i \in DOMAIN list' : Keeps(list'[i], call'[t], sleepon'[t])
  BY Zenon DEF SleepersOK
<1>2. pc[t] = "sleep" /\ call'[t] = call[t] /\ sleepon'[t] = sleepon[t]
  BY <1>1, Zenon
<1>3. PICK k \in DOMAIN list : Keeps(list[k], call[t], sleepon[t])
  BY <1>2, Zenon DEF SleepersOK
<1>4. list[k].native_lock = sleepon[t]
  BY <1>3, Zenon DEF Keeps
<1>5. PICK m \in DOMAIN list' : list'[m] = list[k]
  BY <1>1, <1>4, Zenon
<1>6. QED
  BY <1>2, <1>3, <1>5, Zenon

LEMMA ListGood ==
  ASSUME IInv
  PROVE  GoodList(list)
BY DEF IInv, TypeOK, NativesApart, ListSorted, GoodList

(* What is found in the way is a record of the list that keeps t waiting. *)
LEMMA InTheWayKeeps ==
  ASSUME TypeOK, NEW t \in Threads, call[t] \in Call
  PROVE  /\ InTheWay(t) \subseteq DOMAIN list /\ DOMAIN list \subseteq Nat
         /\ \A i \in InTheWay(t) : Keeps(list[i], call[t], list[i].native_lock)
<1>1. list \in Seq(LockRec) /\ DOMAIN list = 1 .. Len(list) /\ Len(list) \in Nat
  BY DEF TypeOK
<1>2. call[t].type \in MutexTypes /\ call[t].obl[1] \in Nat /\ call[t].obl[2] \in Nat
  BY CallFields
<1>3. PICK d : d = MkDesc(call[t].obl, call[t].type)
  OBVIOUS
<1>4. d.type = call[t].type
  BY <1>2, <1>3, MkDescType
<1>5. Found(list, d, 1) \subseteq DOMAIN list /\ \A k \in Found(list, d, 1) : Overlapping(list[k], d)
  BY <1>1, FoundInList
<1>6. InTheWay(t) = {k \in Found(list, d, 1) : is_conflict(d.type, list[k].type)}
  BY <1>3, Zenon DEF InTheWay, Obligatory, Conflictors
<1>7. QED
  BY <1>1, <1>3, <1>4, <1>5, <1>6 DEF Keeps

------------------------------------------------------------------------------
LEMMA InitIInv == Init => IInv
<1> SUFFICES ASSUME Init PROVE IInv
  OBVIOUS
<1> USE DEF Init
<1>1. TypeOK
  BY DEF TypeOK
<1>2. CallsOK
  BY DEF CallsOK
<1>3. NativesApart /\ ListSorted
  BY DEF NativesApart, Apart, ListSorted, SortedByStart
<1>4. SleepersOK
  BY DEF SleepersOK
<1>5. QED
  BY <1>1, <1>2, <1>3, <1>4 DEF IInv

LEMMA CallLockStep ==
  ASSUME IInv, NEW t \in Threads, NEW r \in Requests, NEW y \in Types, NEW a \in action_t,
         CallLock(t, r, y, a)
  PROVE  IInv'
<1> USE DEF IInv, CallLock
<1>1. [obl |-> r.obl, opt |-> r.opt, type |-> y, action |-> a] \in Call
  BY MutexAssumption DEF Call
<1>2. TypeOK'
  BY <1>1 DEF TypeOK
<1>3. CallsOK'
  BY <1>1 DEF CallsOK, TypeOK
<1>4. NativesApart' /\ ListSorted'
  BY DEF NativesApart, ListSorted
<1>5. SleepersOK'
  <2>1. \A u \in Threads : pc'[u] = "sleep" =>
          pc[u] = "sleep" /\ call'[u] = call[u] /\ sleepon'[u] = sleepon[u]
    BY DEF TypeOK
  <2>2. QED
    BY <2>1, StillAsleep, Zenon
<1>6. QED
  BY <1>2, <1>3, <1>4, <1>5

LEMMA LockNothingStep ==
  ASSUME IInv, NEW t \in Threads, LockNothing(t)
  PROVE  IInv'
<1> USE DEF IInv, LockNothing, LockReturn
<1>1. TypeOK'
  BY DEF TypeOK
<1>2. CallsOK'
  BY DEF CallsOK, TypeOK
<1>3. NativesApart' /\ ListSorted'
  BY DEF NativesApart, ListSorted
<1>4. SleepersOK'
  <2>1. \A u \in Threads : pc'[u] = "sleep" =>
          pc[u] = "sleep" /\ call'[u] = call[u] /\ sleepon'[u] = sleepon[u]
    BY DEF TypeOK
  <2>2. QED
    BY <2>1, StillAsleep, Zenon
<1>5. QED
  BY <1>1, <1>2, <1>3, <1>4

LEMMA LockWaitStep ==
  ASSUME IInv, NEW t \in Threads, LockWait(t)
  PROVE  IInv'
<1> USE DEF IInv
<1>1. call[t] \in Call
  BY DEF LockWait, Locking, CallsOK
<1>2. /\ InTheWay(t) \subseteq DOMAIN list /\ DOMAIN list \subseteq Nat
      /\ \A i \in InTheWay(t) : Keeps(list[i], call[t], list[i].native_lock)
  BY <1>1, InTheWayKeeps
<1>3. PICK i \in InTheWay(t) : i = First(InTheWay(t))
  BY <1>2, FirstIsLeast DEF LockWait
<1>4. list[i].native_lock \in Natives
  BY <1>2, <1>3, RecordFields DEF TypeOK
<1>5. /\ sleepon' = [sleepon EXCEPT ![t] = list[i].native_lock]
      /\ pc' = [pc EXCEPT ![t] = "sleep"]
      /\ list' = list /\ mutex' = mutex /\ call' = call /\ cursor' = cursor /\ held' = held
  BY <1>3 DEF LockWait
<1>6. TypeOK'
  BY <1>4, <1>5 DEF TypeOK
<1>7. CallsOK'
  BY <1>1, <1>5 DEF CallsOK, TypeOK
<1>8. NativesApart' /\ ListSorted'
  BY <1>5 DEF NativesApart, ListSorted
<1>9. SleepersOK'
  <2>1. SUFFICES ASSUME NEW u \in Threads, pc'[u] = "sleep"
                 PROVE  \E k \in DOMAIN list : Keeps(list[k], call[u], sleepon'[u])
    BY <1>5, Zenon DEF SleepersOK
  <2>2. CASE u = t
    <3>1. sleepon'[u] = list[i].native_lock
      BY <1>5, <2>2 DEF TypeOK
    <3>2. QED
      BY <1>2, <1>3, <2>2, <3>1
  <2>3. CASE u # t
    <3>1. pc[u] = "sleep" /\ sleepon'[u] = sleepon[u]
      BY <1>5, <2>1, <2>3 DEF TypeOK
    <3>2. QED
      BY <3>1 DEF SleepersOK
  <2>4. QED
    BY <2>2, <2>3
<1>10. QED
  BY <1>6, <1>7, <1>8, <1>9

(* A record made from a region needs only a native lock. *)
LEMMA RecordReady ==
  ASSUME NEW d \in Desc
  PROVE  \A n \in Natives : /\ [Record(d) EXCEPT !.native_lock = n] \in LockRec
                            /\ [Record(d) EXCEPT !.native_lock = n].native_lock = n
BY DEF Record, Desc, LockRec

LEMMA LockGrantedStep ==
  ASSUME IInv, NEW t \in Threads, LockGranted(t)
  PROVE  IInv'
<1> USE DEF IInv
<1>1. call[t] \in Call
  BY DEF LockGranted, Locking, CallsOK
<1>2. PICK d \in Desc : d = CutTo(t)
  BY <1>1, CutToIs
<1>3. PICK g \in Desc \cup {None} :
        /\ list' = list \/ list' = add_lock_rec(list, Record(d))
        /\ held' = [held EXCEPT ![t] = g]
        /\ call' = [call EXCEPT ![t] = None]
        /\ pc' = [pc EXCEPT ![t] = "idle"]
        /\ mutex' = mutex /\ cursor' = cursor /\ sleepon' = sleepon
  BY <1>2 DEF LockGranted, LockReturn
<1>4. GoodList(list') /\ AllKept(list, list')
  <2>1. GoodList(list)
    BY ListGood
  <2>2. CASE list' = list
    <3>1. AllKept(list, list)
      BY Zenon DEF AllKept
    <3>2. QED
      BY <2>1, <2>2, <3>1, Zenon
  <2>3. CASE list' = add_lock_rec(list, Record(d))
    BY <2>1, <2>3, RecordReady, AddKeepsList, Zenon
  <2>4. QED
    BY <1>3, <2>2, <2>3
<1>5. TypeOK'
  BY <1>3, <1>4 DEF TypeOK, GoodList
<1>6. CallsOK'
  BY <1>3 DEF CallsOK, TypeOK
<1>7. NativesApart' /\ ListSorted'
  BY <1>4 DEF NativesApart, ListSorted, GoodList
<1>8. SleepersOK'
  <2>1. \A u \in Threads : pc'[u] = "sleep" =>
          pc[u] = "sleep" /\ call'[u] = call[u] /\ sleepon'[u] = sleepon[u]
    BY <1>3 DEF TypeOK
  <2>2. QED
    BY <2>1, <1>4, StillAsleep, Zenon DEF AllKept
<1>9. QED
  BY <1>5, <1>6, <1>7, <1>8

LEMMA SpuriousWakeupStep ==
  ASSUME IInv, NEW t \in Threads, SpuriousWakeup(t)
  PROVE  IInv'
<1> USE DEF IInv, SpuriousWakeup
<1>1. TypeOK'
  BY DEF TypeOK
<1>2. CallsOK'
  BY DEF CallsOK, TypeOK
<1>3. NativesApart' /\ ListSorted'
  BY DEF NativesApart, ListSorted
<1>4. SleepersOK'
  <2>1. \A u \in Threads : pc'[u] = "sleep" =>
          pc[u] = "sleep" /\ call'[u] = call[u] /\ sleepon'[u] = sleepon[u]
    BY DEF TypeOK
  <2>2. QED
    BY <2>1, StillAsleep, Zenon
<1>5. QED
  BY <1>1, <1>2, <1>3, <1>4

LEMMA CallUnlockStep ==
  ASSUME IInv, NEW t \in Threads, NEW d \in Desc, NEW rest \in Desc \cup {None},
         CallUnlock(t, d, rest)
  PROVE  IInv'
<1> USE DEF IInv, CallUnlock
<1>1. [start |-> d.start, end |-> d.end, type |-> make_lock_type(lock_write, lock_write)] \in Desc
  BY DEF Desc, MutexTypes, lock_t
<1>2. TypeOK'
  BY <1>1 DEF TypeOK
<1>3. CallsOK'
  BY <1>1 DEF CallsOK, TypeOK
<1>4. NativesApart' /\ ListSorted'
  BY DEF NativesApart, ListSorted
<1>5. SleepersOK'
  <2>1. \A u \in Threads : pc'[u] = "sleep" =>
          pc[u] = "sleep" /\ call'[u] = call[u] /\ sleepon'[u] = sleepon[u]
    BY DEF TypeOK
  <2>2. QED
    BY <2>1, StillAsleep, Zenon
<1>6. QED
  BY <1>2, <1>3, <1>4, <1>5

LEMMA UnlockSomeStep ==
  ASSUME IInv, NEW t \in Threads, UnlockSome(t)
  PROVE  IInv'
<1>1. held[t] \in Desc
  BY DEF UnlockSome, IInv, TypeOK
<1>2. CASE CallUnlock(t, held[t], None)
  BY <1>1, <1>2, CallUnlockStep
<1>3. CASE \E k \in (held[t].start + 1) .. (held[t].end - 1) :
             \/ CallUnlock(t, [held[t] EXCEPT !.end = k], [held[t] EXCEPT !.start = k])
             \/ CallUnlock(t, [held[t] EXCEPT !.start = k], [held[t] EXCEPT !.end = k])
  <2>1. PICK k \in (held[t].start + 1) .. (held[t].end - 1) :
             \/ CallUnlock(t, [held[t] EXCEPT !.end = k], [held[t] EXCEPT !.start = k])
             \/ CallUnlock(t, [held[t] EXCEPT !.start = k], [held[t] EXCEPT !.end = k])
    BY <1>3
  <2>2. k \in Nat
    BY <1>1 DEF Desc
  <2>3. [held[t] EXCEPT !.end = k] \in Desc /\ [held[t] EXCEPT !.start = k] \in Desc
    BY <1>1, <2>2 DEF Desc
  <2>4. QED
    BY <2>1, <2>3, CallUnlockStep
<1>4. QED
  BY <1>2, <1>3 DEF UnlockSome

LEMMA UnlockBeginStep ==
  ASSUME IInv, NEW t \in Threads, UnlockBegin(t)
  PROVE  IInv'
<1> USE DEF IInv, UnlockBegin
<1>1. TypeOK'
  BY DEF TypeOK
<1>2. CallsOK'
  BY DEF CallsOK, TypeOK
<1>3. NativesApart' /\ ListSorted'
  BY DEF NativesApart, ListSorted
<1>4. SleepersOK'
  <2>1. \A u \in Threads : pc'[u] = "sleep" =>
          pc[u] = "sleep" /\ call'[u] = call[u] /\ sleepon'[u] = sleepon[u]
    BY DEF TypeOK
  <2>2. QED
    BY <2>1, StillAsleep, Zenon
<1>5. QED
  BY <1>1, <1>2, <1>3, <1>4

LEMMA UnlockEndStep ==
  ASSUME IInv, NEW t \in Threads, UnlockEnd(t)
  PROVE  IInv'
<1> USE DEF IInv, UnlockEnd
<1>1. TypeOK'
  BY DEF TypeOK
<1>2. CallsOK'
  BY DEF CallsOK, TypeOK
<1>3. NativesApart' /\ ListSorted'
  BY DEF NativesApart, ListSorted
<1>4. SleepersOK'
  <2>1. \A u \in Threads : pc'[u] = "sleep" =>
          pc[u] = "sleep" /\ call'[u] = call[u] /\ sleepon'[u] = sleepon[u]
    BY DEF TypeOK
  <2>2. QED
    BY <2>1, StillAsleep, Zenon
<1>5. QED
  BY <1>1, <1>2, <1>3, <1>4

(* What is left of a record needs only another native lock. *)
LEMMA LeftoverReady ==
  ASSUME NEW x \in LockRec
  PROVE  \A n \in Natives : /\ [x EXCEPT !.native_lock = n] \in LockRec
                            /\ [x EXCEPT !.native_lock = n].native_lock = n
BY DEF LockRec

(***************************************************************************)
(* The turn of $unlock: the leftovers are linked in next to the record,    *)
(* which is then taken out; whoever slept on it is awake.                  *)
(***************************************************************************)
LEMMA UnlockTurnStep ==
  ASSUME IInv, NEW t \in Threads, UnlockTurn(t)
  PROVE  IInv'
<1> USE DEF IInv
<1>1. pc[t] = "loop" /\ call[t] \in Desc /\ cursor[t] \in Nat /\ cursor[t] >= 1
  BY DEF UnlockTurn, CallsOK, TypeOK
<1>2. PICK d \in Desc : d = call[t]
  BY <1>1
<1>3. d.start \in Nat /\ d.end \in Nat
  BY DEF Desc
<1>4. list \in Seq(LockRec) /\ DOMAIN list = 1 .. Len(list) /\ Len(list) \in Nat
  BY DEF TypeOK
<1>5. Candidates(d, cursor[t]) \subseteq DOMAIN list
  <2>1. Found(list, d, cursor[t]) \subseteq DOMAIN list
    BY <1>1, <1>4, FoundInList
  <2>2. QED
    BY <2>1 DEF Candidates
<1>6. Candidates(d, cursor[t]) # {}
  BY <1>2 DEF UnlockTurn
<1>7. PICK i \in DOMAIN list : i = First(Candidates(d, cursor[t]))
  <2>1. Candidates(d, cursor[t]) \subseteq Nat
    BY <1>4, <1>5
  <2>2. QED
    BY <1>5, <1>6, <2>1, FirstIsLeast
<1>8. PICK l \in LockRec : l = list[i]
  BY <1>4
<1>9. l.start \in Nat /\ l.end \in Nat /\ l.native_lock \in Natives
  BY RecordFields
<1>10. PICK s1 : s1 = WithLower(list, l, d)
  OBVIOUS
<1>11. PICK s2 : s2 = WithUpper(s1, l, d)
  OBVIOUS
<1>12. /\ list' = remove_lock_rec(s2, l)
       /\ call' = [call EXCEPT ![t].start = IF l.end > d.end THEN d.end ELSE l.end]
       /\ cursor' = [cursor EXCEPT ![t] = IF WithLower(list, l, d) = list THEN i ELSE i + 1]
       /\ Wake(WokenFrom(l.native_lock))
       /\ mutex' = mutex /\ held' = held
  BY <1>2, <1>7, <1>8, <1>10, <1>11, Zenon DEF UnlockTurn
<1>13. GoodList(s1) /\ AllKept(list, s1)
  <2>1. GoodList(list)
    BY ListGood
  <2>2. CASE s1 = list
    BY <2>1, <2>2, Zenon DEF AllKept
  <2>3. CASE s1 = add_lock_rec(list, [l EXCEPT !.end = d.start])
    <3>1. PICK x \in LockRec : x = [l EXCEPT !.end = d.start]
      BY <1>3 DEF LockRec
    <3>2. \A n \in Natives : /\ [x EXCEPT !.native_lock = n] \in LockRec
                             /\ [x EXCEPT !.native_lock = n].native_lock = n
      BY LeftoverReady, Zenon
    <3>3. QED
      BY <2>1, <2>3, <3>1, <3>2, AddKeepsList, Zenon
  <2>4. QED
    BY <1>10, <2>2, <2>3, Zenon DEF WithLower
<1>14. GoodList(s2) /\ AllKept(s1, s2)
  <2>2. CASE s2 = s1
    BY <1>13, <2>2, Zenon DEF AllKept
  <2>3. CASE s2 = add_lock_rec(s1, [l EXCEPT !.start = d.end])
    <3>1. PICK x \in LockRec : x = [l EXCEPT !.start = d.end]
      BY <1>3 DEF LockRec
    <3>2. \A n \in Natives : /\ [x EXCEPT !.native_lock = n] \in LockRec
                             /\ [x EXCEPT !.native_lock = n].native_lock = n
      BY LeftoverReady, Zenon
    <3>3. QED
      BY <1>13, <2>3, <3>1, <3>2, AddKeepsList, Zenon
  <2>4. QED
    BY <1>11, <2>2, <2>3, Zenon DEF WithUpper
<1>15. \A k \in DOMAIN list : \E m \in DOMAIN s2 : s2[m] = list[k]
  <2>1. TAKE k \in DOMAIN list
  <2>2. PICK m \in DOMAIN s1 : s1[m] = list[k]
    BY <1>13, Zenon DEF AllKept
  <2>3. PICK n \in DOMAIN s2 : s2[n] = s1[m]
    BY <1>14, Zenon DEF AllKept
  <2>4. QED
    BY <2>2, <2>3, Zenon
<1>16. PICK j \in DOMAIN s2 : s2[j] = l
  BY <1>8, <1>15, Zenon
<1>17. GoodList(list') /\ OthersKept(s2, list', l.native_lock)
  <2>1. PICK r : r = remove_lock_rec(s2, l)
    OBVIOUS
  <2>2. l.native_lock = s2[j].native_lock
    BY <1>16
  <2>3. GoodList(r) /\ OthersKept(s2, r, l.native_lock)
    BY <1>14, <1>16, <2>1, <2>2, RemoveKeepsList, Zenon
  <2>4. list' = r
    BY <1>12, <2>1, Zenon
  <2>5. QED
    BY <2>3, <2>4, Zenon
<1>18. PICK x \in Nat : call' = [call EXCEPT ![t].start = x]
  BY <1>3, <1>9, <1>12
<1>19. \A u \in Threads : u # t => call'[u] = call[u]
  BY <1>18 DEF TypeOK
<1>20. call'[t] \in Desc
  BY <1>1, <1>18 DEF TypeOK, Desc
<1>21. call' \in [Threads -> Call \cup Desc \cup {None}]
  BY <1>18, <1>19, <1>20 DEF TypeOK
<1>22. PICK c \in Nat : c >= 1 /\ cursor' = [cursor EXCEPT ![t] = c]
  <2>1. i \in Nat /\ i >= 1 /\ i + 1 \in Nat /\ i + 1 >= 1
    BY <1>4
  <2>2. CASE WithLower(list, l, d) = list
    BY <1>12, <2>1, <2>2, Zenon
  <2>3. CASE WithLower(list, l, d) # list
    BY <1>12, <2>1, <2>3, Zenon
  <2>4. QED
    BY <2>2, <2>3
<1>23. PICK S \in SUBSET Threads :
         /\ S = {u \in Threads : pc[u] = "sleep" /\ sleepon[u] = l.native_lock}
         /\ pc' = [u \in Threads |-> IF u \in S THEN "lock" ELSE pc[u]]
         /\ sleepon' = [u \in Threads |-> IF u \in S THEN None ELSE sleepon[u]]
  BY <1>12 DEF Wake, WokenFrom
<1>24. TypeOK'
  BY <1>12, <1>17, <1>21, <1>22, <1>23 DEF TypeOK, GoodList
<1>25. CallsOK'
  <2>1. SUFFICES ASSUME NEW u \in Threads
                 PROVE  /\ pc'[u] \in {"lock", "sleep"} => call'[u] \in Call
                        /\ pc'[u] \in {"unlock", "loop"} => call'[u] \in Desc
                        /\ pc'[u] = "loop" => cursor'[u] >= 1
    BY Zenon DEF CallsOK
  <2>2. CASE u = t
    <3>1. pc'[u] = "loop" /\ cursor'[u] = c
      BY <1>1, <1>22, <1>23, <2>2 DEF TypeOK
    <3>2. QED
      BY <1>20, <1>22, <2>2, <3>1
  <2>3. CASE u # t
    <3>1. call'[u] = call[u] /\ cursor'[u] = cursor[u]
      BY <1>19, <1>22, <2>3 DEF TypeOK
    <3>2. pc'[u] = pc[u] \/ (pc[u] = "sleep" /\ pc'[u] = "lock")
      BY <1>23
    <3>3. QED
      BY <3>1, <3>2 DEF CallsOK
  <2>4. QED
    BY <2>2, <2>3
<1>26. NativesApart' /\ ListSorted'
  BY <1>17 DEF NativesApart, ListSorted, GoodList
<1>27. SleepersOK'
  <2>1. SUFFICES ASSUME NEW u \in Threads, pc'[u] = "sleep"
                 PROVE  /\ pc[u] = "sleep" /\ call'[u] = call[u] /\ sleepon'[u] = sleepon[u]
                        /\ \A k \in DOMAIN list : list[k].native_lock = sleepon[u] =>
                             \E m \in DOMAIN list' : list'[m] = list[k]
    BY StillAsleep, Zenon
  <2>2. u \notin S /\ pc[u] = "sleep" /\ sleepon'[u] = sleepon[u]
    BY <1>23, <2>1
  <2>3. u # t
    BY <1>1, <2>2
  <2>4. sleepon[u] # l.native_lock
    BY <1>23, <2>2
  <2>5. \A k \in DOMAIN list : list[k].native_lock = sleepon[u] =>
          \E m \in DOMAIN list' : list'[m] = list[k]
    <3>1. SUFFICES ASSUME NEW k \in DOMAIN list, list[k].native_lock = sleepon[u]
                   PROVE  \E m \in DOMAIN list' : list'[m] = list[k]
      OBVIOUS
    <3>2. PICK m \in DOMAIN s2 : s2[m] = list[k]
      BY <1>15, Zenon
    <3>3. s2[m].native_lock # l.native_lock
      BY <2>4, <3>1, <3>2, Zenon
    <3>4. QED
      BY <1>17, <3>2, <3>3, Zenon DEF OthersKept
  <2>6. QED
    BY <1>19, <2>2, <2>3, <2>5, Zenon
<1>28. QED
  BY <1>24, <1>25, <1>26, <1>27

------------------------------------------------------------------------------
LEMMA StutterStep ==
  ASSUME IInv, UNCHANGED vars
  PROVE  IInv'
BY DEF IInv, TypeOK, CallsOK, NativesApart, ListSorted, SleepersOK, vars

LEMMA NextIInv ==
  ASSUME IInv, [Next]_vars
  PROVE  IInv'
<1>1. CASE UNCHANGED vars
  BY <1>1, StutterStep
<1>2. CASE Next
  <2>1. PICK t \in Threads :
          \/ \E r \in Requests, y \in Types, a \in action_t : CallLock(t, r, y, a)
          \/ lock_op(t)
          \/ SpuriousWakeup(t)
          \/ UnlockSome(t)
          \/ unlock_op(t)
    BY <1>2 DEF Next
  <2>2. CASE \E r \in Requests, y \in Types, a \in action_t : CallLock(t, r, y, a)
    BY <2>2, CallLockStep
  <2>3. CASE lock_op(t)
    BY <2>3, LockNothingStep, LockWaitStep, LockGrantedStep DEF lock_op
  <2>4. CASE SpuriousWakeup(t)
    BY <2>4, SpuriousWakeupStep
  <2>5. CASE UnlockSome(t)
    BY <2>5, UnlockSomeStep
  <2>6. CASE unlock_op(t)
    BY <2>6, UnlockBeginStep, UnlockTurnStep, UnlockEndStep DEF unlock_op
  <2>7. QED
    BY <2>1, <2>2, <2>3, <2>4, <2>5, <2>6
<1>3. QED
  BY <1>1, <1>2

(* IInv holds in every reachable state of lock_mutex. *)
THEOREM Invariant == Spec => []IInv
<1>1. Init => IInv
  BY InitIInv
<1>2. IInv /\ [Next]_vars => IInv'
  BY NextIInv
<1>3. QED
  BY <1>1, <1>2, PTL DEF Spec

(***************************************************************************)
(* The list, the mutex, the calls and what the users hold keep their shape *)
(* through every lock, wait and unlock of lock_mutex.                      *)
(***************************************************************************)
THEOREM TypeCorrect == Spec => []TypeOK
<1>1. IInv => TypeOK
  BY DEF IInv
<1>2. QED
  BY <1>1, Invariant, PTL

(***************************************************************************)
(* The list of lock_mutex is in order of start addresses, whatever         *)
(* leftovers $unlock puts back.                                            *)
(***************************************************************************)
THEOREM InOrder == Spec => []ListSorted
<1>1. IInv => ListSorted
  BY DEF IInv
<1>2. QED
  BY <1>1, Invariant, PTL

(***************************************************************************)
(* No lost wakeup in lock_mutex: who sleeps in $lock sleeps on the native  *)
(* lock of a record that the search for conflicts would find, so that its  *)
(* removal wakes the sleeper.                                              *)
(***************************************************************************)
THEOREM NoLostWakeup == Spec => []SleepersHaveReason
<1>1. IInv => SleepersHaveReason
  <2> SUFFICES ASSUME IInv, NEW t \in Threads, pc[t] = "sleep"
               PROVE  \E i \in InTheWay(t) : list[i].native_lock = sleepon[t]
    BY DEF SleepersHaveReason
  <2> USE DEF IInv
  <2>1. call[t] \in Call
    BY DEF CallsOK
  <2>2. list \in Seq(LockRec) /\ DOMAIN list = 1 .. Len(list) /\ Len(list) \in Nat
    BY DEF TypeOK
  <2>3. PICK i \in DOMAIN list : Keeps(list[i], call[t], sleepon[t])
    BY DEF SleepersOK
  <2>4. PICK d : d = MkDesc(call[t].obl, call[t].type)
    OBVIOUS
  <2>5. d.end \in Int /\ d.type = call[t].type
    BY <2>1, <2>4, CallFields, MkDescType DEF Desc
  <2>6. Overlapping(list[i], d) /\ is_conflict(d.type, list[i].type)
        /\ list[i].native_lock = sleepon[t]
    BY <2>3, <2>4, <2>5, Zenon DEF Keeps
  <2>7. \A k \in DOMAIN list : list[k].start \in Int
    BY <2>2, RecordFields
  <2>8. i \in Found(list, d, 1)
    <3>1. 1 \in Nat /\ 1 >= 1 /\ i >= 1 /\ SortedByStart(list)
      BY <2>2 DEF ListSorted
    <3>2. QED
      BY <2>2, <2>5, <2>6, <2>7, <3>1, SearchMeetsAll, Zenon
  <2>9. i \in InTheWay(t)
    BY <2>4, <2>6, <2>8, Zenon DEF InTheWay, Obligatory, Conflictors
  <2>10. QED
    BY <2>6, <2>9
<1>2. QED
  BY <1>1, Invariant, PTL

------------------------------------------------------------------------------
(* The hypotheses about exclusion.  Two types that may lie on one address  *)
(* are the same, as with plain read and write locks: $unlock does not tell *)
(* types apart, and with data and address locks mixed it takes out another *)
(* user's record.  And there are native locks for the two leftovers of a   *)
(* record, without which they are lost.                                    *)
Plain == \A y, z \in Types : y = z \/ is_conflict(y, z)
NativesSuffice == \E m, n \in FreeNatives(list) : m # n

Recs(s) == {s[i] : i \in DOMAIN s}

(* The records of S on address a. *)
Covers(r, a) == r.start =< a /\ a < r.end
At(S, a) == {r \in S : Covers(r, a)}

(* Who holds address a, who is giving it back, and both. *)
Holds(t, a) == held[t] # None /\ Covers(held[t], a)
Gives(t, a) == pc[t] \in {"unlock", "loop"} /\ Covers(call[t], a)
Owners(a) == {t \in Threads : Holds(t, a) \/ Gives(t, a)}

(* As many records as owners. *)
CountOK ==
  \A a \in Nat :
    /\ IsFiniteSet(Owners(a)) /\ IsFiniteSet(At(Recs(list), a))
    /\ Cardinality(Owners(a)) = Cardinality(At(Recs(list), a))

TypesOK ==
  /\ \A r \in Recs(list) : r.type \in Types
  /\ \A t \in Threads : held[t] # None => held[t].type \in Types

(* The records on an address do not conflict, and are of the holders' type. *)
ShareOK ==
  \A a \in Nat :
    /\ \A r, q \in At(Recs(list), a) : r # q => ~is_conflict(r.type, q.type)
    /\ \A t \in Threads, r \in At(Recs(list), a) : Holds(t, a) => r.type = held[t].type

(* What is held and what is given back are regions, and apart. *)
PartsOK ==
  \A t \in Threads :
    /\ pc[t] \in {"lock", "sleep"} => held[t] = None
    /\ held[t] # None => held[t].start < held[t].end
    /\ pc[t] \in {"unlock", "loop"} => call[t].start =< call[t].end
    /\ \A a \in Nat : ~(Holds(t, a) /\ Gives(t, a))

(* A running $unlock has left nothing of its region behind. *)
CursorOK ==
  \A t \in Threads : pc[t] = "loop" =>
    /\ mutex = t
    /\ call[t].start < call[t].end =>
         \A k \in DOMAIN list : k < cursor[t] => list[k].end =< call[t].start

EInv == CountOK /\ TypesOK /\ ShareOK /\ PartsOK /\ CursorOK

(* Of a list whose native locks are apart, add_lock_rec adds one record to *)
(* the set of its records, with a native lock that was free, and           *)
(* remove_lock_rec takes one out, where it stands.                         *)
LEMMA AddIs ==
  ASSUME NEW s, GoodList(s), FreeNatives(s) # {}, NEW l,
         \A n \in Natives : /\ [l EXCEPT !.native_lock = n] \in LockRec
                            /\ [l EXCEPT !.native_lock = n].native_lock = n
  PROVE  \E n \in FreeNatives(s) : \E x \in LockRec :
           /\ x = [l EXCEPT !.native_lock = n]
           /\ add_lock_rec(s, l) = InsertSorted(s, x)
           /\ Recs(add_lock_rec(s, l)) = Recs(s) \cup {x} /\ x \notin Recs(s)
           /\ FreeNatives(add_lock_rec(s, l)) = FreeNatives(s) \ {n}
<1>1. FreeNatives(s) \subseteq Nat
  BY NativesNat DEF FreeNatives
<1>2. First(FreeNatives(s)) \in FreeNatives(s)
  BY <1>1, FirstIsLeast
<1>3. PICK n \in FreeNatives(s) : n = First(FreeNatives(s))
  BY <1>2
<1>4. n \in Natives /\ \A k \in DOMAIN s : s[k].native_lock # n
  BY <1>3 DEF FreeNatives
<1>5. PICK x \in LockRec : x = [l EXCEPT !.native_lock = n] /\ x.native_lock = n
  BY <1>4
<1>6. add_lock_rec(s, l) = InsertSorted(s, x)
  BY <1>3, <1>5, Zenon DEF add_lock_rec
<1>7. PICK r : r = InsertSorted(s, x)
  OBVIOUS
<1>8. s \in Seq(LockRec)
  BY DEF GoodList
<1>9. AllKept(s, r) /\ OnlyAdded(s, r, x)
  BY <1>7, <1>8, InsertKeepsRecords, Zenon
<1>10. PICK p \in DOMAIN r : r[p] = x /\ \A m \in DOMAIN r \ {p} : \E k \in DOMAIN s : r[m] = s[k]
  BY <1>9, Zenon DEF OnlyAdded
<1>11. Recs(r) = Recs(s) \cup {x}
  <2>1. ASSUME NEW y \in Recs(r)
        PROVE  y \in Recs(s) \cup {x}
    <3>1. PICK m \in DOMAIN r : y = r[m]
      BY <2>1 DEF Recs
    <3>2. m = p \/ \E k \in DOMAIN s : r[m] = s[k]
      BY <1>10
    <3>3. QED
      BY <1>10, <3>1, <3>2 DEF Recs
  <2>2. ASSUME NEW y \in Recs(s)
        PROVE  y \in Recs(r)
    BY <1>9, Zenon DEF AllKept, Recs
  <2>3. x \in Recs(r)
    BY <1>10 DEF Recs
  <2>4. QED
    BY <2>1, <2>2, <2>3
<1>12. x \notin Recs(s)
  <2>1. ASSUME x \in Recs(s)
        PROVE  FALSE
    <3>1. PICK k \in DOMAIN s : x = s[k]
      BY <2>1, Zenon DEF Recs
    <3>2. QED
      BY <1>4, <1>5, <3>1, Zenon
  <2>2. QED
    BY <2>1
<1>13. \A m : m \in {r[k].native_lock : k \in DOMAIN r} <=>
              \E y \in Recs(r) : m = y.native_lock
  BY DEF Recs
<1>14. \A m : m \in {s[k].native_lock : k \in DOMAIN s} <=>
              \E y \in Recs(s) : m = y.native_lock
  BY DEF Recs
<1>15. \A m : m \in {r[k].native_lock : k \in DOMAIN r} <=>
              m = n \/ m \in {s[k].native_lock : k \in DOMAIN s}
  BY <1>5, <1>11, <1>13, <1>14, Zenon
<1>16. FreeNatives(r) = FreeNatives(s) \ {n}
  BY <1>4, <1>15 DEF FreeNatives
<1>17. QED
  BY <1>3, <1>5, <1>6, <1>7, <1>11, <1>12, <1>16, Zenon

LEMMA RemoveIs ==
  ASSUME NEW s, GoodList(s), NEW i \in DOMAIN s, NEW l, l = s[i]
  PROVE  /\ remove_lock_rec(s, l) = RemoveAt(s, i)
         /\ Recs(remove_lock_rec(s, l)) = Recs(s) \ {l}
<1>1. s \in Seq(LockRec) /\ Apart(s) /\ DOMAIN s = 1 .. Len(s) /\ Len(s) \in Nat
  BY DEF GoodList
<1>2. PICK P : P = {k \in DOMAIN s : s[k].native_lock = l.native_lock}
  OBVIOUS
<1>3. P = {i}
  BY <1>2 DEF GoodList, Apart
<1>4. P \subseteq Nat /\ P # {}
  BY <1>1, <1>3
<1>5. First(P) = i
  BY <1>3, <1>4, FirstIsLeast
<1>6. remove_lock_rec(s, l) = RemoveAt(s, i)
  BY <1>2, <1>5, Zenon DEF remove_lock_rec
<1>7. PICK r : r = RemoveAt(s, i)
  OBVIOUS
<1>8. /\ r \in Seq(LockRec) /\ Len(r) = Len(s) - 1
      /\ \A k \in 1 .. (Len(s) - 1) : r[k] = IF k < i THEN s[k] ELSE s[k + 1]
  BY <1>1, <1>7, RemoveAtFacts, Zenon
<1>9. DOMAIN r = 1 .. (Len(s) - 1)
  BY <1>8
<1>10. \A k, m \in DOMAIN s : k # m => s[k] # s[m]
  BY <1>1 DEF Apart
<1>11. ASSUME NEW y \in Recs(r)
       PROVE  y \in Recs(s) \ {l}
  <2>1. PICK k \in 1 .. (Len(s) - 1) : y = r[k]
    BY <1>9, <1>11 DEF Recs
  <2>2. CASE k < i
    <3>1. y = s[k] /\ k \in DOMAIN s /\ k # i
      BY <1>1, <1>8, <2>1, <2>2
    <3>2. QED
      BY <1>10, <3>1 DEF Recs
  <2>3. CASE ~(k < i)
    <3>1. y = s[k + 1] /\ k + 1 \in DOMAIN s /\ k + 1 # i
      BY <1>1, <1>8, <2>1, <2>3
    <3>2. QED
      BY <1>10, <3>1 DEF Recs
  <2>4. QED
    BY <2>2, <2>3
<1>12. ASSUME NEW y \in Recs(s), y # l
       PROVE  y \in Recs(r)
  <2>1. PICK k \in 1 .. Len(s) : y = s[k]
    BY <1>1, <1>12 DEF Recs
  <2>2. k # i
    BY <1>12, <2>1
  <2>3. CASE k < i
    <3>1. k \in DOMAIN r /\ r[k] = s[k]
      BY <1>1, <1>8, <1>9, <2>1, <2>3
    <3>2. QED
      BY <2>1, <3>1 DEF Recs
  <2>4. CASE k > i
    <3>1. k - 1 \in DOMAIN r /\ r[k - 1] = s[(k - 1) + 1]
      BY <1>1, <1>8, <1>9, <2>1, <2>4
    <3>2. QED
      BY <2>1, <3>1 DEF Recs
  <2>5. QED
    BY <1>1, <2>1, <2>2, <2>3, <2>4
<1>13. Recs(r) = Recs(s) \ {l}
  BY <1>11, <1>12, Zenon
<1>14. QED
  BY <1>6, <1>7, <1>13, Zenon

(* One element comes, one goes, one comes for another. *)
LEMMA Counting ==
  ASSUME NEW A, IsFiniteSet(A)
  PROVE  /\ Cardinality(A) \in Nat
         /\ \A x : x \notin A => /\ IsFiniteSet(A \cup {x})
                                 /\ Cardinality(A \cup {x}) = Cardinality(A) + 1
         /\ \A x : x \in A => /\ IsFiniteSet(A \ {x})
                              /\ Cardinality(A \ {x}) = Cardinality(A) - 1
         /\ \A x, y : x \notin A /\ y \in A =>
              /\ IsFiniteSet((A \ {y}) \cup {x})
              /\ Cardinality((A \ {y}) \cup {x}) = Cardinality(A)
<1>1. Cardinality(A) \in Nat
  BY FS_CardinalityType
<1>2. ASSUME NEW x, x \notin A
      PROVE  IsFiniteSet(A \cup {x}) /\ Cardinality(A \cup {x}) = Cardinality(A) + 1
  BY <1>2, FS_AddElement
<1>3. ASSUME NEW x, x \in A
      PROVE  IsFiniteSet(A \ {x}) /\ Cardinality(A \ {x}) = Cardinality(A) - 1
  BY <1>3, FS_RemoveElement
<1>4. ASSUME NEW x, NEW y, x \notin A, y \in A
      PROVE  /\ IsFiniteSet((A \ {y}) \cup {x})
             /\ Cardinality((A \ {y}) \cup {x}) = Cardinality(A)
  <2>1. PICK B : B = A \ {y}
    OBVIOUS
  <2>2. IsFiniteSet(B) /\ Cardinality(B) = Cardinality(A) - 1
    BY <1>3, <1>4, <2>1
  <2>3. x \notin B
    BY <1>4, <2>1
  <2>4. IsFiniteSet(B \cup {x}) /\ Cardinality(B \cup {x}) = Cardinality(B) + 1
    BY <2>2, <2>3, FS_AddElement
  <2>5. Cardinality(B \cup {x}) = Cardinality(A)
    BY <1>1, <2>2, <2>4
  <2>6. QED
    BY <2>1, <2>4, <2>5, Zenon
<1>5. QED
  BY <1>1, <1>2, <1>3, <1>4, Zenon

(* What a step leaves right that leaves the list and who owns what. *)
SameOwners ==
  \A u \in Threads, a \in Nat :
    /\ (Holds(u, a) \/ Gives(u, a))' <=> Holds(u, a) \/ Gives(u, a)
    /\ Holds(u, a)' => Holds(u, a) /\ held'[u].type = held[u].type

(* With list and owners as before, the counts and types are right. *)
LEMMA ListSame ==
  ASSUME EInv, list' = list, SameOwners,
         \A u \in Threads : held'[u] # None => held'[u].type \in Types
  PROVE  CountOK' /\ TypesOK' /\ ShareOK'
<1>1. CountOK /\ TypesOK /\ ShareOK
  BY DEF EInv
<1>2. \A a \in Nat : Owners(a)' = Owners(a)
  BY DEF SameOwners, Owners
<1>3. \A a \in Nat : At(Recs(list'), a) = At(Recs(list), a)
  OBVIOUS
<1>4. CountOK'
  <2>1. SUFFICES ASSUME NEW a \in Nat
                 PROVE  /\ IsFiniteSet(Owners(a)') /\ IsFiniteSet(At(Recs(list'), a))
                        /\ Cardinality(Owners(a)') = Cardinality(At(Recs(list'), a))
    BY DEF CountOK
  <2>2. Owners(a)' = Owners(a) /\ At(Recs(list'), a) = At(Recs(list), a)
    BY <1>2, <1>3
  <2>3. QED
    BY <1>1, <2>2, Zenon DEF CountOK
<1>5. TypesOK'
  BY <1>1, Zenon DEF TypesOK
<1>6. ShareOK'
  <2>1. SUFFICES ASSUME NEW a \in Nat
                 PROVE  /\ \A r, q \in At(Recs(list'), a) : r # q => ~is_conflict(r.type, q.type)
                        /\ \A u \in Threads, r \in At(Recs(list'), a) :
                             Holds(u, a)' => r.type = held'[u].type
    BY DEF ShareOK
  <2>2. At(Recs(list'), a) = At(Recs(list), a)
    BY <1>3
  <2>3. \A u \in Threads : Holds(u, a)' => Holds(u, a) /\ held'[u].type = held[u].type
    BY DEF SameOwners
  <2>4. QED
    BY <1>1, <2>2, <2>3, Zenon DEF ShareOK
<1>7. QED
  BY <1>4, <1>5, <1>6

(* A thread moves; what it holds and gives back stays. *)
LEMMA MovesOn ==
  ASSUME IInv, EInv, NEW t \in Threads, NEW w, pc' = [pc EXCEPT ![t] = w],
         list' = list, held' = held, mutex' = mutex, cursor' = cursor,
         \A u \in Threads : u # t => call'[u] = call[u],
         pc[t] \in {"idle", "lock", "sleep"}, w \in {"idle", "lock", "sleep"},
         w \in {"lock", "sleep"} => held[t] = None
  PROVE  EInv'
<1>1. /\ pc'[t] = w /\ \A u \in Threads : u # t => pc'[u] = pc[u]
  BY DEF IInv, TypeOK
<1>2. \A u \in Threads, a \in Nat : Gives(u, a)' <=> Gives(u, a)
  BY <1>1 DEF Gives
<1>3. \A u \in Threads, a \in Nat : Holds(u, a)' <=> Holds(u, a)
  BY DEF Holds
<1>4. SameOwners
  BY <1>2, <1>3, Zenon DEF SameOwners
<1>5. \A u \in Threads : held'[u] # None => held'[u].type \in Types
  BY Zenon DEF EInv, TypesOK
<1>6. CountOK' /\ TypesOK' /\ ShareOK'
  BY <1>4, <1>5, ListSame
<1>7. PartsOK'
  BY <1>1, <1>2, <1>3 DEF EInv, PartsOK
<1>8. CursorOK'
  BY <1>1 DEF EInv, CursorOK
<1>9. QED
  BY <1>6, <1>7, <1>8 DEF EInv

(* A call of $lock owns nothing yet. *)
LEMMA CallLockShare ==
  ASSUME IInv, EInv, NEW t \in Threads, NEW r \in Requests, NEW y \in Types, NEW a \in action_t,
         CallLock(t, r, y, a)
  PROVE  EInv'
<1>1. /\ pc' = [pc EXCEPT ![t] = "lock"] /\ pc[t] = "idle" /\ held[t] = None
      /\ list' = list /\ held' = held /\ mutex' = mutex /\ cursor' = cursor
  BY DEF CallLock
<1>2. \A u \in Threads : u # t => call'[u] = call[u]
  BY DEF CallLock, IInv, TypeOK
<1>3. QED
  BY <1>1, <1>2, MovesOn

(* A $lock that is refused changes no owner. *)
LEMMA LockNothingShare ==
  ASSUME IInv, EInv, NEW t \in Threads, LockNothing(t)
  PROVE  EInv'
<1>1. /\ pc' = [pc EXCEPT ![t] = "idle"] /\ pc[t] = "lock"
      /\ list' = list /\ mutex' = mutex /\ cursor' = cursor
      /\ held' = [held EXCEPT ![t] = None]
  BY DEF LockNothing, LockReturn, Locking
<1>2. held[t] = None
  BY <1>1 DEF EInv, PartsOK
<1>3. held' = held
  BY <1>1, <1>2 DEF IInv, TypeOK
<1>4. \A u \in Threads : u # t => call'[u] = call[u]
  BY DEF LockNothing, LockReturn, IInv, TypeOK
<1>5. QED
  BY <1>1, <1>3, <1>4, MovesOn

(* A $lock that goes to sleep changes no owner. *)
LEMMA LockWaitShare ==
  ASSUME IInv, EInv, NEW t \in Threads, LockWait(t)
  PROVE  EInv'
<1>1. /\ pc' = [pc EXCEPT ![t] = "sleep"] /\ pc[t] = "lock"
      /\ list' = list /\ held' = held /\ mutex' = mutex /\ cursor' = cursor /\ call' = call
  BY DEF LockWait, Locking
<1>2. held[t] = None
  BY <1>1 DEF EInv, PartsOK
<1>3. QED
  BY <1>1, <1>2, MovesOn

(* Nor does a sleeper that wakes up. *)
LEMMA SpuriousWakeupShare ==
  ASSUME IInv, EInv, NEW t \in Threads, SpuriousWakeup(t)
  PROVE  EInv'
<1>1. /\ pc' = [pc EXCEPT ![t] = "lock"] /\ pc[t] = "sleep"
      /\ list' = list /\ held' = held /\ mutex' = mutex /\ cursor' = cursor /\ call' = call
  BY DEF SpuriousWakeup
<1>2. held[t] = None
  BY <1>1 DEF EInv, PartsOK
<1>3. QED
  BY <1>1, <1>2, MovesOn

(* $unlock starts at the head of the list, with nothing before it. *)
LEMMA UnlockBeginShare ==
  ASSUME IInv, EInv, NEW t \in Threads, UnlockBegin(t)
  PROVE  EInv'
<1>1. /\ pc' = [pc EXCEPT ![t] = "loop"] /\ pc[t] = "unlock" /\ mutex = NoThread /\ mutex' = t
      /\ list' = list /\ held' = held /\ call' = call /\ cursor' = [cursor EXCEPT ![t] = 1]
  BY DEF UnlockBegin
<1>2. /\ pc'[t] = "loop" /\ cursor'[t] = 1
      /\ \A u \in Threads : u # t => pc'[u] = pc[u]
  BY <1>1 DEF IInv, TypeOK
<1>3. \A u \in Threads, a \in Nat : Gives(u, a)' <=> Gives(u, a)
  BY <1>1, <1>2 DEF Gives
<1>4. \A u \in Threads, a \in Nat : Holds(u, a)' <=> Holds(u, a)
  BY <1>1 DEF Holds
<1>5. SameOwners
  BY <1>1, <1>3, <1>4, Zenon DEF SameOwners
<1>6. \A u \in Threads : held'[u] # None => held'[u].type \in Types
  BY <1>1, Zenon DEF EInv, TypesOK
<1>7. CountOK' /\ TypesOK' /\ ShareOK'
  BY <1>1, <1>5, <1>6, ListSame
<1>8. PartsOK'
  BY <1>1, <1>2, <1>3, <1>4 DEF EInv, PartsOK
<1>9. CursorOK'
  <2>1. \A u \in Threads : pc[u] # "loop"
    BY <1>1, MutexAssumption DEF EInv, CursorOK
  <2>2. DOMAIN list' \subseteq Nat /\ \A k \in DOMAIN list' : ~(k < 1)
    BY <1>1 DEF IInv, TypeOK
  <2>3. QED
    BY <1>1, <1>2, <2>1, <2>2 DEF CursorOK
<1>10. QED
  BY <1>7, <1>8, <1>9 DEF EInv

(* $unlock is called: the region moves from what is held to what is given. *)
Split(x, e, rest) ==
  /\ \A a \in Nat : Covers(x, a) <=> Covers(e, a) \/ (rest # None /\ Covers(rest, a))
  /\ \A a \in Nat : ~(Covers(e, a) /\ rest # None /\ Covers(rest, a))
  /\ rest # None => rest.type = x.type /\ rest.start < rest.end
  /\ e.start < e.end

(* A call of $unlock gives back a part of what was held. *)
LEMMA CallUnlockShare ==
  ASSUME IInv, EInv, NEW t \in Threads, held[t] # None, NEW e \in Desc,
         NEW rest \in Desc \cup {None}, CallUnlock(t, e, rest), Split(held[t], e, rest)
  PROVE  EInv'
<1>1. /\ pc[t] = "idle" /\ pc' = [pc EXCEPT ![t] = "unlock"] /\ held' = [held EXCEPT ![t] = rest]
      /\ call' = [call EXCEPT ![t] = [start |-> e.start, end |-> e.end,
                                      type |-> make_lock_type(lock_write, lock_write)]]
      /\ list' = list /\ mutex' = mutex /\ cursor' = cursor
  BY DEF CallUnlock
<1>2. /\ pc'[t] = "unlock" /\ held'[t] = rest
      /\ call'[t].start = e.start /\ call'[t].end = e.end
      /\ \A u \in Threads : u # t =>
           pc'[u] = pc[u] /\ held'[u] = held[u] /\ call'[u] = call[u]
  BY <1>1 DEF IInv, TypeOK
<1>3. \A u \in Threads, a \in Nat : u # t =>
        (Gives(u, a)' <=> Gives(u, a)) /\ (Holds(u, a)' <=> Holds(u, a))
  BY <1>2 DEF Gives, Holds
<1>4. \A a \in Nat : /\ ~Gives(t, a) /\ (Holds(t, a) <=> Covers(held[t], a))
                     /\ Gives(t, a)' <=> Covers(e, a)
                     /\ Holds(t, a)' <=> rest # None /\ Covers(rest, a)
  BY <1>1, <1>2 DEF Gives, Holds, Covers
<1>5. SameOwners
  <2>1. \A a \in Nat : /\ (Holds(t, a) \/ Gives(t, a))' <=> Holds(t, a) \/ Gives(t, a)
                       /\ Holds(t, a)' => Holds(t, a) /\ held'[t].type = held[t].type
    BY <1>2, <1>4, Zenon DEF Split
  <2>2. QED
    BY <1>2, <1>3, <2>1, Zenon DEF SameOwners
<1>6. \A u \in Threads : held'[u] # None => held'[u].type \in Types
  <2>1. held'[t] # None => held'[t].type \in Types
    BY <1>2, Zenon DEF EInv, TypesOK, Split
  <2>2. QED
    BY <1>2, <2>1, Zenon DEF EInv, TypesOK
<1>7. CountOK' /\ TypesOK' /\ ShareOK'
  BY <1>1, <1>5, <1>6, ListSame
<1>8. PartsOK'
  <2>1. SUFFICES ASSUME NEW u \in Threads
                 PROVE  /\ pc'[u] \in {"lock", "sleep"} => held'[u] = None
                        /\ held'[u] # None => held'[u].start < held'[u].end
                        /\ pc'[u] \in {"unlock", "loop"} => call'[u].start =< call'[u].end
                        /\ \A a \in Nat : ~(Holds(u, a)' /\ Gives(u, a)')
    BY DEF PartsOK
  <2>2. CASE u = t
    <3>1. e.start =< e.end
      BY DEF Split, Desc
    <3>2. QED
      BY <1>2, <1>4, <2>2, <3>1, Zenon DEF Split
  <2>3. CASE u # t
    BY <1>2, <1>3, <2>3, Zenon DEF EInv, PartsOK
  <2>4. QED
    BY <2>2, <2>3
<1>9. CursorOK'
  BY <1>1, <1>2 DEF EInv, CursorOK
<1>10. QED
  BY <1>7, <1>8, <1>9 DEF EInv

(* Whatever part a user unlocks, the region is split in two or given back whole. *)
LEMMA UnlockSomeShare ==
  ASSUME IInv, EInv, NEW t \in Threads, UnlockSome(t)
  PROVE  EInv'
<1>1. PICK x \in Desc : x = held[t] /\ x # None
  BY DEF UnlockSome, IInv, TypeOK
<1>2. x.start \in Nat /\ x.end \in Nat
  BY DEF Desc
<1>3. CASE CallUnlock(t, x, None)
  <2>1. Split(x, x, None)
    BY <1>1 DEF Split, EInv, PartsOK
  <2>2. QED
    BY <1>1, <1>3, <2>1, CallUnlockShare
<1>4. ASSUME NEW k \in (x.start + 1) .. (x.end - 1), NEW low, NEW high,
             low = [x EXCEPT !.end = k], high = [x EXCEPT !.start = k],
             CallUnlock(t, low, high) \/ CallUnlock(t, high, low)
      PROVE  EInv'
  <2>1. k \in Nat /\ x.start < k /\ k < x.end
    BY <1>2
  <2>2. /\ low \in Desc /\ low.start = x.start /\ low.end = k /\ low.type = x.type
        /\ high \in Desc /\ high.start = k /\ high.end = x.end /\ high.type = x.type
    BY <1>4, <2>1 DEF Desc
  <2>3. /\ \A a \in Nat : Covers(x, a) <=> Covers(low, a) \/ Covers(high, a)
        /\ \A a \in Nat : ~(Covers(low, a) /\ Covers(high, a))
    BY <1>2, <2>1, <2>2 DEF Covers
  <2>4. low # None /\ high # None
    BY <2>2, NoDesc
  <2>5. Split(x, low, high) /\ Split(x, high, low)
    <3>1. low.start < low.end /\ high.start < high.end
      BY <2>1, <2>2
    <3>2. QED
      BY <2>2, <2>3, <2>4, <3>1, Zenon DEF Split
  <2>6. QED
    BY <1>1, <1>4, <2>2, <2>5, CallUnlockShare
<1>5. QED
  BY <1>1, <1>3, <1>4 DEF UnlockSome

(* On what a thread holds or gives back there lies a record. *)
LEMMA OwnedRecorded ==
  ASSUME IInv, EInv, NEW t \in Threads, NEW a \in Nat, Holds(t, a) \/ Gives(t, a)
  PROVE  \E k \in DOMAIN list : Covers(list[k], a)
<1>1. t \in Owners(a)
  BY DEF Owners
<1>2. /\ IsFiniteSet(Owners(a)) /\ IsFiniteSet(At(Recs(list), a))
      /\ Cardinality(Owners(a)) = Cardinality(At(Recs(list), a))
  BY DEF EInv, CountOK
<1>3. Owners(a) # {}
  BY <1>1
<1>4. Cardinality(Owners(a)) # 0
  BY <1>2, <1>3, FS_EmptySet
<1>5. At(Recs(list), a) # {}
  BY <1>2, <1>4, FS_EmptySet
<1>6. QED
  BY <1>5 DEF At, Recs

(* A record on the region of a running $unlock is found. *)
LEMMA LoopMeets ==
  ASSUME IInv, EInv, NEW t \in Threads, pc[t] = "loop", call[t].start < call[t].end
  PROVE  \E k \in Candidates(call[t], cursor[t]) : k \in DOMAIN list /\ Covers(list[k], call[t].start)
<1>1. PICK d \in Desc : d = call[t]
  BY DEF IInv, CallsOK
<1>2. PICK c \in Nat : c = cursor[t] /\ c >= 1
  BY DEF IInv, TypeOK, CallsOK
<1>3. d.start \in Nat /\ d.end \in Nat /\ d.start < d.end
  BY <1>1 DEF Desc
<1>4. Gives(t, d.start)
  BY <1>1, <1>3 DEF Gives, Covers
<1>5. PICK k \in DOMAIN list : Covers(list[k], d.start)
  BY <1>3, <1>4, OwnedRecorded
<1>6. list \in Seq(LockRec) /\ DOMAIN list = 1 .. Len(list) /\ Len(list) \in Nat
  BY DEF IInv, TypeOK
<1>7. \A j \in DOMAIN list : list[j].start \in Nat /\ list[j].end \in Nat
  BY <1>6, RecordFields
<1>8. k < c => list[k].end =< d.start
  BY <1>1, <1>2, <1>3 DEF EInv, CursorOK
<1>9. k >= c
  BY <1>3, <1>5, <1>6, <1>7, <1>8 DEF Covers
<1>10. Overlapping(list[k], d)
  BY <1>3, <1>5, <1>7 DEF Covers, Overlapping
<1>11. SortedByStart(list)
  BY DEF IInv, ListSorted
<1>12. k \in Found(list, d, c)
  <2>1. \A j \in DOMAIN list : list[j].start \in Int
    BY <1>7
  <2>2. d.end \in Int
    BY <1>3
  <2>3. QED
    BY <1>2, <1>6, <1>9, <1>10, <1>11, <2>1, <2>2, SearchMeetsAll
<1>13. k \in Candidates(d, c)
  BY <1>3, <1>12 DEF Candidates
<1>14. QED
  BY <1>1, <1>2, <1>5, <1>13

(* $unlock ends only when its region is used up. *)
LEMMA UnlockEndShare ==
  ASSUME IInv, EInv, NEW t \in Threads, UnlockEnd(t)
  PROVE  EInv'
<1>1. /\ pc[t] = "loop" /\ Candidates(call[t], cursor[t]) = {} /\ pc' = [pc EXCEPT ![t] = "idle"]
      /\ list' = list /\ held' = held /\ call' = [call EXCEPT ![t] = None]
  BY DEF UnlockEnd
<1>2. /\ pc'[t] = "idle" /\ \A u \in Threads : u # t => pc'[u] = pc[u] /\ call'[u] = call[u]
  BY <1>1 DEF IInv, TypeOK
<1>3. ~(call[t].start < call[t].end)
  BY <1>1, LoopMeets
<1>4. \A a \in Nat : ~Gives(t, a)
  <2>1. PICK d \in Desc : d = call[t]
    BY <1>1 DEF IInv, CallsOK
  <2>2. d.start \in Nat /\ d.end \in Nat
    BY DEF Desc
  <2>3. QED
    BY <1>3, <2>1, <2>2 DEF Gives, Covers
<1>5. \A u \in Threads, a \in Nat : Gives(u, a)' <=> Gives(u, a)
  BY <1>2, <1>4 DEF Gives
<1>6. \A u \in Threads, a \in Nat : Holds(u, a)' <=> Holds(u, a)
  BY <1>1 DEF Holds
<1>7. SameOwners
  BY <1>1, <1>5, <1>6, Zenon DEF SameOwners
<1>8. \A u \in Threads : held'[u] # None => held'[u].type \in Types
  BY <1>1, Zenon DEF EInv, TypesOK
<1>9. CountOK' /\ TypesOK' /\ ShareOK'
  BY <1>1, <1>7, <1>8, ListSame
<1>10. PartsOK'
  <2>1. SUFFICES ASSUME NEW u \in Threads
                 PROVE  /\ pc'[u] \in {"lock", "sleep"} => held'[u] = None
                        /\ held'[u] # None => held'[u].start < held'[u].end
                        /\ pc'[u] \in {"unlock", "loop"} => call'[u].start =< call'[u].end
                        /\ \A a \in Nat : ~(Holds(u, a)' /\ Gives(u, a)')
    BY DEF PartsOK
  <2>2. CASE u = t
    BY <1>1, <1>2, <1>5, <1>6, <2>2 DEF EInv, PartsOK
  <2>3. CASE u # t
    BY <1>1, <1>2, <1>5, <1>6, <2>3, Zenon DEF EInv, PartsOK
  <2>4. QED
    BY <2>2, <2>3
<1>11. CursorOK'
  <2>1. \A u \in Threads : u # t => pc[u] # "loop"
    BY <1>1 DEF EInv, CursorOK
  <2>2. \A u \in Threads : pc'[u] # "loop"
    BY <1>2, <2>1
  <2>3. QED
    BY <2>2 DEF CursorOK
<1>12. QED
  BY <1>9, <1>10, <1>11 DEF EInv

(* No conflicting record reaches into the region that is granted. *)
LEMMA GrantedClear ==
  ASSUME IInv, NEW t \in Threads, call[t] \in Call, NEW k \in DOMAIN list,
         Overlapping(list[k], CutTo(t))
  PROVE  ~is_conflict(call[t].type, list[k].type)
<1>1. PICK d \in Desc :
        /\ d = CutTo(t)
        /\ d.start >= call[t].opt[1] /\ d.end =< call[t].opt[2]
        /\ \A j \in Conflictors(MkDesc(call[t].opt, call[t].type)) :
             IF list[j].end =< call[t].obl[1] THEN list[j].end =< d.start
                                              ELSE d.end =< list[j].start
  <2>1. TypeOK
    BY DEF IInv
  <2>2. QED
    BY <2>1, CutToIs, Zenon
<1>2. d.start \in Nat /\ d.end \in Nat
  BY DEF Desc
<1>3. /\ call[t].obl[1] \in Nat /\ call[t].opt[1] \in Nat /\ call[t].opt[2] \in Nat
      /\ call[t].type \in MutexTypes
  BY CallFields
<1>4. PICK o : o = MkDesc(call[t].opt, call[t].type)
  OBVIOUS
<1>5. o.start = call[t].opt[1] /\ o.end = call[t].opt[2] /\ o.type = call[t].type
  BY <1>3, <1>4, MkDescType
<1>6. /\ list \in Seq(LockRec) /\ DOMAIN list = 1 .. Len(list) /\ Len(list) \in Nat
      /\ SortedByStart(list)
  BY DEF IInv, TypeOK, ListSorted
<1>7. \A j \in DOMAIN list : list[j].start \in Nat /\ list[j].end \in Nat
  BY <1>6, RecordFields
<1>8. Overlapping(list[k], d)
  BY <1>1
<1>9. Overlapping(list[k], o)
  BY <1>1, <1>2, <1>3, <1>5, <1>7, <1>8 DEF Overlapping
<1>10. k \in Found(list, o, 1)
  <2>1. \A j \in DOMAIN list : list[j].start \in Int
    BY <1>7
  <2>2. PICK i \in Nat : i = 1 /\ i >= 1 /\ k >= i
    BY <1>6
  <2>3. o.end \in Int
    BY <1>3, <1>5
  <2>4. k \in Found(list, o, i)
    BY <1>6, <1>9, <2>1, <2>2, <2>3, SearchMeetsAll
  <2>5. QED
    BY <2>2, <2>4
<1>11. ASSUME is_conflict(call[t].type, list[k].type)
       PROVE  FALSE
  <2>1. k \in Conflictors(o)
    BY <1>5, <1>10, <1>11 DEF Conflictors
  <2>2. IF list[k].end =< call[t].obl[1] THEN list[k].end =< d.start ELSE d.end =< list[k].start
    BY <1>1, <1>4, <2>1
  <2>3. QED
    BY <1>2, <1>7, <1>8, <2>2 DEF Overlapping
<1>12. QED
  BY <1>11

(* What a free native lock and the hypotheses give a granted $lock. *)
LEMMA GrantAdds ==
  ASSUME IInv, NativesSuffice, NEW d \in Desc
  PROVE  \E x \in LockRec :
           /\ x.start = d.start /\ x.end = d.end /\ x.type = d.type
           /\ Recs(add_lock_rec(list, Record(d))) = Recs(list) \cup {x} /\ x \notin Recs(list)
<1>1. GoodList(list)
  BY ListGood
<1>2. FreeNatives(list) # {}
  BY DEF NativesSuffice
<1>3. \A n \in Natives : /\ [Record(d) EXCEPT !.native_lock = n] \in LockRec
                         /\ [Record(d) EXCEPT !.native_lock = n].native_lock = n
                         /\ [Record(d) EXCEPT !.native_lock = n].start = d.start
                         /\ [Record(d) EXCEPT !.native_lock = n].end = d.end
                         /\ [Record(d) EXCEPT !.native_lock = n].type = d.type
  BY DEF Record, LockRec, Desc
<1>4. PICK l : l = Record(d)
  OBVIOUS
<1>5. PICK n \in FreeNatives(list) : \E x \in LockRec :
         /\ x = [l EXCEPT !.native_lock = n]
         /\ Recs(add_lock_rec(list, l)) = Recs(list) \cup {x} /\ x \notin Recs(list)
  BY <1>1, <1>2, <1>3, <1>4, AddIs, Zenon
<1>6. n \in Natives
  BY DEF FreeNatives
<1>7. QED
  BY <1>3, <1>4, <1>5, <1>6, Zenon

(* A granted $lock adds a record and an owner where there is nothing but its type. *)
LEMMA LockGrantedShare ==
  ASSUME Plain, IInv, EInv, NativesSuffice, NEW t \in Threads, LockGranted(t)
  PROVE  EInv'
<1>1. /\ pc[t] = "lock" /\ mutex = NoThread /\ pc' = [pc EXCEPT ![t] = "idle"]
      /\ call' = [call EXCEPT ![t] = None] /\ mutex' = mutex /\ cursor' = cursor
  BY DEF LockGranted, LockReturn, Locking
<1>2. call[t] \in Call
  BY <1>1 DEF IInv, CallsOK
<1>3. PICK d \in Desc : d = CutTo(t) /\ d.type = call[t].type
  <2>1. TypeOK
    BY DEF IInv
  <2>2. QED
    BY <1>2, <2>1, CutToIs, Zenon
<1>4. d.start \in Nat /\ d.end \in Nat /\ d # None
  BY NoDesc DEF Desc
<1>5. held[t] = None
  BY <1>1 DEF EInv, PartsOK
<1>6. /\ pc'[t] = "idle" /\ \A u \in Threads : u # t => pc'[u] = pc[u] /\ call'[u] = call[u]
  BY <1>1 DEF IInv, TypeOK
<1>7. \/ list' = list /\ held' = [held EXCEPT ![t] = None]
      \/ /\ d.end > d.start /\ list' = add_lock_rec(list, Record(d))
         /\ held' = [held EXCEPT ![t] = d]
  BY <1>3 DEF LockGranted, LockReturn
<1>8. CASE list' = list /\ held' = [held EXCEPT ![t] = None]
  <2>1. held' = held
    BY <1>5, <1>8 DEF IInv, TypeOK
  <2>2. QED
    BY <1>1, <1>6, <1>8, <2>1, MovesOn
<1>9. CASE /\ d.end > d.start /\ list' = add_lock_rec(list, Record(d))
           /\ held' = [held EXCEPT ![t] = d]
  <2>1. PICK x \in LockRec :
          /\ x.start = d.start /\ x.end = d.end /\ x.type = d.type
          /\ Recs(list') = Recs(list) \cup {x} /\ x \notin Recs(list)
    BY <1>9, GrantAdds, Zenon
  <2>2. held'[t] = d /\ \A u \in Threads : u # t => held'[u] = held[u]
    BY <1>9 DEF IInv, TypeOK
  <2>3. d.type \in Types
    BY <1>2, <1>3 DEF Call
  <2>4. ASSUME NEW a \in Nat, Covers(d, a), NEW r \in At(Recs(list), a)
        PROVE  r.type = d.type /\ ~is_conflict(d.type, d.type)
    <3>1. PICK k \in DOMAIN list : r = list[k]
      BY DEF At, Recs
    <3>2. r \in LockRec
      BY <3>1 DEF IInv, TypeOK
    <3>3. r.start \in Nat /\ r.end \in Nat
      BY <3>2, RecordFields
    <3>4. Overlapping(r, d)
      BY <1>4, <2>4, <3>3 DEF At, Covers, Overlapping
    <3>5. ~is_conflict(d.type, r.type)
      BY <1>2, <1>3, <3>1, <3>4, GrantedClear, Zenon
    <3>6. r.type \in Types
      BY <2>4, Zenon DEF At, EInv, TypesOK
    <3>7. d.type = r.type
      BY <2>3, <3>5, <3>6, Zenon DEF Plain
    <3>8. QED
      BY <3>5, <3>7, Zenon
  <2>5. \A a \in Nat : ~Holds(t, a) /\ ~Gives(t, a) /\ ~Gives(t, a)' /\ (Holds(t, a)' <=> Covers(d, a))
    BY <1>1, <1>4, <1>5, <1>6, <2>2 DEF Holds, Gives
  <2>6. \A a \in Nat, u \in Threads : u # t =>
          (Holds(u, a)' <=> Holds(u, a)) /\ (Gives(u, a)' <=> Gives(u, a))
    BY <1>6, <2>2 DEF Holds, Gives
  <2>7. \A a \in Nat : Covers(x, a) <=> Covers(d, a)
    BY <2>1 DEF Covers
  <2>8. \A a \in Nat : IF Covers(d, a) THEN /\ Owners(a)' = Owners(a) \cup {t}
                                            /\ At(Recs(list'), a) = At(Recs(list), a) \cup {x}
                       ELSE Owners(a)' = Owners(a) /\ At(Recs(list'), a) = At(Recs(list), a)
    <3>1. TAKE a \in Nat
    <3>2. CASE Covers(d, a)
      <4>1. Owners(a)' = Owners(a) \cup {t}
        BY <2>5, <2>6, <3>2 DEF Owners
      <4>2. At(Recs(list'), a) = At(Recs(list), a) \cup {x}
        BY <2>1, <2>7, <3>2 DEF At
      <4>3. QED
        BY <3>2, <4>1, <4>2
    <3>3. CASE ~Covers(d, a)
      <4>1. Owners(a)' = Owners(a)
        BY <2>5, <2>6, <3>3 DEF Owners
      <4>2. At(Recs(list'), a) = At(Recs(list), a)
        BY <2>1, <2>7, <3>3 DEF At
      <4>3. QED
        BY <3>3, <4>1, <4>2
    <3>4. QED
      BY <3>2, <3>3
  <2>9. \A a \in Nat : t \notin Owners(a) /\ x \notin At(Recs(list), a)
    BY <2>1, <2>5 DEF Owners, At
  <2>10. CountOK'
    <3>1. SUFFICES ASSUME NEW a \in Nat
                   PROVE  /\ IsFiniteSet(Owners(a)') /\ IsFiniteSet(At(Recs(list'), a))
                          /\ Cardinality(Owners(a)') = Cardinality(At(Recs(list'), a))
      BY DEF CountOK
    <3>2. PICK A, B : A = Owners(a) /\ B = At(Recs(list), a)
      OBVIOUS
    <3>3. IsFiniteSet(A) /\ IsFiniteSet(B) /\ Cardinality(A) = Cardinality(B)
      BY <3>2, Zenon DEF EInv, CountOK
    <3>4. /\ IsFiniteSet(A \cup {t}) /\ Cardinality(A \cup {t}) = Cardinality(A) + 1
          /\ IsFiniteSet(B \cup {x}) /\ Cardinality(B \cup {x}) = Cardinality(B) + 1
      BY <2>9, <3>2, <3>3, Counting, Zenon
    <3>5. QED
      BY <2>8, <3>2, <3>3, <3>4, Zenon
  <2>11. TypesOK'
    <3>1. \A r \in Recs(list') : r.type \in Types
      BY <2>1, <2>3, Zenon DEF EInv, TypesOK
    <3>2. \A u \in Threads : held'[u] # None => held'[u].type \in Types
      BY <2>2, <2>3, Zenon DEF EInv, TypesOK
    <3>3. QED
      BY <3>1, <3>2, Zenon DEF TypesOK
  <2>12. ASSUME NEW a \in Nat
         PROVE  /\ \A r, q \in At(Recs(list'), a) : r # q => ~is_conflict(r.type, q.type)
                /\ \A u \in Threads, r \in At(Recs(list'), a) :
                     Holds(u, a)' => r.type = held'[u].type
    <3>1. /\ \A r, q \in At(Recs(list), a) : r # q => ~is_conflict(r.type, q.type)
          /\ \A u \in Threads, r \in At(Recs(list), a) : Holds(u, a) => r.type = held[u].type
      BY Zenon DEF EInv, ShareOK
    <3>2. CASE ~Covers(d, a)
      <4>1. At(Recs(list'), a) = At(Recs(list), a)
        BY <2>8, <3>2, Zenon
      <4>2. \A u \in Threads : Holds(u, a)' => Holds(u, a) /\ held'[u] = held[u]
        BY <2>2, <2>5, <2>6, <3>2, Zenon
      <4>3. QED
        BY <3>1, <4>1, <4>2, Zenon
    <3>3. CASE Covers(d, a)
      <4>1. At(Recs(list'), a) = At(Recs(list), a) \cup {x}
        BY <2>8, <3>3, Zenon
      <4>2. \A r \in At(Recs(list), a) : r.type = d.type /\ ~is_conflict(d.type, d.type)
        BY <2>4, <3>3, Zenon
      <4>3. \A r \in At(Recs(list'), a) : r.type = d.type
        BY <2>1, <4>1, <4>2, Zenon
      <4>4. \A r, q \in At(Recs(list'), a) : r # q => ~is_conflict(r.type, q.type)
        <5>1. SUFFICES ASSUME NEW r \in At(Recs(list'), a), NEW q \in At(Recs(list'), a), r # q
                       PROVE  ~is_conflict(d.type, d.type)
          BY <4>3, Zenon
        <5>2. r \in At(Recs(list), a) \/ q \in At(Recs(list), a)
          BY <4>1, <5>1, Zenon
        <5>3. QED
          BY <4>2, <5>2, Zenon
      <4>5. ASSUME NEW u \in Threads, Holds(u, a)'
            PROVE  held'[u].type = d.type
        <5>1. CASE u = t
          BY <2>2, <5>1
        <5>2. CASE u # t
          <6>1. Holds(u, a) /\ held'[u] = held[u]
            BY <2>2, <2>6, <4>5, <5>2, Zenon
          <6>2. PICK k \in DOMAIN list : Covers(list[k], a)
            BY <6>1, OwnedRecorded
          <6>3. list[k] \in At(Recs(list), a)
            BY <6>2 DEF At, Recs
          <6>4. list[k].type = held[u].type /\ list[k].type = d.type
            BY <3>1, <4>2, <6>1, <6>3, Zenon
          <6>5. QED
            BY <6>1, <6>4, Zenon
        <5>3. QED
          BY <5>1, <5>2
      <4>6. QED
        BY <4>3, <4>4, <4>5, Zenon
    <3>4. QED
      BY <3>2, <3>3
  <2>13. ShareOK'
    BY <2>12, Zenon DEF ShareOK
  <2>14. PartsOK'
    <3>1. SUFFICES ASSUME NEW u \in Threads
                   PROVE  /\ pc'[u] \in {"lock", "sleep"} => held'[u] = None
                          /\ held'[u] # None => held'[u].start < held'[u].end
                          /\ pc'[u] \in {"unlock", "loop"} => call'[u].start =< call'[u].end
                          /\ \A a \in Nat : ~(Holds(u, a)' /\ Gives(u, a)')
      BY DEF PartsOK
    <3>2. CASE u = t
      <4>1. d.start < d.end
        BY <1>4, <1>9
      <4>2. QED
        BY <1>6, <2>2, <2>5, <3>2, <4>1
    <3>3. CASE u # t
      BY <1>6, <2>2, <2>6, <3>3, Zenon DEF EInv, PartsOK
    <3>4. QED
      BY <3>2, <3>3
  <2>15. CursorOK'
    <3>1. \A u \in Threads : pc[u] # "loop"
      BY <1>1, MutexAssumption DEF EInv, CursorOK
    <3>2. \A u \in Threads : pc'[u] # "loop"
      BY <1>6, <3>1
    <3>3. QED
      BY <3>2 DEF CursorOK
  <2>16. QED
    BY <2>10, <2>11, <2>13, <2>14, <2>15 DEF EInv
<1>10. QED
  BY <1>7, <1>8, <1>9

(***************************************************************************)
(* r is s with what record l has between a and e put back, if there is     *)
(* anything.                                                               *)
(***************************************************************************)
PutBack(s, r, l, a, e) ==
  IF a < e
  THEN \E x \in LockRec : /\ x.start = a /\ x.end = e /\ x.type = l.type
                          /\ r = InsertSorted(s, x)
                          /\ Recs(r) = Recs(s) \cup {x} /\ x \notin Recs(s)
  ELSE r = s

(* add_lock_rec puts a leftover back when a native lock is free. *)
LEMMA PutBackIs ==
  ASSUME NEW s, GoodList(s), FreeNatives(s) # {}, NEW l \in LockRec, NEW x \in LockRec,
         x.type = l.type, x.start < x.end
  PROVE  /\ PutBack(s, add_lock_rec(s, x), l, x.start, x.end)
         /\ GoodList(add_lock_rec(s, x))
         /\ \E n \in FreeNatives(s) : FreeNatives(add_lock_rec(s, x)) = FreeNatives(s) \ {n}
<1>1. \A n \in Natives : /\ [x EXCEPT !.native_lock = n] \in LockRec
                         /\ [x EXCEPT !.native_lock = n].native_lock = n
  BY LeftoverReady, Zenon
<1>2. \A n \in Natives : /\ [x EXCEPT !.native_lock = n].start = x.start
                         /\ [x EXCEPT !.native_lock = n].end = x.end
                         /\ [x EXCEPT !.native_lock = n].type = x.type
  BY DEF LockRec
<1>3. PICK r : r = add_lock_rec(s, x)
  OBVIOUS
<1>4. PICK n \in FreeNatives(s) : \E y \in LockRec :
           /\ y = [x EXCEPT !.native_lock = n]
           /\ r = InsertSorted(s, y)
           /\ Recs(r) = Recs(s) \cup {y} /\ y \notin Recs(s)
           /\ FreeNatives(r) = FreeNatives(s) \ {n}
  BY <1>1, <1>3, AddIs, Zenon
<1>5. n \in Natives
  BY DEF FreeNatives
<1>6. GoodList(r)
  BY <1>1, <1>3, AddKeepsList, Zenon
<1>7. PutBack(s, r, l, x.start, x.end)
  BY <1>2, <1>4, <1>5, Zenon DEF PutBack
<1>8. QED
  BY <1>3, <1>4, <1>6, <1>7, Zenon

(* The part of a record below or above an address. *)
LEMMA LeftoverIs ==
  ASSUME NEW l \in LockRec, NEW a \in Nat
  PROVE  /\ \E x \in LockRec : /\ x = [l EXCEPT !.end = a] /\ x.start = l.start /\ x.end = a
                               /\ x.type = l.type
         /\ \E x \in LockRec : /\ x = [l EXCEPT !.start = a] /\ x.start = a /\ x.end = l.end
                               /\ x.type = l.type
<1>1. /\ [l EXCEPT !.end = a] \in LockRec
      /\ [l EXCEPT !.end = a].start = l.start /\ [l EXCEPT !.end = a].end = a
      /\ [l EXCEPT !.end = a].type = l.type
  BY DEF LockRec
<1>2. /\ [l EXCEPT !.start = a] \in LockRec
      /\ [l EXCEPT !.start = a].start = a /\ [l EXCEPT !.start = a].end = l.end
      /\ [l EXCEPT !.start = a].type = l.type
  BY DEF LockRec
<1>3. QED
  BY <1>1, <1>2, Zenon

(* What the turn makes of the list, given two free native locks. *)
LEMMA TurnIs ==
  ASSUME NEW s, GoodList(s), NEW m \in FreeNatives(s), NEW n \in FreeNatives(s), m # n,
         NEW l \in LockRec, NEW d \in Desc
  PROVE  \E s1, s2 :
           /\ s1 = WithLower(s, l, d) /\ s2 = WithUpper(s1, l, d)
           /\ PutBack(s, s1, l, l.start, d.start) /\ PutBack(s1, s2, l, d.end, l.end)
           /\ GoodList(s1) /\ GoodList(s2)
<1>1. l.start \in Nat /\ l.end \in Nat /\ d.start \in Nat /\ d.end \in Nat
  BY RecordFields DEF Desc
<1>2. PICK s1 : s1 = WithLower(s, l, d)
  OBVIOUS
<1>3. PICK s2 : s2 = WithUpper(s1, l, d)
  OBVIOUS
<1>4. /\ PutBack(s, s1, l, l.start, d.start) /\ GoodList(s1)
      /\ FreeNatives(s1) # {}
  <2>1. CASE l.start < d.start
    <3>1. PICK x \in LockRec : x = [l EXCEPT !.end = d.start] /\ x.start = l.start
                               /\ x.end = d.start /\ x.type = l.type
      BY <1>1, LeftoverIs, Zenon
    <3>2. s1 = add_lock_rec(s, x)
      BY <1>2, <2>1, <3>1, Zenon DEF WithLower
    <3>3. FreeNatives(s) # {} /\ x.start < x.end
      BY <2>1, <3>1
    <3>4. /\ PutBack(s, s1, l, x.start, x.end) /\ GoodList(s1)
          /\ \E k \in FreeNatives(s) : FreeNatives(s1) = FreeNatives(s) \ {k}
      BY <3>1, <3>2, <3>3, PutBackIs, Zenon
    <3>5. FreeNatives(s1) # {}
      <4>1. PICK k \in FreeNatives(s) : FreeNatives(s1) = FreeNatives(s) \ {k}
        BY <3>4, Zenon
      <4>2. m \in FreeNatives(s1) \/ n \in FreeNatives(s1)
        BY <4>1, Zenon
      <4>3. QED
        BY <4>2
    <3>6. QED
      BY <3>1, <3>4, <3>5, Zenon
  <2>2. CASE ~(l.start < d.start)
    <3>1. s1 = s
      BY <1>2, <2>2, Zenon DEF WithLower
    <3>2. FreeNatives(s) # {}
      OBVIOUS
    <3>3. QED
      BY <2>2, <3>1, <3>2, Zenon DEF PutBack
  <2>3. QED
    BY <2>1, <2>2
<1>5. PutBack(s1, s2, l, d.end, l.end) /\ GoodList(s2)
  <2>1. CASE l.end > d.end
    <3>1. PICK x \in LockRec : x = [l EXCEPT !.start = d.end] /\ x.start = d.end
                               /\ x.end = l.end /\ x.type = l.type
      BY <1>1, LeftoverIs, Zenon
    <3>2. s2 = add_lock_rec(s1, x)
      BY <1>3, <2>1, <3>1, Zenon DEF WithUpper
    <3>3. x.start < x.end
      BY <1>1, <2>1, <3>1
    <3>4. PutBack(s1, s2, l, x.start, x.end) /\ GoodList(s2)
      BY <1>4, <3>1, <3>2, <3>3, PutBackIs, Zenon
    <3>5. QED
      BY <3>1, <3>4, Zenon
  <2>2. CASE ~(l.end > d.end)
    <3>1. s2 = s1
      BY <1>3, <2>2, Zenon DEF WithUpper
    <3>2. ~(d.end < l.end)
      BY <1>1, <2>2
    <3>3. QED
      BY <1>4, <3>1, <3>2, Zenon DEF PutBack
  <2>3. QED
    BY <2>1, <2>2
<1>6. QED
  BY <1>2, <1>3, <1>4, <1>5, Zenon

(***************************************************************************)
(* The records on address a after a turn that took out l: the same where l *)
(* was not, one less on the region given back, and a leftover instead of l *)
(* beside it.                                                              *)
(***************************************************************************)
TurnOn(s, r, l, d, a) ==
  /\ ~Covers(l, a) => At(Recs(r), a) = At(Recs(s), a)
  /\ Covers(l, a) /\ Covers(d, a) => At(Recs(r), a) = At(Recs(s), a) \ {l}
  /\ Covers(l, a) /\ ~Covers(d, a) =>
       \E x \in LockRec : /\ x \notin Recs(s) /\ x.type = l.type
                          /\ At(Recs(r), a) = (At(Recs(s), a) \ {l}) \cup {x}
  /\ \A q \in Recs(r) : q \in Recs(s) \/ q.type = l.type

LEMMA TurnAt ==
  ASSUME NEW s, NEW s1, NEW s2, NEW r, NEW l \in LockRec, l \in Recs(s), NEW d \in Desc,
         PutBack(s, s1, l, l.start, d.start), PutBack(s1, s2, l, d.end, l.end),
         Recs(r) = Recs(s2) \ {l}, l.start =< d.start, d.start < l.end, d.start < d.end,
         NEW a \in Nat
  PROVE  TurnOn(s, r, l, d, a)
<1>1. l.start \in Nat /\ l.end \in Nat /\ d.start \in Nat /\ d.end \in Nat
  BY RecordFields DEF Desc
<1>2. PICK L : /\ Recs(s1) = Recs(s) \cup L
               /\ IF l.start < d.start
                  THEN \E x \in LockRec : /\ x.start = l.start /\ x.end = d.start /\ x.type = l.type
                                          /\ x \notin Recs(s) /\ L = {x}
                  ELSE L = {}
  <2>1. CASE l.start < d.start
    <3>1. PICK x \in LockRec : /\ x.start = l.start /\ x.end = d.start /\ x.type = l.type
                               /\ Recs(s1) = Recs(s) \cup {x} /\ x \notin Recs(s)
      BY <2>1, Zenon DEF PutBack
    <3>2. QED
      BY <2>1, <3>1, Zenon
  <2>2. CASE ~(l.start < d.start)
    <3>1. Recs(s1) = Recs(s) \cup {}
      BY <2>2, Zenon DEF PutBack
    <3>2. QED
      BY <2>2, <3>1, Zenon
  <2>3. QED
    BY <2>1, <2>2, Zenon
<1>3. PICK U : /\ Recs(s2) = Recs(s1) \cup U
               /\ IF d.end < l.end
                  THEN \E x \in LockRec : /\ x.start = d.end /\ x.end = l.end /\ x.type = l.type
                                          /\ x \notin Recs(s1) /\ U = {x}
                  ELSE U = {}
  <2>1. CASE d.end < l.end
    <3>1. PICK x \in LockRec : /\ x.start = d.end /\ x.end = l.end /\ x.type = l.type
                               /\ Recs(s2) = Recs(s1) \cup {x} /\ x \notin Recs(s1)
      BY <2>1, Zenon DEF PutBack
    <3>2. QED
      BY <2>1, <3>1, Zenon
  <2>2. CASE ~(d.end < l.end)
    <3>1. Recs(s2) = Recs(s1) \cup {}
      BY <2>2, Zenon DEF PutBack
    <3>2. QED
      BY <2>2, <3>1, Zenon
  <2>3. QED
    BY <2>1, <2>2, Zenon
<1>4. PICK S, R : S = Recs(s) /\ R = Recs(r)
  OBVIOUS
<1>5. R = (S \cup L \cup U) \ {l}
  BY <1>2, <1>3, <1>4, Zenon
<1>6. /\ \A x \in L : x \in LockRec /\ x.type = l.type /\ x \notin S
      /\ \A x \in L : Covers(x, a) => Covers(l, a) /\ a < d.start
      /\ Covers(l, a) /\ a < d.start => \E x \in L : Covers(x, a) /\ L = {x}
  BY <1>1, <1>2, <1>4 DEF Covers
<1>7. \A x \in U : x \in LockRec /\ x.type = l.type /\ x \notin S
  <2>1. \A x \in U : x \in LockRec /\ x.type = l.type /\ x \notin Recs(s1)
    BY <1>3
  <2>2. QED
    BY <1>2, <1>4, <2>1
<1>8. /\ \A x \in U : Covers(x, a) => Covers(l, a) /\ a >= d.end
      /\ Covers(l, a) /\ a >= d.end => \E x \in U : Covers(x, a) /\ U = {x}
  BY <1>1, <1>3 DEF Covers
<1>9. l \in S
  BY <1>4
<1>10. Covers(l, a) /\ ~Covers(d, a) => a < d.start \/ a >= d.end
  BY <1>1 DEF Covers
<1>11. ~Covers(l, a) => At(R, a) = At(S, a)
  BY <1>5, <1>6, <1>8 DEF At
<1>12. Covers(l, a) /\ Covers(d, a) => At(R, a) = At(S, a) \ {l}
  <2>1. Covers(d, a) => ~(a < d.start) /\ ~(a >= d.end)
    BY <1>1 DEF Covers
  <2>2. QED
    BY <1>5, <1>6, <1>8, <2>1 DEF At
<1>13. ASSUME Covers(l, a), a < d.start
       PROVE  \E x \in LockRec : /\ x \notin S /\ x.type = l.type
                                 /\ At(R, a) = (At(S, a) \ {l}) \cup {x}
  <2>1. PICK x \in L : Covers(x, a) /\ L = {x}
    BY <1>6, <1>13
  <2>2. \A y \in U : ~Covers(y, a)
    BY <1>1, <1>8, <1>13
  <2>3. x # l /\ x \notin S /\ x \in LockRec /\ x.type = l.type
    BY <1>6, <1>9, <2>1
  <2>4. At(R, a) = (At(S, a) \ {l}) \cup {x}
    BY <1>5, <2>1, <2>2, <2>3 DEF At
  <2>5. QED
    BY <2>3, <2>4
<1>14. ASSUME Covers(l, a), a >= d.end
       PROVE  \E x \in LockRec : /\ x \notin S /\ x.type = l.type
                                 /\ At(R, a) = (At(S, a) \ {l}) \cup {x}
  <2>1. PICK x \in U : Covers(x, a) /\ U = {x}
    BY <1>8, <1>14
  <2>2. \A y \in L : ~Covers(y, a)
    BY <1>1, <1>6, <1>14
  <2>3. x # l /\ x \notin S /\ x \in LockRec /\ x.type = l.type
    BY <1>7, <1>9, <2>1
  <2>4. At(R, a) = (At(S, a) \ {l}) \cup {x}
    BY <1>5, <2>1, <2>2, <2>3 DEF At
  <2>5. QED
    BY <2>3, <2>4
<1>15. \A q \in R : q \in S \/ q.type = l.type
  BY <1>5, <1>6, <1>7, Zenon
<1>16. QED
  BY <1>4, <1>10, <1>11, <1>12, <1>13, <1>14, <1>15, Zenon DEF TurnOn

(* The first record that a turn finds covers the start of the region, and  *)
(* all before it end there.                                                *)
LEMMA TurnFinds ==
  ASSUME IInv, EInv, NEW t \in Threads, pc[t] = "loop", NEW d \in Desc, d = call[t],
         Candidates(d, cursor[t]) # {}
  PROVE  /\ d.start < d.end
         /\ First(Candidates(d, cursor[t])) \in DOMAIN list
         /\ Covers(list[First(Candidates(d, cursor[t]))], d.start)
         /\ \A k \in DOMAIN list : k < First(Candidates(d, cursor[t])) => list[k].end =< d.start
<1>1. d.start \in Nat /\ d.end \in Nat
  BY DEF Desc
<1>2. d.start =< d.end
  BY DEF EInv, PartsOK
<1>3. PICK c \in Nat : c = cursor[t] /\ c >= 1
  BY DEF IInv, TypeOK, CallsOK
<1>4. PICK C : C = Candidates(d, c)
  OBVIOUS
<1>5. d.start < d.end /\ C = Found(list, d, c)
  BY <1>1, <1>2, <1>3, <1>4 DEF Candidates
<1>6. /\ list \in Seq(LockRec) /\ DOMAIN list = 1 .. Len(list) /\ Len(list) \in Nat
      /\ SortedByStart(list)
  BY DEF IInv, TypeOK, ListSorted
<1>7. \A j \in DOMAIN list : list[j].start \in Nat /\ list[j].end \in Nat
  BY <1>6, RecordFields
<1>8. C \subseteq DOMAIN list /\ \A k \in C : Overlapping(list[k], d)
  BY <1>3, <1>5, <1>6, FoundInList
<1>9. C # {} /\ C \subseteq Nat
  BY <1>3, <1>4, <1>6, <1>8
<1>10. PICK i \in C : i = First(C) /\ \A j \in C : i =< j
  BY <1>9, FirstIsLeast
<1>11. i \in DOMAIN list /\ i \in Nat
  BY <1>8, <1>9
<1>12. PICK k \in C : k \in DOMAIN list /\ Covers(list[k], d.start)
  BY <1>3, <1>4, <1>5, LoopMeets
<1>13. list[i].start =< list[k].start
  <2>1. i = k \/ i < k
    BY <1>9, <1>10, <1>11, <1>12
  <2>2. i < k => list[i].start =< list[k].start
    BY <1>6, <1>11, <1>12 DEF SortedByStart
  <2>3. QED
    BY <1>7, <1>11, <2>1, <2>2
<1>14. Covers(list[i], d.start)
  <2>1. list[k].start =< d.start
    BY <1>12 DEF Covers
  <2>2. list[i].end > d.start
    BY <1>8 DEF Overlapping
  <2>3. QED
    BY <1>1, <1>7, <1>11, <1>12, <1>13, <2>1, <2>2 DEF Covers
<1>15. ASSUME NEW m \in DOMAIN list, m < i
       PROVE  list[m].end =< d.start
  <2>1. CASE m < c
    BY <1>3, <1>5, <2>1 DEF EInv, CursorOK
  <2>2. CASE m >= c
    <3>1. m \in Nat /\ m \notin C
      BY <1>6, <1>10, <1>11, <1>15
    <3>2. ~Overlapping(list[m], d)
      <4>1. \A j \in DOMAIN list : list[j].start \in Int
        BY <1>7
      <4>2. d.end \in Int
        BY <1>1
      <4>3. QED
        BY <1>3, <1>5, <1>6, <2>2, <3>1, <4>1, <4>2, SearchMeetsAll
    <3>3. list[m].start =< list[i].start
      BY <1>6, <1>11, <1>15 DEF SortedByStart
    <3>4. list[i].start =< d.start
      BY <1>14 DEF Covers
    <3>5. QED
      BY <1>1, <1>5, <1>7, <1>11, <3>2, <3>3, <3>4 DEF Overlapping
  <2>3. QED
    BY <1>3, <1>6, <2>1, <2>2
<1>16. QED
  BY <1>3, <1>4, <1>5, <1>10, <1>11, <1>14, <1>15, Zenon

(* Nothing before the new cursor reaches beyond the start of the region.   *)
LEMMA TurnCursor ==
  ASSUME NEW s, GoodList(s), NEW i \in DOMAIN s, NEW l \in LockRec, l = s[i], NEW d \in Desc,
         \A k \in DOMAIN s : k < i => s[k].end =< d.start,
         NEW s1, PutBack(s, s1, l, l.start, d.start), GoodList(s1), NEW r, r = remove_lock_rec(s1, l),
         NEW c, c = IF s1 = s THEN i ELSE i + 1
  PROVE  \A k \in DOMAIN r : k < c => r[k].end =< d.start
<1>1. l.start \in Nat /\ d.start \in Nat
  BY RecordFields DEF Desc
<1>2. s \in Seq(LockRec) /\ Len(s) \in Nat /\ DOMAIN s = 1 .. Len(s)
  BY DEF GoodList
<1>3. CASE ~(l.start < d.start)
  <2>1. s1 = s /\ c = i
    BY <1>3, Zenon DEF PutBack
  <2>2. r = RemoveAt(s, i)
    BY <2>1, RemoveIs, Zenon
  <2>3. /\ r \in Seq(LockRec) /\ Len(r) = Len(s) - 1
        /\ \A k \in 1 .. (Len(s) - 1) : r[k] = IF k < i THEN s[k] ELSE s[k + 1]
    BY <1>2, <2>2, RemoveAtFacts, Zenon
  <2>4. DOMAIN r = 1 .. (Len(s) - 1)
    BY <2>3
  <2>5. ASSUME NEW k \in DOMAIN r, k < c
        PROVE  r[k].end =< d.start
    <3>1. k \in 1 .. (Len(s) - 1) /\ k < i /\ k \in DOMAIN s
      BY <1>2, <2>1, <2>4, <2>5
    <3>2. r[k] = s[k]
      BY <2>3, <3>1
    <3>3. QED
      BY <3>1, <3>2
  <2>6. QED
    BY <2>5
<1>4. CASE l.start < d.start
  <2>1. PICK x \in LockRec : x.start = l.start /\ x.end = d.start /\ s1 = InsertSorted(s, x)
    BY <1>4, Zenon DEF PutBack
  <2>2. PICK p : p = PlaceOf(s, x)
    OBVIOUS
  <2>3. /\ p \in 1 .. (Len(s) + 1)
        /\ \A k \in 1 .. (p - 1) : ~(s[k].start >= x.start)
    BY <1>2, <2>2, PlaceInList, Zenon
  <2>4. /\ s1 \in Seq(LockRec) /\ Len(s1) = Len(s) + 1
        /\ \A k \in 1 .. (Len(s) + 1) : s1[k] = IF k < p THEN s[k] ELSE IF k = p THEN x ELSE s[k - 1]
    <3>1. /\ InsertSorted(s, x) \in Seq(LockRec) /\ Len(InsertSorted(s, x)) = Len(s) + 1
          /\ \A k \in 1 .. (Len(s) + 1) :
               InsertSorted(s, x)[k] = IF k < PlaceOf(s, x) THEN s[k]
                                       ELSE IF k = PlaceOf(s, x) THEN x ELSE s[k - 1]
      BY <1>2, InsertSortedFacts, ZenonT(30)
    <3>2. QED
      BY <2>1, <2>2, <3>1, Zenon
  <2>5. DOMAIN s1 = 1 .. (Len(s) + 1)
    BY <1>2, <2>4
  <2>6. p =< i
    BY <1>1, <1>2, <2>1, <2>3
  <2>7. i + 1 \in DOMAIN s1 /\ s1[i + 1] = l
    <3>1. i + 1 \in 1 .. (Len(s) + 1) /\ ~(i + 1 < p) /\ i + 1 # p /\ (i + 1) - 1 = i
      BY <1>2, <2>3, <2>6
    <3>2. s1[i + 1] = s[(i + 1) - 1]
      BY <2>4, <3>1, Zenon
    <3>3. QED
      BY <2>5, <3>1, <3>2, Zenon
  <2>8. PICK j \in DOMAIN s1 : j = i + 1 /\ l = s1[j]
    BY <2>7
  <2>9. r = RemoveAt(s1, j)
    BY <2>8, RemoveIs, Zenon
  <2>10. j \in 1 .. Len(s1)
    BY <2>4, <2>5, <2>8
  <2>11. /\ r \in Seq(LockRec) /\ Len(r) = Len(s1) - 1
         /\ \A k \in 1 .. (Len(s1) - 1) : r[k] = IF k < j THEN s1[k] ELSE s1[k + 1]
    BY <2>4, <2>9, <2>10, RemoveAtFacts, Zenon
  <2>12. DOMAIN r = 1 .. Len(s)
    BY <1>2, <2>4, <2>11
  <2>13. c = i \/ c = i + 1
    OBVIOUS
  <2>14. ASSUME NEW k \in DOMAIN r, k < c
         PROVE  r[k].end =< d.start
    <3>1. k \in 1 .. Len(s) /\ k =< i /\ k < j /\ k \in 1 .. (Len(s1) - 1) /\ k \in 1 .. (Len(s) + 1)
      BY <1>2, <2>4, <2>8, <2>12, <2>13, <2>14
    <3>2. r[k] = s1[k]
      BY <2>11, <3>1, Zenon
    <3>3. CASE k < p
      <4>1. s1[k] = s[k] /\ k \in DOMAIN s /\ k < i
        BY <1>2, <2>3, <2>4, <2>6, <3>1, <3>3
      <4>2. QED
        BY <3>2, <4>1
    <3>4. CASE k = p
      <4>1. s1[k] = x
        BY <2>3, <2>4, <3>1, <3>4
      <4>2. QED
        BY <1>1, <2>1, <3>2, <4>1
    <3>5. CASE k > p
      <4>1. s1[k] = s[k - 1] /\ k - 1 \in DOMAIN s /\ k - 1 < i
        BY <1>2, <2>3, <2>4, <2>6, <3>1, <3>5
      <4>2. QED
        BY <3>2, <4>1
    <3>6. QED
      BY <1>2, <2>3, <3>1, <3>3, <3>4, <3>5
  <2>15. QED
    BY <2>14
<1>5. QED
  BY <1>3, <1>4

(* A turn takes one record and one owner from each address of the region it clears. *)
LEMMA UnlockTurnShare ==
  ASSUME IInv, EInv, NativesSuffice, NEW t \in Threads, UnlockTurn(t)
  PROVE  EInv'
<1>1. pc[t] = "loop" /\ call[t] \in Desc /\ cursor[t] \in Nat
  BY DEF UnlockTurn, IInv, CallsOK, TypeOK
<1>2. PICK d \in Desc : d = call[t]
  BY <1>1
<1>3. d.start \in Nat /\ d.end \in Nat
  BY DEF Desc
<1>4. list \in Seq(LockRec) /\ DOMAIN list = 1 .. Len(list) /\ Len(list) \in Nat /\ GoodList(list)
  BY ListGood DEF IInv, TypeOK
<1>5. Candidates(d, cursor[t]) # {}
  BY <1>2 DEF UnlockTurn
<1>6. PICK i \in DOMAIN list :
        /\ i = First(Candidates(d, cursor[t])) /\ d.start < d.end /\ Covers(list[i], d.start)
        /\ \A k \in DOMAIN list : k < i => list[k].end =< d.start
  BY <1>1, <1>2, <1>5, TurnFinds, Zenon
<1>7. PICK l \in LockRec : l = list[i]
  BY <1>4
<1>8. l.start \in Nat /\ l.end \in Nat /\ l.start =< d.start /\ d.start < l.end
  BY <1>6, <1>7, RecordFields DEF Covers
<1>9. PICK m \in FreeNatives(list), n \in FreeNatives(list) : m # n
  BY DEF NativesSuffice
<1>10. PICK s1, s2 :
           /\ s1 = WithLower(list, l, d) /\ s2 = WithUpper(s1, l, d)
           /\ PutBack(list, s1, l, l.start, d.start) /\ PutBack(s1, s2, l, d.end, l.end)
           /\ GoodList(s1) /\ GoodList(s2)
  BY <1>4, <1>9, TurnIs, Zenon
<1>11. PICK r : r = remove_lock_rec(s2, l)
  OBVIOUS
<1>12. PICK e : e = IF l.end > d.end THEN d.end ELSE l.end
  OBVIOUS
<1>13. PICK c : c = IF s1 = list THEN i ELSE i + 1
  OBVIOUS
<1>14. /\ list' = r /\ call' = [call EXCEPT ![t].start = e] /\ cursor' = [cursor EXCEPT ![t] = c]
       /\ Wake(WokenFrom(l.native_lock)) /\ mutex' = mutex /\ held' = held
  <2>1. /\ list' = remove_lock_rec(WithUpper(WithLower(list, l, d), l, d), l)
        /\ call' = [call EXCEPT ![t].start = IF l.end > d.end THEN d.end ELSE l.end]
        /\ cursor' = [cursor EXCEPT ![t] = IF WithLower(list, l, d) = list THEN i ELSE i + 1]
        /\ Wake(WokenFrom(l.native_lock)) /\ mutex' = mutex /\ held' = held
    BY <1>2, <1>6, <1>7, Zenon DEF UnlockTurn
  <2>2. QED
    BY <1>10, <1>11, <1>12, <1>13, <2>1, Zenon
<1>15. e \in Nat /\ d.start < e /\ e =< d.end /\ e =< l.end /\ (e = d.end \/ e = l.end)
  BY <1>3, <1>6, <1>8, <1>12
<1>16. /\ call'[t] = [d EXCEPT !.start = e]
       /\ \A u \in Threads : u # t => call'[u] = call[u]
  BY <1>2, <1>14 DEF IInv, TypeOK
<1>17. call'[t].start = e /\ call'[t].end = d.end
  BY <1>16 DEF Desc
<1>18. /\ pc'[t] = "loop"
       /\ \A u \in Threads : pc'[u] = pc[u] \/ (pc[u] = "sleep" /\ pc'[u] = "lock")
  BY <1>1, <1>14 DEF Wake, WokenFrom
<1>19. \A u \in Threads, a \in Nat : u # t => (Gives(u, a)' <=> Gives(u, a))
  BY <1>16, <1>18 DEF Gives
<1>20. \A u \in Threads, a \in Nat : Holds(u, a)' <=> Holds(u, a)
  BY <1>14 DEF Holds
<1>21. \A a \in Nat : /\ Gives(t, a) <=> Covers(d, a)
                      /\ Gives(t, a)' <=> Covers(d, a) /\ ~Covers(l, a)
  <2>1. TAKE a \in Nat
  <2>2. Gives(t, a) <=> Covers(d, a)
    BY <1>1, <1>2 DEF Gives
  <2>3. Gives(t, a)' <=> e =< a /\ a < d.end
    BY <1>17, <1>18 DEF Gives, Covers
  <2>4. e =< a /\ a < d.end <=> Covers(d, a) /\ ~Covers(l, a)
    BY <1>3, <1>8, <1>15 DEF Covers
  <2>5. QED
    BY <2>2, <2>3, <2>4
<1>22. Recs(list') = Recs(s2) \ {l} /\ l \in Recs(list)
  <2>1. l \in Recs(list)
    BY <1>7, Zenon DEF Recs
  <2>2. l \in Recs(s1)
    BY <1>10, <2>1, Zenon DEF PutBack
  <2>3. l \in Recs(s2)
    BY <1>10, <2>2, Zenon DEF PutBack
  <2>4. PICK j \in DOMAIN s2 : l = s2[j]
    BY <2>3, Zenon DEF Recs
  <2>5. Recs(r) = Recs(s2) \ {l}
    <3>1. GoodList(s2)
      BY <1>10
    <3>2. Recs(remove_lock_rec(s2, l)) = Recs(s2) \ {l}
      BY <2>4, <3>1, RemoveIs, Zenon
    <3>3. QED
      BY <1>11, <3>2, Zenon
  <2>6. QED
    BY <1>14, <2>1, <2>5, Zenon
<1>23. \A a \in Nat : TurnOn(list, list', l, d, a)
  <2>1. /\ l \in Recs(list) /\ Recs(r) = Recs(s2) \ {l}
        /\ PutBack(list, s1, l, l.start, d.start) /\ PutBack(s1, s2, l, d.end, l.end)
        /\ l.start =< d.start /\ d.start < l.end /\ d.start < d.end
    BY <1>6, <1>8, <1>10, <1>14, <1>22, Zenon
  <2>2. \A a \in Nat : TurnOn(list, r, l, d, a)
    BY <2>1, TurnAt
  <2>3. QED
    BY <1>14, <2>2, Zenon
<1>24. \A a \in Nat : IF Covers(l, a) /\ Covers(d, a) THEN Owners(a)' = Owners(a) \ {t}
                                                        ELSE Owners(a)' = Owners(a)
  <2>1. TAKE a \in Nat
  <2>2. CASE Covers(l, a) /\ Covers(d, a)
    <3>1. ~Holds(t, a)
      BY <1>21, <2>2 DEF EInv, PartsOK
    <3>2. Owners(a)' = Owners(a) \ {t}
      BY <1>19, <1>20, <1>21, <2>2, <3>1 DEF Owners
    <3>3. QED
      BY <2>2, <3>2
  <2>3. CASE ~(Covers(l, a) /\ Covers(d, a))
    <3>1. Gives(t, a)' <=> Gives(t, a)
      BY <1>21, <2>3
    <3>2. Owners(a)' = Owners(a)
      BY <1>19, <1>20, <3>1 DEF Owners
    <3>3. QED
      BY <2>3, <3>2
  <2>4. QED
    BY <2>2, <2>3
<1>25. CountOK'
  <2>1. SUFFICES ASSUME NEW a \in Nat
                 PROVE  /\ IsFiniteSet(Owners(a)') /\ IsFiniteSet(At(Recs(list'), a))
                        /\ Cardinality(Owners(a)') = Cardinality(At(Recs(list'), a))
    BY DEF CountOK
  <2>2. PICK A, B : A = Owners(a) /\ B = At(Recs(list), a)
    OBVIOUS
  <2>3. IsFiniteSet(A) /\ IsFiniteSet(B) /\ Cardinality(A) = Cardinality(B)
    BY <2>2, Zenon DEF EInv, CountOK
  <2>4. Covers(l, a) => l \in B
    BY <1>22, <2>2, Zenon DEF At
  <2>5. Covers(d, a) => t \in A
    BY <1>21, <2>2, Zenon DEF Owners
  <2>6. CASE ~Covers(l, a)
    <3>1. Owners(a)' = A /\ At(Recs(list'), a) = B
      BY <1>23, <1>24, <2>2, <2>6, Zenon DEF TurnOn
    <3>2. QED
      BY <2>3, <3>1, Zenon
  <2>7. CASE Covers(l, a) /\ Covers(d, a)
    <3>1. Owners(a)' = A \ {t} /\ At(Recs(list'), a) = B \ {l}
      BY <1>23, <1>24, <2>2, <2>7, Zenon DEF TurnOn
    <3>2. /\ IsFiniteSet(A \ {t}) /\ Cardinality(A \ {t}) = Cardinality(A) - 1
          /\ IsFiniteSet(B \ {l}) /\ Cardinality(B \ {l}) = Cardinality(B) - 1
      BY <2>3, <2>4, <2>5, <2>7, Counting, Zenon
    <3>3. QED
      BY <2>3, <3>1, <3>2, Zenon
  <2>8. CASE Covers(l, a) /\ ~Covers(d, a)
    <3>1. PICK x : x \notin Recs(list) /\ At(Recs(list'), a) = (B \ {l}) \cup {x}
      BY <1>23, <2>2, <2>8, Zenon DEF TurnOn
    <3>2. x \notin B
      BY <2>2, <3>1, Zenon DEF At
    <3>3. Owners(a)' = A
      BY <1>24, <2>2, <2>8, Zenon
    <3>4. /\ IsFiniteSet((B \ {l}) \cup {x})
          /\ Cardinality((B \ {l}) \cup {x}) = Cardinality(B)
      BY <2>3, <2>4, <2>8, <3>2, Counting, Zenon
    <3>5. QED
      BY <2>3, <3>1, <3>3, <3>4, Zenon
  <2>9. QED
    BY <2>6, <2>7, <2>8
<1>26. TypesOK'
  <2>1. l.type \in Types
    BY <1>22, Zenon DEF EInv, TypesOK
  <2>2. \A q \in Recs(list') : q \in Recs(list) \/ q.type = l.type
    BY <1>3, <1>23, Zenon DEF TurnOn
  <2>3. \A q \in Recs(list') : q.type \in Types
    BY <2>1, <2>2, Zenon DEF EInv, TypesOK
  <2>4. \A u \in Threads : held'[u] # None => held'[u].type \in Types
    BY <1>14, Zenon DEF EInv, TypesOK
  <2>5. QED
    BY <2>3, <2>4, Zenon DEF TypesOK
<1>27. ASSUME NEW a \in Nat
       PROVE  /\ \A p, q \in At(Recs(list'), a) : p # q => ~is_conflict(p.type, q.type)
              /\ \A u \in Threads, q \in At(Recs(list'), a) :
                   Holds(u, a)' => q.type = held'[u].type
  <2>1. /\ \A p, q \in At(Recs(list), a) : p # q => ~is_conflict(p.type, q.type)
        /\ \A u \in Threads, q \in At(Recs(list), a) : Holds(u, a) => q.type = held[u].type
    BY Zenon DEF EInv, ShareOK
  <2>2. \A u \in Threads : Holds(u, a)' => Holds(u, a) /\ held'[u] = held[u]
    BY <1>14, <1>20, Zenon
  <2>3. CASE ~(Covers(l, a) /\ ~Covers(d, a))
    <3>1. \A q \in At(Recs(list'), a) : q \in At(Recs(list), a)
      BY <1>23, <2>3, Zenon DEF TurnOn
    <3>2. QED
      BY <2>1, <2>2, <3>1, Zenon
  <2>4. CASE Covers(l, a) /\ ~Covers(d, a)
    <3>1. PICK x : x.type = l.type /\ At(Recs(list'), a) = (At(Recs(list), a) \ {l}) \cup {x}
      BY <1>23, <2>4, Zenon DEF TurnOn
    <3>2. l \in At(Recs(list), a)
      BY <1>22, <2>4, Zenon DEF At
    <3>3. QED
      BY <2>1, <2>2, <3>1, <3>2, Zenon
  <2>5. QED
    BY <2>3, <2>4
<1>28. ShareOK'
  BY <1>27, Zenon DEF ShareOK
<1>29. PartsOK'
  <2>1. SUFFICES ASSUME NEW u \in Threads
                 PROVE  /\ pc'[u] \in {"lock", "sleep"} => held'[u] = None
                        /\ held'[u] # None => held'[u].start < held'[u].end
                        /\ pc'[u] \in {"unlock", "loop"} => call'[u].start =< call'[u].end
                        /\ \A a \in Nat : ~(Holds(u, a)' /\ Gives(u, a)')
    BY DEF PartsOK
  <2>2. held'[u] = held[u]
    BY <1>14
  <2>3. CASE u = t
    <3>1. \A a \in Nat : ~(Holds(u, a)' /\ Gives(u, a)')
      BY <1>20, <1>21, <2>3 DEF EInv, PartsOK
    <3>2. held[u] # None => held[u].start < held[u].end
      BY DEF EInv, PartsOK
    <3>3. QED
      BY <1>15, <1>17, <1>18, <2>2, <2>3, <3>1, <3>2
  <2>4. CASE u # t
    <3>1. \A a \in Nat : ~(Holds(u, a)' /\ Gives(u, a)')
      BY <1>19, <1>20, <2>4 DEF EInv, PartsOK
    <3>2. call'[u] = call[u]
      BY <1>16, <2>4
    <3>3. QED
      BY <1>18, <2>2, <3>1, <3>2 DEF EInv, PartsOK
  <2>5. QED
    BY <2>3, <2>4
<1>30. CursorOK'
  <2>1. SUFFICES ASSUME NEW u \in Threads, pc'[u] = "loop"
                 PROVE  /\ mutex' = u
                        /\ call'[u].start < call'[u].end =>
                             \A k \in DOMAIN list' : k < cursor'[u] => list'[k].end =< call'[u].start
    BY DEF CursorOK
  <2>2. mutex = t
    BY <1>1 DEF EInv, CursorOK
  <2>3. u = t
    BY <1>18, <2>1, <2>2 DEF EInv, CursorOK
  <2>4. cursor'[t] = c
    BY <1>14 DEF IInv, TypeOK
  <2>5. ASSUME e < d.end, NEW k \in DOMAIN list', k < c
        PROVE  list'[k].end =< e
    <3>1. ~(d.end < l.end)
      BY <1>3, <1>8, <1>12, <2>5
    <3>2. s2 = s1
      BY <1>10, <3>1, Zenon DEF PutBack
    <3>3. list' = remove_lock_rec(s1, l)
      BY <1>11, <1>14, <3>2, Zenon
    <3>4. \A j \in DOMAIN r : j < c => r[j].end =< d.start
      <4>1. /\ GoodList(list) /\ GoodList(s1) /\ l = list[i] /\ r = remove_lock_rec(s1, l)
            /\ PutBack(list, s1, l, l.start, d.start) /\ c = IF s1 = list THEN i ELSE i + 1
            /\ \A j \in DOMAIN list : j < i => list[j].end =< d.start
        BY <1>4, <1>6, <1>7, <1>10, <1>11, <1>13, <3>2, Zenon
      <4>2. QED
        BY <4>1, TurnCursor
    <3>5. list'[k].end =< d.start
      BY <1>14, <2>5, <3>4, Zenon
    <3>6. GoodList(r)
      <4>1. l \in Recs(s1)
        BY <1>10, <1>22, Zenon DEF PutBack
      <4>2. PICK j \in DOMAIN s1 : l = s1[j]
        BY <4>1, Zenon DEF Recs
      <4>3. l.native_lock = s1[j].native_lock
        BY <4>2
      <4>4. QED
        BY <1>10, <1>11, <3>2, <4>3, RemoveKeepsList, Zenon
    <3>7. list'[k] \in LockRec
      BY <1>14, <2>5, <3>6 DEF GoodList
    <3>8. list'[k].end \in Nat
      BY <3>7, RecordFields
    <3>9. QED
      BY <1>3, <1>15, <3>5, <3>8
  <2>6. QED
    BY <1>14, <1>17, <2>2, <2>3, <2>4, <2>5, Zenon
<1>31. QED
  BY <1>25, <1>26, <1>28, <1>29, <1>30 DEF EInv

(* In the beginning nobody owns anything. *)
LEMMA InitShare == Init => EInv
<1> SUFFICES ASSUME Init PROVE EInv
  OBVIOUS
<1>1. \A a \in Nat, t \in Threads : ~Holds(t, a) /\ ~Gives(t, a)
  BY DEF Init, Holds, Gives
<1>2. Recs(list) = {}
  BY DEF Init, Recs
<1>3. \A a \in Nat : Owners(a) = {} /\ At(Recs(list), a) = {}
  BY <1>1, <1>2 DEF Owners, At
<1>4. CountOK
  BY <1>3, FS_EmptySet DEF CountOK
<1>5. TypesOK
  BY <1>2 DEF TypesOK, Init
<1>6. ShareOK
  BY <1>3 DEF ShareOK
<1>7. PartsOK
  BY <1>1 DEF PartsOK, Init
<1>8. CursorOK
  BY DEF CursorOK, Init
<1>9. QED
  BY <1>4, <1>5, <1>6, <1>7, <1>8 DEF EInv

(* Every step keeps EInv. *)
LEMMA NextShare ==
  ASSUME Plain, IInv, EInv, NativesSuffice, [Next]_vars
  PROVE  EInv'
<1>1. CASE Next
  <2>1. PICK t \in Threads :
          \/ \E r \in Requests, y \in Types, a \in action_t : CallLock(t, r, y, a)
          \/ lock_op(t)
          \/ SpuriousWakeup(t)
          \/ UnlockSome(t)
          \/ unlock_op(t)
    BY <1>1 DEF Next
  <2>2. CASE \E r \in Requests, y \in Types, a \in action_t : CallLock(t, r, y, a)
    BY <2>2, CallLockShare
  <2>3. CASE lock_op(t)
    BY <2>3, LockNothingShare, LockWaitShare, LockGrantedShare DEF lock_op
  <2>4. CASE SpuriousWakeup(t)
    BY <2>4, SpuriousWakeupShare
  <2>5. CASE UnlockSome(t)
    BY <2>5, UnlockSomeShare
  <2>6. CASE unlock_op(t)
    BY <2>6, UnlockBeginShare, UnlockTurnShare, UnlockEndShare DEF unlock_op
  <2>7. QED
    BY <2>1, <2>2, <2>3, <2>4, <2>5, <2>6
<1>2. CASE UNCHANGED vars
  <2>1. /\ list' = list /\ mutex' = mutex /\ pc' = pc /\ call' = call /\ cursor' = cursor
        /\ held' = held
    BY <1>2 DEF vars
  <2>2. \A a \in Nat : Owners(a)' = Owners(a)
    BY <2>1 DEF Owners, Holds, Gives
  <2>3. CountOK' /\ TypesOK' /\ ShareOK' /\ PartsOK' /\ CursorOK'
    BY <2>1, <2>2 DEF EInv, CountOK, TypesOK, ShareOK, PartsOK, CursorOK, Holds, Gives
  <2>4. QED
    BY <2>3 DEF EInv
<1>3. QED
  BY <1>1, <1>2

(* Two owners have two records. *)
LEMMA TwoRecords ==
  ASSUME EInv, NEW a \in Nat, NEW t \in Owners(a), NEW u \in Owners(a), t # u
  PROVE  \E r, q \in At(Recs(list), a) : r # q
<1>1. PICK A, B : A = Owners(a) /\ B = At(Recs(list), a)
  OBVIOUS
<1>2. IsFiniteSet(A) /\ IsFiniteSet(B) /\ Cardinality(A) = Cardinality(B) /\ t \in A /\ u \in A
  BY <1>1, Zenon DEF EInv, CountOK
<1>3. Cardinality(A) # 0 /\ Cardinality(A) # 1
  <2>1. A # {} /\ \A x : A # {x}
    BY <1>2
  <2>2. QED
    BY <1>2, <2>1, FS_EmptySet, FS_Singleton, Zenon
<1>4. B # {} /\ \A x : B # {x}
  BY <1>2, <1>3, FS_EmptySet, FS_Singleton, Zenon
<1>5. PICK r \in B : TRUE
  BY <1>4
<1>6. PICK q \in B : r # q
  BY <1>4, <1>5
<1>7. QED
  BY <1>1, <1>6, Zenon

(* Two holders of one address lie on two records, which do not conflict. *)
LEMMA ExclusionFollows ==
  ASSUME IInv, EInv
  PROVE  HoldersExcluded
<1>1. SUFFICES ASSUME NEW t \in Threads, NEW u \in Threads, t # u, held[t] # None, held[u] # None,
                      Overlapping(held[t], held[u]), is_conflict(held[t].type, held[u].type)
               PROVE  FALSE
  BY DEF HoldersExcluded
<1>2. PICK x \in Desc, y \in Desc : x = held[t] /\ y = held[u]
  BY <1>1 DEF IInv, TypeOK
<1>3. x.start \in Nat /\ x.end \in Nat /\ y.start \in Nat /\ y.end \in Nat
  BY DEF Desc
<1>4. x.start < x.end /\ y.start < y.end
  BY <1>1, <1>2 DEF EInv, PartsOK
<1>5. x.end > y.start /\ x.start < y.end
  BY <1>1, <1>2 DEF Overlapping
<1>6. PICK a \in Nat : Covers(x, a) /\ Covers(y, a)
  <2>1. CASE x.start =< y.start
    BY <1>3, <1>4, <1>5, <2>1 DEF Covers
  <2>2. CASE ~(x.start =< y.start)
    <3>1. Covers(x, x.start) /\ Covers(y, x.start)
      BY <1>3, <1>4, <1>5, <2>2 DEF Covers
    <3>2. QED
      BY <1>3, <3>1
  <2>3. QED
    BY <2>1, <2>2
<1>7. Holds(t, a) /\ Holds(u, a)
  BY <1>1, <1>2, <1>6 DEF Holds
<1>8. t \in Owners(a) /\ u \in Owners(a)
  BY <1>7 DEF Owners
<1>9. PICK r \in At(Recs(list), a), q \in At(Recs(list), a) : r # q
  BY <1>1, <1>8, TwoRecords, Zenon
<1>10. ~is_conflict(r.type, q.type) /\ r.type = held[t].type /\ q.type = held[u].type
  BY <1>7, <1>9, Zenon DEF EInv, ShareOK
<1>11. QED
  BY <1>1, <1>10, Zenon

(* The positions of the records on an address are as many as the records. *)
LEMMA PositionsCount ==
  ASSUME IInv, EInv, NEW a \in Nat, NEW P, P = {i \in DOMAIN list : Covers(list[i], a)}
  PROVE  IsFiniteSet(P) /\ Cardinality(P) = Cardinality(At(Recs(list), a))
<1>1. PICK B : B = At(Recs(list), a)
  OBVIOUS
<1>2. IsFiniteSet(B)
  BY <1>1, Zenon DEF EInv, CountOK
<1>3. \A i, j \in DOMAIN list : i # j => list[i] # list[j]
  BY DEF IInv, NativesApart, Apart
<1>4. PICK f : f = [i \in P |-> list[i]]
  OBVIOUS
<1>5. f \in Bijection(P, B)
  <2>1. \A i \in P : list[i] \in B
    BY <1>1 DEF At, Recs
  <2>2. f \in [P -> B]
    BY <1>4, <2>1
  <2>3. \A i, j \in P : i # j => f[i] # f[j]
    BY <1>3, <1>4
  <2>4. \A r \in B : \E i \in P : f[i] = r
    BY <1>1, <1>4 DEF At, Recs
  <2>5. QED
    BY <2>2, <2>3, <2>4 DEF Bijection, Injection, Surjection, IsInjective
<1>6. ExistsBijection(P, B)
  BY <1>5 DEF ExistsBijection
<1>7. ExistsBijection(B, P)
  BY <1>6, Fun_ExistsBijSymmetric
<1>8. QED
  BY <1>1, <1>2, <1>7, FS_Bijection

(* Where no $unlock is under way, the owners are the holders. *)
LEMMA BackedFollows ==
  ASSUME IInv, EInv
  PROVE  HoldingsBacked
<1>1. SUFFICES ASSUME Quiet, NEW a \in LockedAddrs, NEW y \in Types
               PROVE  Cardinality(Holding(a, y)) = Cardinality(Covering(a, y))
  BY DEF HoldingsBacked
<1>2. a \in Nat
  BY MutexAssumption DEF LockedAddrs
<1>3. PICK A, B : A = Owners(a) /\ B = At(Recs(list), a)
  OBVIOUS
<1>4. IsFiniteSet(A) /\ IsFiniteSet(B) /\ Cardinality(A) = Cardinality(B)
  BY <1>2, <1>3, Zenon DEF EInv, CountOK
<1>5. \A t \in Threads : ~Gives(t, a)
  BY <1>1 DEF Quiet, Gives
<1>6. A = {t \in Threads : Holds(t, a)}
  BY <1>3, <1>5 DEF Owners
<1>7. PICK P : P = {i \in DOMAIN list : Covers(list[i], a)}
  OBVIOUS
<1>8. Cardinality(P) = Cardinality(A)
  BY <1>2, <1>3, <1>4, <1>7, PositionsCount, Zenon
<1>9. Holding(a, y) = {t \in A : held[t].type = y}
  BY <1>6 DEF Holding, Holds, Covers
<1>10. Covering(a, y) = {i \in P : list[i].type = y}
  BY <1>7 DEF Covering, Covers
<1>11. \A i \in P : list[i] \in B
  BY <1>3, <1>7 DEF At, Recs
<1>12. \A t \in A, i \in P : list[i].type = held[t].type
  <2>1. TAKE t \in A, i \in P
  <2>2. t \in Threads /\ Holds(t, a) /\ list[i] \in At(Recs(list), a)
    BY <1>3, <1>6, <1>11
  <2>3. QED
    BY <1>2, <2>2, Zenon DEF EInv, ShareOK
<1>13. A = {} <=> P = {}
  <2>1. IsFiniteSet(P)
    BY <1>2, <1>7, PositionsCount, Zenon
  <2>2. QED
    BY <1>4, <1>8, <2>1, FS_EmptySet, Zenon
<1>14. CASE A = {}
  <2>1. Holding(a, y) = {} /\ Covering(a, y) = {}
    BY <1>9, <1>10, <1>13, <1>14
  <2>2. QED
    BY <2>1, Zenon
<1>15. CASE A # {}
  <2>1. PICK t \in A, i \in P : TRUE
    BY <1>13, <1>15
  <2>2. PICK z : z = list[i].type
    OBVIOUS
  <2>3. (\A u \in A : held[u].type = z) /\ \A j \in P : list[j].type = z
    BY <1>12, <2>1, <2>2, Zenon
  <2>4. CASE y = z
    <3>1. Holding(a, y) = A /\ Covering(a, y) = P
      BY <1>9, <1>10, <2>3, <2>4
    <3>2. QED
      BY <1>8, <3>1, Zenon
  <2>5. CASE y # z
    <3>1. Holding(a, y) = {} /\ Covering(a, y) = {}
      BY <1>9, <1>10, <2>3, <2>5
    <3>2. QED
      BY <3>1, Zenon
  <2>6. QED
    BY <2>4, <2>5
<1>16. QED
  BY <1>14, <1>15

(* EInv holds in every reachable state. *)
LEMMA SharedInvariant ==
  ASSUME Plain
  PROVE  Spec /\ []NativesSuffice => []EInv
<1>1. Init => EInv
  BY InitShare
<1>2. IInv /\ EInv /\ NativesSuffice /\ [Next]_vars => EInv'
  BY NextShare
<1>3. QED
  BY <1>1, <1>2, Invariant, PTL DEF Spec

(***************************************************************************)
(* Mutual exclusion of lock_mutex: what two users believe to hold never    *)
(* conflicts where it overlaps, although $unlock takes out whichever       *)
(* record it meets first.  This needs types that do not lie on one address *)
(* unless they are the same, and native locks for the leftovers.           *)
(***************************************************************************)
THEOREM Exclusion ==
  ASSUME Plain
  PROVE  Spec /\ []NativesSuffice => []HoldersExcluded
<1>1. IInv /\ EInv => HoldersExcluded
  BY ExclusionFollows
<1>2. QED
  BY <1>1, SharedInvariant, Invariant, PTL

(***************************************************************************)
(* Locks and unlocks of lock_mutex add up: with no $unlock under way, each *)
(* address is covered by one record for each user that holds it, of the    *)
(* user's type.                                                            *)
(***************************************************************************)
THEOREM Backing ==
  ASSUME Plain
  PROVE  Spec /\ []NativesSuffice => []HoldingsBacked
<1>1. IInv /\ EInv => HoldingsBacked
  BY BackedFollows
<1>2. QED
  BY <1>1, SharedInvariant, Invariant, PTL
==============================================================================
