-------------------------- MODULE LockUlinuxProofs --------------------------
(***************************************************************************)
(* Proofs about LockUlinux, for any threads, mandates, lock types, regions *)
(* and any length of the list: type correctness, mutual exclusion, the     *)
(* absence of lost wakeups, and the refinement of RegionLock.              *)
(*                                                                         *)
(* Every step changes the list in one of a few ways, so the argument goes  *)
(* through two relations between the old and the new list.  Derived says   *)
(* that every new record is a part of an old one of the same mandate and   *)
(* type; it carries NoConflict and RecordsNonEmpty over every step of      *)
(* lock_sub.  Kept says that every old record is still there, with its     *)
(* waiters, unless the waiters were woken; it carries SleepersHaveReason   *)
(* over every step of lock_add and lock_sub.                               *)
(***************************************************************************)
EXTENDS LockUlinux, SequenceTheorems, TLAPS

------------------------------------------------------------------------------
(* The matrix confl of lock_ulinux.ath is symmetric: lock_add looks a pair *)
(* up in one order only.                                                   *)
LEMMA ConflSymmetric == \A s, t \in UlinuxTypes : Confl(s, t) = Confl(t, s)
  BY DEF UlinuxTypes, Confl, confl

(* Unlinking element i moves the later ones up by one place. *)
LEMMA RemoveAtFacts ==
  ASSUME NEW s \in Seq(Record), NEW i \in 1 .. Len(s)
  PROVE /\ RemoveAt(s, i) \in Seq(Record)
        /\ Len(RemoveAt(s, i)) = Len(s) - 1
        /\ \A j \in 1 .. (Len(s) - 1) :
             RemoveAt(s, i)[j] = IF j < i THEN s[j] ELSE s[j + 1]
<1> DEFINE lo == SubSeq(s, 1, i - 1)
           hi == SubSeq(s, i + 1, Len(s))
<1>1. lo \in Seq(Record) /\ Len(lo) = i - 1 /\ \A j \in 1 .. (i - 1) : lo[j] = s[j]
  OBVIOUS
<1>2. /\ hi \in Seq(Record) /\ Len(hi) = Len(s) - i
      /\ \A j \in 1 .. (Len(s) - i) : hi[j] = s[i + j]
  OBVIOUS
<1> HIDE DEF lo, hi
<1>3. /\ lo \o hi \in Seq(Record)
      /\ Len(lo \o hi) = Len(lo) + Len(hi)
      /\ \A j \in 1 .. (Len(lo) + Len(hi)) :
           (lo \o hi)[j] = IF j <= Len(lo) THEN lo[j] ELSE hi[j - Len(lo)]
  BY <1>1, <1>2, ConcatProperties
<1>4. Len(lo) + Len(hi) = Len(s) - 1
  BY <1>1, <1>2
<1>5. ASSUME NEW j \in 1 .. (Len(s) - 1)
      PROVE (lo \o hi)[j] = IF j < i THEN s[j] ELSE s[j + 1]
  <2>1. CASE j < i
    BY <2>1, <1>1, <1>3, <1>4
  <2>2. CASE ~(j < i)
    <3>1. (lo \o hi)[j] = hi[j - (i - 1)]
      BY <2>2, <1>1, <1>3, <1>4
    <3>2. j - (i - 1) \in 1 .. (Len(s) - i)
      BY <2>2
    <3>3. hi[j - (i - 1)] = s[i + (j - (i - 1))]
      BY <1>2, <3>2
    <3> QED
      BY <2>2, <3>1, <3>3
  <2> QED
    BY <2>1, <2>2
<1>6. RemoveAt(s, i) = lo \o hi
  BY DEF RemoveAt, lo, hi
<1> QED
  BY <1>3, <1>4, <1>5, <1>6

(* Linking a record in at place i moves the old element i down. *)
LEMMA InsertAtFacts ==
  ASSUME NEW s \in Seq(Record), NEW i \in 1 .. Len(s), NEW e \in Record
  PROVE /\ InsertAt(s, i, e) \in Seq(Record)
        /\ Len(InsertAt(s, i, e)) = Len(s) + 1
        /\ InsertAt(s, i, e)[i] = e
        /\ \A j \in 1 .. (i - 1) : InsertAt(s, i, e)[j] = s[j]
        /\ \A j \in i .. Len(s) : InsertAt(s, i, e)[j + 1] = s[j]
<1> DEFINE lo == SubSeq(s, 1, i - 1)
           hi == SubSeq(s, i, Len(s))
           le == lo \o <<e>>
<1>1. lo \in Seq(Record) /\ Len(lo) = i - 1 /\ \A j \in 1 .. (i - 1) : lo[j] = s[j]
  OBVIOUS
<1>2. /\ hi \in Seq(Record) /\ Len(hi) = Len(s) - i + 1
      /\ \A j \in 1 .. (Len(s) - i + 1) : hi[j] = s[i + j - 1]
  OBVIOUS
<1> HIDE DEF lo, hi
<1>3. /\ le \in Seq(Record)
      /\ Len(le) = i
      /\ \A j \in 1 .. i : le[j] = IF j < i THEN s[j] ELSE e
  <2>1. /\ <<e>> \in Seq(Record) /\ Len(<<e>>) = 1 /\ <<e>>[1] = e
    OBVIOUS
  <2>2. /\ le \in Seq(Record)
        /\ Len(le) = Len(lo) + 1
        /\ \A j \in 1 .. (Len(lo) + 1) :
             le[j] = IF j <= Len(lo) THEN lo[j] ELSE <<e>>[j - Len(lo)]
    BY <1>1, <2>1, ConcatProperties
  <2> QED
    BY <1>1, <2>1, <2>2
<1> HIDE DEF le
<1>4. /\ le \o hi \in Seq(Record)
      /\ Len(le \o hi) = Len(le) + Len(hi)
      /\ \A j \in 1 .. (Len(le) + Len(hi)) :
           (le \o hi)[j] = IF j <= Len(le) THEN le[j] ELSE hi[j - Len(le)]
  BY <1>2, <1>3, ConcatProperties
<1>5. Len(le) + Len(hi) = Len(s) + 1
  BY <1>2, <1>3
<1>6. ASSUME NEW j \in 1 .. (Len(s) + 1)
      PROVE (le \o hi)[j] = IF j < i THEN s[j] ELSE IF j = i THEN e ELSE s[j - 1]
  <2>1. CASE j =< i
    BY <2>1, <1>3, <1>4, <1>5
  <2>2. CASE ~(j =< i)
    <3>1. (le \o hi)[j] = hi[j - i]
      BY <2>2, <1>3, <1>4, <1>5
    <3>2. j - i \in 1 .. (Len(s) - i + 1)
      BY <2>2
    <3>3. hi[j - i] = s[i + (j - i) - 1]
      BY <1>2, <3>2
    <3> QED
      BY <2>2, <3>1, <3>3
  <2> QED
    BY <2>1, <2>2
<1>7. InsertAt(s, i, e) = le \o hi
  BY DEF InsertAt, lo, hi, le
<1>8. \A j \in i .. Len(s) : (le \o hi)[j + 1] = s[j]
  <2> SUFFICES ASSUME NEW j \in i .. Len(s) PROVE (le \o hi)[j + 1] = s[j]
    OBVIOUS
  <2>1. j + 1 \in 1 .. (Len(s) + 1) /\ ~(j + 1 < i) /\ j + 1 # i /\ (j + 1) - 1 = j
    OBVIOUS
  <2> QED
    BY <2>1, <1>6
<1> QED
  BY <1>4, <1>5, <1>6, <1>7, <1>8

(* Splitting element i: up in front of lo, in the place of the element. *)
SplitAt(s, i, lo, up) == InsertAt(ReplaceAt(s, i, lo), i, up)

IsSplit(q, s, i, lo, up) ==
  /\ q \in Seq(Record)
  /\ Len(q) = Len(s) + 1
  /\ q[i] = up
  /\ q[i + 1] = lo
  /\ \A j \in 1 .. (i - 1) : q[j] = s[j]
  /\ \A j \in (i + 1) .. Len(s) : q[j + 1] = s[j]

(* Linking in the upper remainder in front of the shortened element gives
   the list that lock_sub leaves behind a split. *)
LEMMA SplitFacts ==
  ASSUME NEW s \in Seq(Record), NEW i \in 1 .. Len(s), NEW lo \in Record, NEW up \in Record
  PROVE IsSplit(SplitAt(s, i, lo, up), s, i, lo, up)
<1> DEFINE cut == ReplaceAt(s, i, lo)
<1>1. /\ cut \in Seq(Record) /\ Len(cut) = Len(s) /\ cut[i] = lo
      /\ \A j \in 1 .. Len(s) : j # i => cut[j] = s[j]
  BY DEF ReplaceAt
<1> HIDE DEF cut
<1>2. i \in 1 .. Len(cut)
  BY <1>1
<1>3. /\ InsertAt(cut, i, up) \in Seq(Record)
      /\ Len(InsertAt(cut, i, up)) = Len(cut) + 1
      /\ InsertAt(cut, i, up)[i] = up
      /\ \A j \in 1 .. (i - 1) : InsertAt(cut, i, up)[j] = cut[j]
      /\ \A j \in i .. Len(cut) : InsertAt(cut, i, up)[j + 1] = cut[j]
  BY <1>1, <1>2, InsertAtFacts
<1> QED
  BY <1>1, <1>3 DEF cut, SplitAt, IsSplit

(* A new head of the list moves every element down. *)
IsCons(q, s, e) ==
  /\ q \in Seq(Record)
  /\ Len(q) = Len(s) + 1
  /\ q[1] = e
  /\ \A j \in 1 .. Len(s) : q[j + 1] = s[j]

(* lock_add's insertion at the head moves every element down by one. *)
LEMMA ConsFacts ==
  ASSUME NEW s \in Seq(Record), NEW e \in Record
  PROVE IsCons(Cons(e, s), s, e)
  BY DEF Cons, IsCons

------------------------------------------------------------------------------
(* A request in progress is a proper call; one that locks names a real,    *)
(* non-empty region and a type in use.                                     *)
CallsOK ==
  \A t \in Threads :
    /\ pc[t] # "idle" => new[t] \in Call
    /\ pc[t] \in {"add", "sleep"} => new[t].type \in Types /\ new[t].start < new[t].end

(* The condition variables: a thread waits on one record only, and a thread *)
(* in a record's queue is asleep.                                           *)
QueuesOK ==
  \A i \in DOMAIN anchor : \A u \in anchor[i].queue :
    /\ pc[u] = "sleep"
    /\ \A j \in DOMAIN anchor : u \in anchor[j].queue => j = i

IInv == /\ TypeOK /\ CallsOK /\ QueuesOK
        /\ RecordsNonEmpty /\ NoConflict /\ SleepersHaveReason

(* Every record of the new list is a non-empty part of a record of the old *)
(* one, of the same mandate and type.                                      *)
Derived ==
  \A k \in DOMAIN anchor' :
    /\ anchor'[k].start < anchor'[k].end
    /\ \E i \in DOMAIN anchor :
         /\ anchor'[k].mandate = anchor[i].mandate
         /\ anchor'[k].type = anchor[i].type
         /\ anchor[i].start =< anchor'[k].start
         /\ anchor'[k].end =< anchor[i].end

(* Every record of the old list is still in the new one, with its waiters  *)
(* other than thread t, unless all its waiters are in Q.                   *)
Kept(Q, t) ==
  \A i \in DOMAIN anchor :
    \/ anchor[i].queue \subseteq Q
    \/ \E k \in DOMAIN anchor' :
         /\ anchor'[k].start = anchor[i].start
         /\ anchor'[k].end = anchor[i].end
         /\ anchor'[k].mandate = anchor[i].mandate
         /\ anchor'[k].type = anchor[i].type
         /\ anchor[i].queue \ {t} \subseteq anchor'[k].queue

(* The types of a list element's fields. *)
LEMMA AnchorTyped ==
  ASSUME TypeOK, NEW i \in DOMAIN anchor
  PROVE /\ anchor[i] \in Record
        /\ anchor[i].start \in Nat /\ anchor[i].end \in Nat
        /\ anchor[i].mandate \in Mandates /\ anchor[i].type \in Types
        /\ anchor[i].queue \in SUBSET Threads
<1>1. anchor \in Seq(Record)
  BY DEF TypeOK
<1>2. anchor[i] \in Record
  BY <1>1
<1> QED
  BY <1>2 DEF Record

(* A step that only takes parts of records away preserves exclusion. *)
LEMMA DerivedPreserves ==
  ASSUME TypeOK, TypeOK', NoConflict, Derived
  PROVE NoConflict' /\ RecordsNonEmpty'
<1>1. RecordsNonEmpty'
  BY DEF Derived, RecordsNonEmpty
<1>2. ASSUME NEW k \in DOMAIN anchor', NEW l \in DOMAIN anchor',
             anchor'[k].mandate # anchor'[l].mandate,
             Overlaps(anchor'[k], anchor'[l])
      PROVE ~Confl(anchor'[k].type, anchor'[l].type)
  <2>1. PICK i \in DOMAIN anchor :
          /\ anchor'[k].mandate = anchor[i].mandate
          /\ anchor'[k].type = anchor[i].type
          /\ anchor[i].start =< anchor'[k].start
          /\ anchor'[k].end =< anchor[i].end
    BY DEF Derived
  <2>2. PICK j \in DOMAIN anchor :
          /\ anchor'[l].mandate = anchor[j].mandate
          /\ anchor'[l].type = anchor[j].type
          /\ anchor[j].start =< anchor'[l].start
          /\ anchor'[l].end =< anchor[j].end
    BY DEF Derived
  <2>3. /\ anchor[i] \in Record /\ anchor[j] \in Record
        /\ anchor'[k] \in Record /\ anchor'[l] \in Record
    BY DEF TypeOK
  <2>4. Overlaps(anchor[i], anchor[j])
    BY <1>2, <2>1, <2>2, <2>3 DEF Overlaps, Record
  <2> QED
    BY <1>2, <2>1, <2>2, <2>4 DEF NoConflict
<1> QED
  BY <1>1, <1>2 DEF NoConflict

(* A step that keeps the records, or wakes their waiters, loses no wakeup. *)
LEMMA KeptPreserves ==
  ASSUME NEW t \in Threads, NEW Q, SleepersHaveReason, Kept(Q, t),
         pc'[t] # "sleep",
         \A u \in Threads \ {t} :
           pc'[u] = "sleep" => pc[u] = "sleep" /\ u \notin Q /\ new'[u] = new[u]
  PROVE SleepersHaveReason'
<1> SUFFICES ASSUME NEW u \in Threads, pc'[u] = "sleep"
             PROVE \E k \in Conflicts(new[u])' : u \in anchor'[k].queue
  BY DEF SleepersHaveReason
<1>1. u # t /\ pc[u] = "sleep" /\ u \notin Q /\ new'[u] = new[u]
  OBVIOUS
<1>2. PICK i \in Conflicts(new[u]) : u \in anchor[i].queue
  BY <1>1 DEF SleepersHaveReason
<1>3. /\ i \in DOMAIN anchor /\ anchor[i].mandate # new[u].mandate
      /\ Overlaps(anchor[i], new[u]) /\ Confl(anchor[i].type, new[u].type)
  BY <1>2 DEF Conflicts
<1>4. PICK k \in DOMAIN anchor' :
        /\ anchor'[k].start = anchor[i].start
        /\ anchor'[k].end = anchor[i].end
        /\ anchor'[k].mandate = anchor[i].mandate
        /\ anchor'[k].type = anchor[i].type
        /\ anchor[i].queue \ {t} \subseteq anchor'[k].queue
  BY <1>1, <1>2, <1>3 DEF Kept
<1>5. k \in Conflicts(new[u])'
  BY <1>1, <1>3, <1>4 DEF Conflicts, Overlaps
<1>6. u \in anchor'[k].queue
  BY <1>1, <1>2, <1>4
<1> QED
  BY <1>5, <1>6

(* Every queue of the new list is empty or the queue of an old record      *)
(* other than b, and no thread is in two of them.                          *)
QueuesFrom(b) ==
  /\ \A k \in DOMAIN anchor' :
       \/ anchor'[k].queue = {}
       \/ \E i \in DOMAIN anchor \ {b} : anchor'[k].queue = anchor[i].queue
  /\ \A k, l \in DOMAIN anchor' :
       k # l => anchor'[k].queue \cap anchor'[l].queue = {}

(* Waking the waiters of record b leaves the other queues in order. *)
LEMMA QueuesMoved ==
  ASSUME TypeOK, QueuesOK, NEW b \in DOMAIN anchor, NEW t \in Threads,
         pc[t] # "sleep",
         \A u \in Threads \ {t} : pc'[u] = Woken(anchor[b].queue)[u],
         QueuesFrom(b)
  PROVE QueuesOK'
<1> SUFFICES ASSUME NEW k \in DOMAIN anchor', NEW u \in anchor'[k].queue
             PROVE /\ pc'[u] = "sleep"
                   /\ \A l \in DOMAIN anchor' : u \in anchor'[l].queue => l = k
  BY DEF QueuesOK
<1>1. PICK i \in DOMAIN anchor \ {b} : anchor'[k].queue = anchor[i].queue
  BY DEF QueuesFrom
<1>2. /\ pc[u] = "sleep"
      /\ \A j \in DOMAIN anchor : u \in anchor[j].queue => j = i
  BY <1>1 DEF QueuesOK
<1>3. u \in Threads /\ u # t
  BY <1>1, <1>2, AnchorTyped
<1>4. u \notin anchor[b].queue
  BY <1>1, <1>2
<1>5. pc'[u] = "sleep"
  BY <1>2, <1>3, <1>4 DEF Woken
<1>6. \A l \in DOMAIN anchor' : u \in anchor'[l].queue => l = k
  BY DEF QueuesFrom
<1> QED
  BY <1>5, <1>6

------------------------------------------------------------------------------
(* The actions that leave the list alone. *)
LEMMA QuietPreserves ==
  ASSUME IInv, UNCHANGED anchor, TypeOK', CallsOK', NEW t \in Threads,
         pc[t] # "sleep", pc'[t] # "sleep",
         \A u \in Threads \ {t} : pc'[u] = pc[u] /\ new'[u] = new[u]
  PROVE IInv'
<1>1. NoConflict' /\ RecordsNonEmpty'
  BY DEF IInv, NoConflict, RecordsNonEmpty
<1>2. Kept({}, t)
  BY DEF Kept
<1>3. SleepersHaveReason'
  BY <1>2, KeptPreserves DEF IInv
<1>4. QueuesOK'
  <2>1. \A i \in DOMAIN anchor : anchor[i].queue \subseteq Threads
    BY AnchorTyped DEF IInv
  <2> QED
    BY <2>1 DEF IInv, QueuesOK
<1> QED
  BY <1>1, <1>3, <1>4 DEF IInv

(* One turn of lock_sub's loop that changes a record wakes its waiters. *)
LEMMA SubPreserves ==
  ASSUME IInv, NEW t \in Threads, InLoop(t),
         anchor' \in Seq(Record), Derived, Kept(Elem(t).queue, t),
         QueuesFrom(base[t]),
         pc' = Woken(Elem(t).queue), base' = [base EXCEPT ![t] = @ + 1],
         UNCHANGED <<mutex, new, success>>
  PROVE IInv'
<1> DEFINE Q == Elem(t).queue
<1>1. /\ base[t] \in DOMAIN anchor /\ Q \in SUBSET Threads
      /\ \A u \in Q : pc[u] = "sleep"
      /\ pc[t] = "sub"
  BY AnchorTyped DEF IInv, InLoop, Elem, QueuesOK
<1>2. TypeOK'
  BY <1>1 DEF IInv, TypeOK, Woken
<1>3. CallsOK'
  BY <1>1 DEF IInv, TypeOK, CallsOK, Woken
<1>4. NoConflict' /\ RecordsNonEmpty'
  BY <1>2, DerivedPreserves DEF IInv
<1>5. QueuesOK'
  BY <1>1, QueuesMoved DEF IInv, Elem
<1>6. SleepersHaveReason'
  <2>1. pc'[t] # "sleep"
    BY <1>1 DEF Woken
  <2>2. \A u \in Threads \ {t} :
          pc'[u] = "sleep" => pc[u] = "sleep" /\ u \notin Q /\ new'[u] = new[u]
    BY DEF Woken
  <2> QED
    BY <2>1, <2>2, KeptPreserves DEF IInv
<1> QED
  BY <1>2, <1>3, <1>4, <1>5, <1>6 DEF IInv

(* What a turn of the loop knows about the element under its cursor. *)
LEMMA ElemTyped ==
  ASSUME IInv, NEW t \in Threads, InLoop(t)
  PROVE /\ base[t] \in 1 .. Len(anchor) /\ base[t] \in DOMAIN anchor
        /\ anchor \in Seq(Record)
        /\ Elem(t) = anchor[base[t]] /\ Elem(t) \in Record
        /\ Elem(t).start \in Nat /\ Elem(t).end \in Nat
        /\ Elem(t).start < Elem(t).end
        /\ new[t] \in Call /\ new[t].start \in Nat /\ new[t].end \in Nat
        /\ pc[t] = "sub"
<1>1. base[t] \in DOMAIN anchor /\ pc[t] = "sub"
  BY DEF InLoop
<1>2. anchor \in Seq(Record)
  BY DEF IInv, TypeOK
<1>3. new[t] \in Call
  BY <1>1 DEF IInv, CallsOK
<1>4. new[t].start \in Nat /\ new[t].end \in Nat
  BY <1>3 DEF Call
<1> QED
  BY <1>1, <1>2, <1>3, <1>4, AnchorTyped DEF IInv, Elem, RecordsNonEmpty

(* lock_sub: a record that lost an end. *)
LEMMA ReplacePreserves ==
  ASSUME IInv, NEW t \in Threads, InLoop(t), NEW s \in Nat, NEW e \in Nat,
         Elem(t).start =< s, s < e, e =< Elem(t).end,
         anchor' = ReplaceAt(anchor, base[t],
                             [Elem(t) EXCEPT !.start = s, !.end = e, !.queue = {}]),
         pc' = Woken(Elem(t).queue), base' = [base EXCEPT ![t] = @ + 1],
         UNCHANGED <<mutex, new, success>>
  PROVE IInv'
<1> DEFINE b == base[t]
           r == [Elem(t) EXCEPT !.start = s, !.end = e, !.queue = {}]
<1>1. /\ b \in 1 .. Len(anchor) /\ b \in DOMAIN anchor /\ anchor \in Seq(Record)
      /\ Elem(t) = anchor[b] /\ Elem(t) \in Record
  BY ElemTyped
<1>2. /\ r \in Record /\ r.start = s /\ r.end = e /\ r.queue = {}
      /\ r.mandate = Elem(t).mandate /\ r.type = Elem(t).type
  BY <1>1 DEF Record
<1> HIDE DEF r
<1>3. /\ anchor' \in Seq(Record) /\ DOMAIN anchor' = DOMAIN anchor
      /\ anchor'[b] = r /\ \A k \in DOMAIN anchor \ {b} : anchor'[k] = anchor[k]
  BY <1>1, <1>2 DEF ReplaceAt, r
<1>4. \A k \in DOMAIN anchor : /\ anchor[k].start \in Nat /\ anchor[k].end \in Nat
                               /\ anchor[k].start < anchor[k].end
  BY AnchorTyped DEF IInv, RecordsNonEmpty
<1>5. Derived
  <2> SUFFICES ASSUME NEW k \in DOMAIN anchor'
               PROVE /\ anchor'[k].start < anchor'[k].end
                     /\ anchor'[k].mandate = anchor[k].mandate
                     /\ anchor'[k].type = anchor[k].type
                     /\ anchor[k].start =< anchor'[k].start
                     /\ anchor'[k].end =< anchor[k].end
    BY <1>3 DEF Derived
  <2>1. CASE k = b
    BY <2>1, <1>1, <1>2, <1>3
  <2>2. CASE k # b
    BY <2>2, <1>3, <1>4
  <2> QED
    BY <2>1, <2>2
<1>6. Kept(Elem(t).queue, t)
  BY <1>1, <1>3 DEF Kept
<1>7. QueuesFrom(b)
  BY <1>2, <1>3 DEF QueuesFrom, IInv, QueuesOK
<1> QED
  BY <1>3, <1>5, <1>6, <1>7, SubPreserves

(* lock_sub: a record that is unlinked. *)
LEMMA RemovePreserves ==
  ASSUME IInv, NEW t \in Threads, SubRemove(t)
  PROVE IInv'
<1> DEFINE b == base[t]
           n == Len(anchor)
<1>1. /\ InLoop(t) /\ anchor' = RemoveAt(anchor, b) /\ pc' = Woken(Elem(t).queue)
      /\ base' = [base EXCEPT ![t] = @ + 1] /\ UNCHANGED <<mutex, new, success>>
  BY DEF SubRemove
<1>2. /\ b \in 1 .. n /\ b \in DOMAIN anchor /\ anchor \in Seq(Record)
      /\ Elem(t) = anchor[b] /\ n \in Nat /\ DOMAIN anchor = 1 .. n
  BY <1>1, ElemTyped
<1>3. /\ anchor' \in Seq(Record) /\ Len(anchor') = n - 1 /\ DOMAIN anchor' = 1 .. (n - 1)
      /\ \A k \in 1 .. (n - 1) : anchor'[k] = IF k < b THEN anchor[k] ELSE anchor[k + 1]
  <2>1. /\ RemoveAt(anchor, b) \in Seq(Record) /\ Len(RemoveAt(anchor, b)) = n - 1
        /\ \A k \in 1 .. (n - 1) :
             RemoveAt(anchor, b)[k] = IF k < b THEN anchor[k] ELSE anchor[k + 1]
    BY <1>2, RemoveAtFacts, Zenon
  <2> QED
    BY <1>1, <2>1
<1>4. \A k \in DOMAIN anchor : /\ anchor[k].start \in Nat /\ anchor[k].end \in Nat
                               /\ anchor[k].start < anchor[k].end
  BY AnchorTyped DEF IInv, RecordsNonEmpty
<1>5. ASSUME NEW k \in DOMAIN anchor'
      PROVE \E i \in DOMAIN anchor \ {b} :
              anchor'[k] = anchor[i] /\ i = IF k < b THEN k ELSE k + 1
  BY <1>2, <1>3
<1>6. ASSUME NEW i \in DOMAIN anchor \ {b}
      PROVE \E k \in DOMAIN anchor' : anchor'[k] = anchor[i]
  <2>1. CASE i < b
    BY <2>1, <1>2, <1>3
  <2>2. CASE ~(i < b)
    <3>1. i - 1 \in DOMAIN anchor' /\ ~(i - 1 < b) /\ (i - 1) + 1 = i
      BY <2>2, <1>2, <1>3
    <3> QED
      BY <3>1, <1>3
  <2> QED
    BY <2>1, <2>2
<1>7. Derived
  <2> SUFFICES ASSUME NEW k \in DOMAIN anchor'
               PROVE /\ anchor'[k].start < anchor'[k].end
                     /\ \E i \in DOMAIN anchor :
                          /\ anchor'[k].mandate = anchor[i].mandate
                          /\ anchor'[k].type = anchor[i].type
                          /\ anchor[i].start =< anchor'[k].start
                          /\ anchor'[k].end =< anchor[i].end
    BY DEF Derived
  <2>1. PICK i \in DOMAIN anchor : anchor'[k] = anchor[i]
    BY <1>5
  <2> QED
    BY <2>1, <1>4
<1>8. Kept(Elem(t).queue, t)
  BY <1>2, <1>6 DEF Kept
<1>9. QueuesFrom(b)
  <2>1. \A k \in DOMAIN anchor' :
          \E i \in DOMAIN anchor \ {b} : anchor'[k].queue = anchor[i].queue
    BY <1>5
  <2>2. ASSUME NEW k \in DOMAIN anchor', NEW l \in DOMAIN anchor', k # l
        PROVE anchor'[k].queue \cap anchor'[l].queue = {}
    <3>1. PICK i \in DOMAIN anchor : anchor'[k] = anchor[i] /\ i = IF k < b THEN k ELSE k + 1
      BY <1>5
    <3>2. PICK j \in DOMAIN anchor : anchor'[l] = anchor[j] /\ j = IF l < b THEN l ELSE l + 1
      BY <1>5
    <3>3. i # j
      BY <1>2, <1>3, <2>2, <3>1, <3>2
    <3> QED
      BY <3>1, <3>2, <3>3 DEF IInv, QueuesOK
  <2> QED
    BY <2>1, <2>2 DEF QueuesFrom
<1> QED
  BY <1>1, <1>3, <1>7, <1>8, <1>9, SubPreserves

(* lock_sub: a record that is split in two. *)
LEMMA SplitPreserves ==
  ASSUME IInv, NEW t \in Threads, SubSplit(t)
  PROVE IInv'
<1> DEFINE b == base[t]
           n == Len(anchor)
           lower == [Elem(t) EXCEPT !.end = new[t].start, !.queue = {}]
           upper == [Elem(t) EXCEPT !.start = new[t].end, !.queue = {}]
<1>1. /\ InLoop(t) /\ anchor' = InsertAt(ReplaceAt(anchor, b, lower), b, upper) /\ pc' = Woken(Elem(t).queue)
      /\ Elem(t).start < new[t].start /\ new[t].end < Elem(t).end
      /\ Hit(t)
      /\ base' = [base EXCEPT ![t] = @ + 1] /\ UNCHANGED <<mutex, new, success>>
  BY ElemTyped DEF SubSplit
<1>2. /\ b \in 1 .. n /\ b \in DOMAIN anchor /\ anchor \in Seq(Record)
      /\ Elem(t) = anchor[b] /\ Elem(t) \in Record /\ n \in Nat /\ DOMAIN anchor = 1 .. n
      /\ Elem(t).start \in Nat /\ Elem(t).end \in Nat
      /\ new[t].start \in Nat /\ new[t].end \in Nat
  BY <1>1, ElemTyped
<1>3. /\ lower \in Record /\ lower.start = Elem(t).start /\ lower.end = new[t].start
      /\ lower.queue = {} /\ lower.mandate = Elem(t).mandate /\ lower.type = Elem(t).type
  BY <1>2 DEF Record
<1>4. /\ upper \in Record /\ upper.start = new[t].end /\ upper.end = Elem(t).end
      /\ upper.queue = {} /\ upper.mandate = Elem(t).mandate /\ upper.type = Elem(t).type
  BY <1>2 DEF Record
<1> HIDE DEF lower, upper
<1>6. /\ anchor' \in Seq(Record) /\ Len(anchor') = n + 1 /\ DOMAIN anchor' = 1 .. (n + 1)
      /\ anchor'[b] = upper
      /\ anchor'[b + 1] = lower
      /\ \A k \in 1 .. (b - 1) : anchor'[k] = anchor[k]
      /\ \A k \in (b + 1) .. n : anchor'[k + 1] = anchor[k]
  <2>1. anchor' = InsertAt(ReplaceAt(anchor, b, lower), b, upper)
    BY <1>1 DEF lower, upper
  <2>2. anchor \in Seq(Record) /\ b \in 1 .. n /\ lower \in Record /\ upper \in Record
    BY <1>2, <1>3, <1>4
  <2>3. IsSplit(SplitAt(anchor, b, lower, upper), anchor, b, lower, upper)
    BY <2>2, SplitFacts
  <2>4. IsSplit(anchor', anchor, b, lower, upper)
    BY <2>1, <2>3 DEF SplitAt
  <2> QED
    BY <2>4 DEF IsSplit
<1>7. /\ anchor'[b] = upper /\ anchor'[b + 1] = lower
      /\ \A k \in DOMAIN anchor' \ {b, b + 1} :
           /\ (IF k < b THEN k ELSE k - 1) \in DOMAIN anchor \ {b}
           /\ anchor'[k] = anchor[IF k < b THEN k ELSE k - 1]
  <2>3. ASSUME NEW k \in DOMAIN anchor' \ {b, b + 1}
        PROVE /\ (IF k < b THEN k ELSE k - 1) \in DOMAIN anchor \ {b}
              /\ anchor'[k] = anchor[IF k < b THEN k ELSE k - 1]
    <3>1. CASE k < b
      BY <3>1, <1>2, <1>6
    <3>2. CASE ~(k < b)
      <4>1. k - 1 \in DOMAIN anchor \ {b} /\ k - 1 \in (b + 1) .. n /\ (k - 1) + 1 = k
        BY <3>2, <1>2, <1>6
      <4> QED
        BY <3>2, <4>1, <1>6
    <3> QED
      BY <3>1, <3>2
  <2> QED
    BY <2>3, <1>6
<1>8. \A i \in DOMAIN anchor \ {b} : \E k \in DOMAIN anchor' : anchor'[k] = anchor[i]
  <2> SUFFICES ASSUME NEW i \in DOMAIN anchor \ {b}
               PROVE \E k \in DOMAIN anchor' : anchor'[k] = anchor[i]
    OBVIOUS
  <2>1. CASE i < b
    <3>1. i \in 1 .. (b - 1) /\ i \in DOMAIN anchor'
      BY <2>1, <1>2, <1>6
    <3> QED
      BY <3>1, <1>6
  <2>2. CASE ~(i < b)
    <3>1. i + 1 \in DOMAIN anchor' /\ i \in (b + 1) .. n
      BY <2>2, <1>2, <1>6
    <3> QED
      BY <3>1, <1>6
  <2> QED
    BY <2>1, <2>2
<1>9. \A k \in DOMAIN anchor : /\ anchor[k].start \in Nat /\ anchor[k].end \in Nat
                               /\ anchor[k].start < anchor[k].end
  BY AnchorTyped DEF IInv, RecordsNonEmpty
<1>10. Derived
  <2> SUFFICES ASSUME NEW k \in DOMAIN anchor'
               PROVE /\ anchor'[k].start < anchor'[k].end
                     /\ \E i \in DOMAIN anchor :
                          /\ anchor'[k].mandate = anchor[i].mandate
                          /\ anchor'[k].type = anchor[i].type
                          /\ anchor[i].start =< anchor'[k].start
                          /\ anchor'[k].end =< anchor[i].end
    BY DEF Derived
  <2>0. new[t].start < Elem(t).end /\ Elem(t).start < new[t].end
    BY <1>1, <1>2 DEF Hit, Overlaps
  <2>1. CASE k = b
    BY <2>1, <2>0, <1>1, <1>2, <1>4, <1>7
  <2>2. CASE k = b + 1
    BY <2>2, <2>0, <1>1, <1>2, <1>3, <1>7
  <2>3. CASE k \notin {b, b + 1}
    BY <2>3, <1>7, <1>9
  <2> QED
    BY <2>1, <2>2, <2>3
<1>11. Kept(Elem(t).queue, t)
  BY <1>2, <1>8 DEF Kept
<1>12. QueuesFrom(b)
  <2>1. ASSUME NEW k \in DOMAIN anchor'
        PROVE \/ anchor'[k].queue = {}
              \/ \E i \in DOMAIN anchor \ {b} : anchor'[k].queue = anchor[i].queue
    BY <1>3, <1>4, <1>7
  <2>2. ASSUME NEW k \in DOMAIN anchor', NEW l \in DOMAIN anchor', k # l
        PROVE anchor'[k].queue \cap anchor'[l].queue = {}
    <3>1. CASE k \in {b, b + 1} \/ l \in {b, b + 1}
      BY <3>1, <1>3, <1>4, <1>7
    <3>2. CASE k \notin {b, b + 1} /\ l \notin {b, b + 1}
      <4> DEFINE i == IF k < b THEN k ELSE k - 1
                 j == IF l < b THEN l ELSE l - 1
      <4>1. /\ i \in DOMAIN anchor /\ anchor'[k] = anchor[i]
            /\ j \in DOMAIN anchor /\ anchor'[l] = anchor[j]
        BY <3>2, <1>7
      <4>2. i # j
        BY <3>2, <2>2, <1>2, <1>6
      <4> HIDE DEF i, j
      <4> QED
        BY <4>1, <4>2 DEF IInv, QueuesOK
    <3> QED
      BY <3>1, <3>2
  <2> QED
    BY <2>1, <2>2 DEF QueuesFrom
<1> QED
  BY <1>1, <1>6, <1>10, <1>11, <1>12, SubPreserves

------------------------------------------------------------------------------
(* What a thread in lock_add brings with it. *)
LEMMA CallTyped ==
  ASSUME IInv, NEW t \in Threads, pc[t] = "add"
  PROVE /\ new[t] \in Call
        /\ new[t].start \in Nat /\ new[t].end \in Nat /\ new[t].start < new[t].end
        /\ new[t].mandate \in Mandates /\ new[t].type \in Types
<1>1. new[t] \in Call /\ new[t].type \in Types /\ new[t].start < new[t].end
  BY DEF IInv, CallsOK
<1> QED
  BY <1>1 DEF Call

(* A granted record r that conflicts with no record of another mandate. *)
Compatible(r) ==
  \A i \in DOMAIN anchor :
    anchor[i].mandate # r.mandate /\ Overlaps(anchor[i], r)
      => ~Confl(anchor[i].type, r.type) /\ ~Confl(r.type, anchor[i].type)

(* The scan of lock_add that found no conflict. *)
LEMMA ScanCompatible ==
  ASSUME IInv, NEW t \in Threads, pc[t] = "add", Conflicts(new[t]) = {}
  PROVE Compatible(new[t])
<1> SUFFICES ASSUME NEW i \in DOMAIN anchor, anchor[i].mandate # new[t].mandate,
                    Overlaps(anchor[i], new[t])
             PROVE ~Confl(anchor[i].type, new[t].type) /\ ~Confl(new[t].type, anchor[i].type)
  BY DEF Compatible
<1>1. ~Confl(anchor[i].type, new[t].type)
  BY DEF Conflicts
<1>2. anchor[i].type \in UlinuxTypes /\ new[t].type \in UlinuxTypes
  BY AnchorTyped, CallTyped, UlinuxAssumption DEF IInv
<1> QED
  BY <1>1, <1>2, ConflSymmetric

(* lock_add: a new head of the list. *)
LEMMA InsertPreserves ==
  ASSUME IInv, NEW t \in Threads, LockInsert(t)
  PROVE IInv'
<1> DEFINE n == Len(anchor)
           r == NewRecord(new[t])
<1>1. /\ pc[t] = "add" /\ Conflicts(new[t]) = {} /\ anchor' = Cons(r, anchor)
      /\ pc' = [pc EXCEPT ![t] = "idle"] /\ success' = [success EXCEPT ![t] = TRUE]
      /\ new' = [new EXCEPT ![t] = NoCall] /\ UNCHANGED <<mutex, base>>
  BY DEF LockInsert, Adding, Return
<1>2. /\ r \in Record /\ r.start = new[t].start /\ r.end = new[t].end /\ r.queue = {}
      /\ r.mandate = new[t].mandate /\ r.type = new[t].type /\ r.start < r.end
      /\ r.start \in Nat /\ r.end \in Nat
  BY <1>1, CallTyped DEF NewRecord, Record
<1> HIDE DEF r
<1>3. anchor \in Seq(Record) /\ n \in Nat /\ DOMAIN anchor = 1 .. n
  BY DEF IInv, TypeOK
<1>4. /\ anchor' \in Seq(Record) /\ DOMAIN anchor' = 1 .. (n + 1) /\ anchor'[1] = r
      /\ \A j \in 1 .. n : anchor'[j + 1] = anchor[j]
  <2>1. IsCons(Cons(r, anchor), anchor, r)
    BY <1>2, <1>3, ConsFacts
  <2>2. IsCons(anchor', anchor, r)
    BY <1>1, <2>1
  <2> QED
    BY <2>2 DEF IsCons
<1>5. \A k \in DOMAIN anchor' :
        k = 1 \/ (k - 1 \in DOMAIN anchor /\ anchor'[k] = anchor[k - 1])
  <2> SUFFICES ASSUME NEW k \in DOMAIN anchor', k # 1
               PROVE k - 1 \in DOMAIN anchor /\ anchor'[k] = anchor[k - 1]
    OBVIOUS
  <2>1. k - 1 \in 1 .. n /\ (k - 1) + 1 = k
    BY <1>3, <1>4
  <2> QED
    BY <2>1, <1>3, <1>4
<1>6. \A i \in DOMAIN anchor : i + 1 \in DOMAIN anchor' /\ anchor'[i + 1] = anchor[i]
  BY <1>3, <1>4
<1>7. TypeOK'
  BY <1>1, <1>4 DEF IInv, TypeOK
<1>8. CallsOK'
  BY <1>1 DEF IInv, TypeOK, CallsOK
<1>9. RecordsNonEmpty'
  BY <1>2, <1>4, <1>5 DEF IInv, RecordsNonEmpty
<1>10. NoConflict'
  <2>1. Compatible(r)
    BY <1>1, <1>2, ScanCompatible DEF Compatible, Overlaps
  <2> SUFFICES ASSUME NEW k \in DOMAIN anchor', NEW l \in DOMAIN anchor',
                      anchor'[k].mandate # anchor'[l].mandate,
                      Overlaps(anchor'[k], anchor'[l])
               PROVE ~Confl(anchor'[k].type, anchor'[l].type)
    BY DEF NoConflict
  <2>2. CASE k # 1 /\ l # 1
    BY <2>2, <1>5 DEF IInv, NoConflict
  <2>3. CASE k = 1
    <3>1. anchor'[k] = r /\ l # 1
      BY <2>3, <1>4
    <3>2. l - 1 \in DOMAIN anchor /\ anchor'[l] = anchor[l - 1]
      BY <3>1, <1>5
    <3> QED
      BY <2>1, <3>1, <3>2 DEF Compatible, Overlaps
  <2>4. CASE l = 1
    <3>1. anchor'[l] = r /\ k # 1
      BY <2>4, <1>4
    <3>2. k - 1 \in DOMAIN anchor /\ anchor'[k] = anchor[k - 1]
      BY <3>1, <1>5
    <3> QED
      BY <2>1, <3>1, <3>2 DEF Compatible
  <2> QED
    BY <2>2, <2>3, <2>4
<1>11. QueuesOK'
  <2> SUFFICES ASSUME NEW k \in DOMAIN anchor', NEW u \in anchor'[k].queue
               PROVE /\ pc'[u] = "sleep"
                     /\ \A l \in DOMAIN anchor' : u \in anchor'[l].queue => l = k
    BY DEF QueuesOK
  <2>1. k # 1 /\ k - 1 \in DOMAIN anchor /\ u \in anchor[k - 1].queue
    BY <1>2, <1>4, <1>5
  <2>2. pc[u] = "sleep" /\ u # t
    BY <1>1, <2>1 DEF IInv, QueuesOK
  <2>3. u \in Threads
    BY <2>1, AnchorTyped DEF IInv
  <2>4. pc'[u] = "sleep"
    BY <1>1, <2>2, <2>3 DEF IInv, TypeOK
  <2>5. ASSUME NEW l \in DOMAIN anchor', u \in anchor'[l].queue
        PROVE l = k
    <3>1. l # 1 /\ l - 1 \in DOMAIN anchor /\ u \in anchor[l - 1].queue
      BY <2>5, <1>2, <1>4, <1>5
    <3>2. l - 1 = k - 1
      BY <2>1, <3>1 DEF IInv, QueuesOK
    <3> QED
      BY <3>2, <1>3, <1>4
  <2> QED
    BY <2>4, <2>5
<1>12. SleepersHaveReason'
  <2>1. Kept({}, t)
    BY <1>6 DEF Kept
  <2>2. /\ pc'[t] # "sleep"
        /\ \A u \in Threads \ {t} : pc'[u] = pc[u] /\ new'[u] = new[u]
    BY <1>1 DEF IInv, TypeOK
  <2> QED
    BY <2>1, <2>2, KeptPreserves DEF IInv
<1> QED
  BY <1>7, <1>8, <1>9, <1>10, <1>11, <1>12 DEF IInv

(* lock_add: a record of the same mandate and type grows. *)
LEMMA MergePreserves ==
  ASSUME IInv, NEW t \in Threads, LockMerge(t)
  PROVE IInv'
<1>1. /\ pc[t] = "add" /\ Conflicts(new[t]) = {}
      /\ success' = [success EXCEPT ![t] = TRUE]
      /\ new' = [new EXCEPT ![t] = NoCall] /\ UNCHANGED <<mutex, base>>
  BY DEF LockMerge, Adding, Return
<1>2. PICK b \in Mergeable(new[t]) :
        /\ anchor' = ReplaceAt(anchor, b, Merged(anchor[b], new[t]))
        /\ pc' = WokenAnd(anchor[b].queue, t, "idle")
  BY DEF LockMerge
<1> DEFINE r == Merged(anchor[b], new[t])
           Q == anchor[b].queue
<1>3. /\ b \in DOMAIN anchor /\ anchor[b].mandate = new[t].mandate
      /\ anchor[b].type = new[t].type /\ Touches(anchor[b], new[t])
  BY <1>2 DEF Mergeable
<1>4. /\ anchor[b] \in Record /\ anchor[b].start \in Nat /\ anchor[b].end \in Nat
      /\ anchor[b].start < anchor[b].end /\ Q \in SUBSET Threads
  BY <1>3, AnchorTyped DEF IInv, RecordsNonEmpty
<1>5. /\ new[t].start \in Nat /\ new[t].end \in Nat /\ new[t].start < new[t].end
  BY <1>1, CallTyped
<1>6. /\ r \in Record /\ r.mandate = anchor[b].mandate /\ r.type = anchor[b].type
      /\ r.queue = {}
      /\ r.start = IF new[t].start < anchor[b].start THEN new[t].start ELSE anchor[b].start
      /\ r.end = IF new[t].end > anchor[b].end THEN new[t].end ELSE anchor[b].end
      /\ r.start \in Nat /\ r.end \in Nat
  BY <1>4, <1>5 DEF Merged, Record
<1> HIDE DEF r
<1>7. /\ anchor' \in Seq(Record) /\ DOMAIN anchor' = DOMAIN anchor /\ anchor'[b] = r
      /\ \A k \in DOMAIN anchor \ {b} : anchor'[k] = anchor[k]
  <2>1. anchor \in Seq(Record)
    BY DEF IInv, TypeOK
  <2>2. anchor' = [anchor EXCEPT ![b] = r]
    BY <1>2 DEF ReplaceAt, r
  <2> QED
    BY <1>3, <1>6, <2>1, <2>2
<1>8. /\ pc' \in [Threads -> {"idle", "add", "sleep", "unlock", "sub"}]
      /\ pc'[t] = "idle" /\ \A u \in Threads \ {t} : pc'[u] = Woken(Q)[u]
  BY <1>2 DEF IInv, TypeOK, WokenAnd, Woken
<1>9. \A u \in Q : pc[u] = "sleep"
  BY <1>3 DEF IInv, QueuesOK
<1>10. TypeOK'
  BY <1>1, <1>7, <1>8 DEF IInv, TypeOK
<1>11. CallsOK'
  BY <1>1, <1>8, <1>9 DEF IInv, TypeOK, CallsOK, Woken
<1>12. RecordsNonEmpty'
  BY <1>4, <1>5, <1>6, <1>7 DEF IInv, RecordsNonEmpty
<1>13. NoConflict'
  <2>1. Compatible(r)
    <3> SUFFICES ASSUME NEW i \in DOMAIN anchor, anchor[i].mandate # r.mandate,
                        Overlaps(anchor[i], r)
                 PROVE ~Confl(anchor[i].type, r.type) /\ ~Confl(r.type, anchor[i].type)
      BY DEF Compatible
    <3>1. anchor[i].start \in Nat /\ anchor[i].end \in Nat /\ anchor[i].start < anchor[i].end
      BY AnchorTyped DEF IInv, RecordsNonEmpty
    <3>2. Overlaps(anchor[i], anchor[b]) \/ Overlaps(anchor[i], new[t])
      BY <3>1, <1>3, <1>4, <1>5, <1>6 DEF Overlaps, Touches
    <3>3. CASE Overlaps(anchor[i], anchor[b])
      <4>1. Overlaps(anchor[b], anchor[i])
        BY <3>3, <3>1, <1>4 DEF Overlaps
      <4> QED
        BY <3>3, <4>1, <1>3, <1>6 DEF IInv, NoConflict
    <3>4. CASE Overlaps(anchor[i], new[t])
      BY <3>4, <1>1, <1>3, <1>6, ScanCompatible DEF Compatible
    <3> QED
      BY <3>2, <3>3, <3>4
  <2> SUFFICES ASSUME NEW k \in DOMAIN anchor, NEW l \in DOMAIN anchor,
                      anchor'[k].mandate # anchor'[l].mandate,
                      Overlaps(anchor'[k], anchor'[l])
               PROVE ~Confl(anchor'[k].type, anchor'[l].type)
    BY <1>7 DEF NoConflict
  <2>2. CASE k # b /\ l # b
    BY <2>2, <1>7 DEF IInv, NoConflict
  <2>3. CASE k = b
    <3>1. l # b /\ anchor'[k] = r /\ anchor'[l] = anchor[l]
      BY <2>3, <1>7
    <3>2. Overlaps(anchor[l], r)
      BY <3>1, <1>6, AnchorTyped DEF IInv, Overlaps
    <3> QED
      BY <3>1, <3>2, <2>1 DEF Compatible
  <2>4. CASE l = b
    <3>1. k # b /\ anchor'[l] = r /\ anchor'[k] = anchor[k]
      BY <2>4, <1>7
    <3> QED
      BY <3>1, <2>1 DEF Compatible
  <2> QED
    BY <2>2, <2>3, <2>4
<1>14. QueuesOK'
  <2>1. QueuesFrom(b)
    BY <1>6, <1>7 DEF QueuesFrom, IInv, QueuesOK
  <2> QED
    BY <1>1, <1>3, <1>8, <2>1, QueuesMoved DEF IInv
<1>15. SleepersHaveReason'
  <2>1. Kept(Q, t)
    BY <1>7 DEF Kept
  <2>2. \A u \in Threads \ {t} :
          pc'[u] = "sleep" => pc[u] = "sleep" /\ u \notin Q /\ new'[u] = new[u]
    BY <1>1, <1>8 DEF Woken, IInv, TypeOK
  <2>3. pc'[t] # "sleep"
    BY <1>8
  <2> QED
    BY <2>1, <2>2, <2>3, KeptPreserves DEF IInv
<1> QED
  BY <1>10, <1>11, <1>12, <1>13, <1>14, <1>15 DEF IInv

(* A conflicting request goes to sleep on the record it conflicts with. *)
LEMMA SleepPreserves ==
  ASSUME IInv, NEW t \in Threads, LockSleep(t)
  PROVE IInv'
<1>1. /\ pc[t] = "add" /\ pc' = [pc EXCEPT ![t] = "sleep"]
      /\ UNCHANGED <<mutex, new, base, success>>
  BY DEF LockSleep, Adding
<1>2. PICK c \in Conflicts(new[t]) : anchor' = [anchor EXCEPT ![c].queue = @ \cup {t}]
  BY DEF LockSleep
<1> DEFINE r == [anchor[c] EXCEPT !.queue = @ \cup {t}]
<1>3. /\ c \in DOMAIN anchor /\ anchor[c].mandate # new[t].mandate
      /\ Overlaps(anchor[c], new[t]) /\ Confl(anchor[c].type, new[t].type)
  BY <1>2 DEF Conflicts
<1>4. anchor[c] \in Record /\ anchor[c].queue \in SUBSET Threads
  BY <1>3, AnchorTyped DEF IInv
<1>5. /\ r \in Record /\ r.start = anchor[c].start /\ r.end = anchor[c].end
      /\ r.mandate = anchor[c].mandate /\ r.type = anchor[c].type
      /\ r.queue = anchor[c].queue \cup {t}
  BY <1>4 DEF Record
<1>6. anchor \in Seq(Record) /\ anchor' = [anchor EXCEPT ![c] = r]
  BY <1>2 DEF IInv, TypeOK
<1> HIDE DEF r
<1>7. /\ anchor' \in Seq(Record) /\ DOMAIN anchor' = DOMAIN anchor
      /\ anchor'[c] = r /\ \A k \in DOMAIN anchor \ {c} : anchor'[k] = anchor[k]
  BY <1>3, <1>5, <1>6
<1>8. \A k \in DOMAIN anchor :
        /\ anchor'[k].start = anchor[k].start /\ anchor'[k].end = anchor[k].end
        /\ anchor'[k].mandate = anchor[k].mandate /\ anchor'[k].type = anchor[k].type
        /\ anchor'[k].queue = IF k = c THEN anchor[k].queue \cup {t} ELSE anchor[k].queue
  BY <1>5, <1>7
<1>9. pc'[t] = "sleep" /\ \A u \in Threads \ {t} : pc'[u] = pc[u]
  BY <1>1 DEF IInv, TypeOK
<1>10. TypeOK'
  BY <1>1, <1>7 DEF IInv, TypeOK
<1>11. CallsOK'
  BY <1>1, <1>9 DEF IInv, CallsOK
<1>12. RecordsNonEmpty' /\ NoConflict'
  BY <1>7, <1>8 DEF IInv, RecordsNonEmpty, NoConflict, Overlaps
<1>13. QueuesOK'
  <2>1. \A k \in DOMAIN anchor : t \notin anchor[k].queue
    BY <1>1 DEF IInv, QueuesOK
  <2>2. \A k \in DOMAIN anchor : anchor[k].queue \subseteq Threads
    BY AnchorTyped DEF IInv
  <2> SUFFICES ASSUME NEW k \in DOMAIN anchor, NEW u \in anchor'[k].queue
               PROVE /\ pc'[u] = "sleep"
                     /\ \A l \in DOMAIN anchor : u \in anchor'[l].queue => l = k
    BY <1>7 DEF QueuesOK
  <2>3. CASE u = t
    <3>1. \A l \in DOMAIN anchor : u \in anchor'[l].queue => l = c
      BY <2>1, <2>3, <1>8
    <3> QED
      BY <3>1, <2>3, <1>9
  <2>4. CASE u # t
    <3>1. u \in anchor[k].queue /\ \A l \in DOMAIN anchor :
            u \in anchor'[l].queue => u \in anchor[l].queue
      BY <2>4, <1>8
    <3> QED
      BY <2>2, <2>4, <3>1, <1>9 DEF IInv, QueuesOK
  <2> QED
    BY <2>3, <2>4
<1>14. SleepersHaveReason'
  <2>1. ASSUME NEW u \in Threads, NEW k \in Conflicts(new[u])
        PROVE k \in DOMAIN anchor /\ k \in Conflicts(new[u])'
    <3>1. /\ k \in DOMAIN anchor /\ anchor[k].mandate # new[u].mandate
          /\ Overlaps(anchor[k], new[u]) /\ Confl(anchor[k].type, new[u].type)
      BY DEF Conflicts
    <3>2. k \in DOMAIN anchor' /\ new'[u] = new[u]
      BY <1>1, <1>7, <3>1
    <3> QED
      BY <3>1, <3>2, <1>8 DEF Conflicts, Overlaps
  <2>2. c \in Conflicts(new[t])' /\ t \in anchor'[c].queue
    BY <1>2, <1>8, <2>1
  <2>3. ASSUME NEW u \in Threads \ {t}, pc'[u] = "sleep"
        PROVE \E k \in Conflicts(new[u])' : u \in anchor'[k].queue
    <3>1. PICK k \in Conflicts(new[u]) : u \in anchor[k].queue
      BY <2>3, <1>9 DEF IInv, SleepersHaveReason
    <3>2. k \in DOMAIN anchor /\ k \in Conflicts(new[u])'
      BY <3>1, <2>1
    <3> QED
      BY <3>1, <3>2, <1>8
  <2> QED
    BY <2>2, <2>3 DEF SleepersHaveReason
<1> QED
  BY <1>10, <1>11, <1>12, <1>13, <1>14 DEF IInv

(* pthread_cond_wait returns on its own: the thread leaves its queue. *)
LEMMA SpuriousPreserves ==
  ASSUME IInv, NEW t \in Threads, SpuriousWakeup(t)
  PROVE IInv'
<1>1. /\ pc[t] = "sleep" /\ pc' = [pc EXCEPT ![t] = "add"]
      /\ anchor' = [i \in DOMAIN anchor |-> [anchor[i] EXCEPT !.queue = @ \ {t}]]
      /\ UNCHANGED <<mutex, new, base, success>>
  BY DEF SpuriousWakeup
<1>2. anchor \in Seq(Record) /\ DOMAIN anchor' = DOMAIN anchor
      /\ DOMAIN anchor = 1 .. Len(anchor) /\ Len(anchor) \in Nat
  BY <1>1 DEF IInv, TypeOK
<1>3. ASSUME NEW k \in DOMAIN anchor
      PROVE /\ anchor'[k] \in Record
            /\ anchor'[k].start = anchor[k].start /\ anchor'[k].end = anchor[k].end
            /\ anchor'[k].mandate = anchor[k].mandate /\ anchor'[k].type = anchor[k].type
            /\ anchor'[k].queue = anchor[k].queue \ {t}
  <2>1. anchor[k] \in Record /\ anchor'[k] = [anchor[k] EXCEPT !.queue = @ \ {t}]
    BY <1>1, AnchorTyped DEF IInv
  <2> QED
    BY <2>1 DEF Record
<1>4. anchor' \in Seq(Record)
  <2>1. anchor' \in [1 .. Len(anchor) -> Record]
    BY <1>1, <1>2, <1>3
  <2> QED
    BY <1>2, <2>1
<1>5. pc'[t] = "add" /\ \A u \in Threads \ {t} : pc'[u] = pc[u]
  BY <1>1 DEF IInv, TypeOK
<1>6. TypeOK'
  BY <1>1, <1>4 DEF IInv, TypeOK
<1>7. CallsOK'
  BY <1>1, <1>5 DEF IInv, CallsOK
<1>8. RecordsNonEmpty' /\ NoConflict'
  BY <1>2, <1>3 DEF IInv, RecordsNonEmpty, NoConflict, Overlaps
<1>9. QueuesOK'
  <2>1. \A k \in DOMAIN anchor : anchor[k].queue \subseteq Threads
    BY AnchorTyped DEF IInv
  <2> QED
    BY <1>2, <1>3, <1>5, <2>1 DEF IInv, QueuesOK
<1>10. SleepersHaveReason'
  <2>1. Kept({}, t)
    BY <1>2, <1>3 DEF Kept
  <2> QED
    BY <1>1, <1>5, <2>1, KeptPreserves DEF IInv
<1> QED
  BY <1>6, <1>7, <1>8, <1>9, <1>10 DEF IInv

------------------------------------------------------------------------------
(* The empty list of a fresh brick satisfies the inductive invariant. *)
LEMMA InitOK == Init => IInv
<1> SUFFICES ASSUME Init PROVE IInv
  OBVIOUS
<1>1. anchor = << >> /\ DOMAIN anchor = {} /\ anchor \in Seq(Record)
  BY DEF Init
<1>2. TypeOK
  BY <1>1 DEF Init, TypeOK
<1>3. CallsOK
  BY DEF Init, CallsOK
<1>4. QueuesOK /\ RecordsNonEmpty /\ NoConflict
  BY <1>1 DEF QueuesOK, RecordsNonEmpty, NoConflict
<1>5. SleepersHaveReason
  BY DEF Init, SleepersHaveReason
<1> QED
  BY <1>2, <1>3, <1>4, <1>5 DEF IInv

(* Entering the brick: the arguments become a well-formed request. *)
LEMMA EnterPreserves ==
  ASSUME IInv, NEW t \in Threads,
         \/ \E m \in Mandates, y \in Types, r \in LockRegions, a \in action_t :
              CallLock(t, m, y, r, a)
         \/ \E r \in LockRegions : CallLockBad(t, r)
         \/ \E m \in Mandates, r \in UnlockRegions : CallUnlock(t, m, r)
  PROVE IInv'
<1>1. ASSUME NEW m \in Mandates, NEW y \in Types, NEW r \in LockRegions,
             NEW a \in action_t, CallLock(t, m, y, r, a)
      PROVE IInv'
  <2> DEFINE c == [start |-> r.start, end |-> r.end, mandate |-> m, type |-> y, action |-> a]
  <2>1. /\ pc[t] = "idle" /\ r.start < r.end /\ new' = [new EXCEPT ![t] = c]
        /\ pc' = [pc EXCEPT ![t] = "add"] /\ success' = [success EXCEPT ![t] = FALSE]
        /\ UNCHANGED <<anchor, mutex, base>>
    BY <1>1 DEF CallLock
  <2>2. /\ c \in Call /\ c.type = y /\ c.start = r.start /\ c.end = r.end
    BY <1>1, UlinuxAssumption DEF Call
  <2> HIDE DEF c
  <2>3. TypeOK'
    BY <2>1, <2>2 DEF IInv, TypeOK
  <2>4. CallsOK'
    BY <1>1, <2>1, <2>2 DEF IInv, TypeOK, CallsOK
  <2> QED
    BY <2>1, <2>3, <2>4, QuietPreserves DEF IInv, TypeOK
<1>2. ASSUME NEW r \in LockRegions, CallLockBad(t, r)
      PROVE IInv'
  <2>1. TypeOK' /\ CallsOK'
    BY <1>2 DEF IInv, TypeOK, CallsOK, CallLockBad
  <2> QED
    BY <1>2, <2>1, QuietPreserves DEF CallLockBad
<1>3. ASSUME NEW m \in Mandates, NEW r \in UnlockRegions, CallUnlock(t, m, r)
      PROVE IInv'
  <2> DEFINE c == [start |-> r.start, end |-> r.end, mandate |-> m,
                   type |-> 0, action |-> "ask"]
  <2>1. /\ pc[t] = "idle" /\ new' = [new EXCEPT ![t] = c]
        /\ pc' = [pc EXCEPT ![t] = "unlock"] /\ success' = [success EXCEPT ![t] = FALSE]
        /\ UNCHANGED <<anchor, mutex, base>>
    BY <1>3 DEF CallUnlock
  <2>2. c \in Call
    BY <1>3, UlinuxAssumption DEF Call, UlinuxTypes, action_t
  <2> HIDE DEF c
  <2>3. TypeOK'
    BY <2>1, <2>2 DEF IInv, TypeOK
  <2>4. CallsOK'
    BY <2>1, <2>2 DEF IInv, TypeOK, CallsOK
  <2> QED
    BY <2>1, <2>3, <2>4, QuietPreserves DEF IInv, TypeOK
<1> QED
  BY <1>1, <1>2, <1>3

(* The steps inside the brick that leave the list alone. *)
LEMMA QuietSteps ==
  ASSUME IInv, NEW t \in Threads,
         \/ LockRefused(t) \/ LockAsked(t) \/ SubBegin(t) \/ SubSkip(t) \/ SubEnd(t)
  PROVE IInv'
<1>1. CASE LockRefused(t) \/ LockAsked(t)
  <2>1. /\ pc[t] = "add" /\ pc' = [pc EXCEPT ![t] = "idle"]
        /\ new' = [new EXCEPT ![t] = NoCall]
        /\ \E ok \in BOOLEAN : success' = [success EXCEPT ![t] = ok]
        /\ UNCHANGED <<anchor, mutex, base>>
    BY <1>1 DEF LockRefused, LockAsked, Adding, Return
  <2>2. TypeOK' /\ CallsOK'
    BY <2>1 DEF IInv, TypeOK, CallsOK
  <2> QED
    BY <2>1, <2>2, QuietPreserves DEF IInv, TypeOK
<1>2. CASE SubBegin(t)
  <2>1. TypeOK' /\ CallsOK'
    BY <1>2 DEF IInv, TypeOK, CallsOK, SubBegin
  <2> QED
    BY <1>2, <2>1, QuietPreserves DEF SubBegin, IInv, TypeOK
<1>3. CASE SubSkip(t)
  <2>1. TypeOK' /\ CallsOK'
    BY <1>3 DEF IInv, TypeOK, CallsOK, SubSkip
  <2> QED
    BY <1>3, <2>1, QuietPreserves DEF SubSkip, InLoop
<1>4. CASE SubEnd(t)
  <2>1. /\ pc[t] = "sub" /\ pc' = [pc EXCEPT ![t] = "idle"] /\ mutex' = NoThread
        /\ new' = [new EXCEPT ![t] = NoCall] /\ base' = [base EXCEPT ![t] = 1]
        /\ success' = [success EXCEPT ![t] = TRUE] /\ UNCHANGED anchor
    BY <1>4 DEF SubEnd, Return
  <2>2. TypeOK' /\ CallsOK'
    BY <2>1 DEF IInv, TypeOK, CallsOK
  <2> QED
    BY <2>1, <2>2, QuietPreserves DEF IInv, TypeOK
<1> QED
  BY <1>1, <1>2, <1>3, <1>4

(* lock_sub: a record that loses its upper or its lower end. *)
LEMMA CutPreserves ==
  ASSUME IInv, NEW t \in Threads, SubCutEnd(t) \/ SubCutStart(t)
  PROVE IInv'
<1>1. InLoop(t) /\ Hit(t)
  BY DEF SubCutEnd, SubCutStart
<1>2. /\ Elem(t) \in Record /\ Elem(t).start \in Nat /\ Elem(t).end \in Nat
      /\ new[t].start \in Nat /\ new[t].end \in Nat
      /\ new[t].start < Elem(t).end /\ Elem(t).start < new[t].end
  BY <1>1, ElemTyped DEF Hit, Overlaps
<1>3. CASE SubCutEnd(t)
  <2> DEFINE s == Elem(t).start
             e == new[t].start
  <2>1. /\ s \in Nat /\ e \in Nat /\ Elem(t).start =< s /\ s < e /\ e =< Elem(t).end
    BY <1>2, <1>3 DEF SubCutEnd
  <2>2. [Elem(t) EXCEPT !.end = new[t].start, !.queue = {}]
          = [Elem(t) EXCEPT !.start = s, !.end = e, !.queue = {}]
    BY <1>2 DEF Record
  <2>3. /\ anchor' = ReplaceAt(anchor, base[t],
                               [Elem(t) EXCEPT !.start = s, !.end = e, !.queue = {}])
        /\ pc' = Woken(Elem(t).queue) /\ base' = [base EXCEPT ![t] = @ + 1]
        /\ UNCHANGED <<mutex, new, success>>
    BY <1>3, <2>2 DEF SubCutEnd
  <2> HIDE DEF s, e
  <2> QED
    BY <1>1, <2>1, <2>3, ReplacePreserves
<1>4. CASE SubCutStart(t)
  <2> DEFINE s == new[t].end
             e == Elem(t).end
  <2>1. /\ s \in Nat /\ e \in Nat /\ Elem(t).start =< s /\ s < e /\ e =< Elem(t).end
    BY <1>2, <1>4 DEF SubCutStart
  <2>2. [Elem(t) EXCEPT !.start = new[t].end, !.queue = {}]
          = [Elem(t) EXCEPT !.start = s, !.end = e, !.queue = {}]
    BY <1>2 DEF Record
  <2>3. /\ anchor' = ReplaceAt(anchor, base[t],
                               [Elem(t) EXCEPT !.start = s, !.end = e, !.queue = {}])
        /\ pc' = Woken(Elem(t).queue) /\ base' = [base EXCEPT ![t] = @ + 1]
        /\ UNCHANGED <<mutex, new, success>>
    BY <1>4, <2>2 DEF SubCutStart
  <2> HIDE DEF s, e
  <2> QED
    BY <1>1, <2>1, <2>3, ReplacePreserves
<1> QED
  BY <1>3, <1>4

(* Every step of the brick preserves the inductive invariant. *)
LEMMA NextOK == IInv /\ [Next]_vars => IInv'
<1> SUFFICES ASSUME IInv, [Next]_vars PROVE IInv'
  OBVIOUS
<1>1. CASE UNCHANGED vars
  BY <1>1 DEF vars, IInv, TypeOK, CallsOK, QueuesOK, RecordsNonEmpty, NoConflict,
              SleepersHaveReason, Conflicts
<1>2. CASE Next
  <2>1. PICK t \in Threads :
          \/ \E m \in Mandates, y \in Types, r \in LockRegions, a \in action_t :
               CallLock(t, m, y, r, a)
          \/ \E r \in LockRegions : CallLockBad(t, r)
          \/ \E m \in Mandates, r \in UnlockRegions : CallUnlock(t, m, r)
          \/ lock_add(t)
          \/ SpuriousWakeup(t)
          \/ lock_sub(t)
    BY <1>2 DEF Next
  <2>2. CASE lock_add(t)
    BY <2>2, QuietSteps, SleepPreserves, MergePreserves, InsertPreserves DEF lock_add
  <2>3. CASE lock_sub(t)
    BY <2>3, QuietSteps, SplitPreserves, CutPreserves, RemovePreserves DEF lock_sub
  <2> QED
    BY <2>1, <2>2, <2>3, EnterPreserves, SpuriousPreserves
<1> QED
  BY <1>1, <1>2

(* The inductive invariant holds throughout. *)
THEOREM IInvAlways == Spec => []IInv
  BY InitOK, NextOK, PTL DEF Spec

(* Type correctness of lock_ulinux: the list, the mutex and the requests   *)
(* keep their shape through every interleaving of $lock and $unlock.       *)
THEOREM TypeCorrect == Spec => []TypeOK
<1>1. IInv => TypeOK
  BY DEF IInv
<1> QED
  BY <1>1, IInvAlways, PTL

(* Mutual exclusion: lock_ulinux never has conflicting records of two      *)
(* mandates in its list, for any number of threads, regions and records.   *)
THEOREM MutualExclusion == Spec => []NoConflict
<1>1. IInv => NoConflict
  BY DEF IInv
<1> QED
  BY <1>1, IInvAlways, PTL

(* No wakeup is lost: whoever sleeps in lock_ulinux's $lock sleeps on a    *)
(* record that is in the list and conflicts with the request.              *)
THEOREM NoLostWakeup == Spec => []SleepersHaveReason
<1>1. IInv => SleepersHaveReason
  BY DEF IInv
<1> QED
  BY <1>1, IInvAlways, PTL

(* lock_sub leaves no empty record behind, whatever it cuts. *)
THEOREM NoEmptyRecord == Spec => []RecordsNonEmpty
<1>1. IInv => RecordsNonEmpty
  BY DEF IInv
<1> QED
  BY <1>1, IInvAlways, PTL

------------------------------------------------------------------------------
(***************************************************************************)
(* LockUlinux implements the region locks of RegionLock, and holdings      *)
(* change as the callers asked.                                            *)
(*                                                                         *)
(* What a caller sees of the list is which mandate holds which type on     *)
(* which address (Holds).  Every step does one of three things to that:    *)
(* nothing (Same), it takes addresses inside the region of the running     *)
(* $unlock from its mandate (Shrinks), or it adds the region of the $lock  *)
(* (Grows).  One lemma per step shows which, from what the step does to    *)
(* the records; the theorems then no longer look at the list.              *)
(***************************************************************************)

(* Mandate m holds type y on address a. *)
Holds(m, y, a) ==
  \E i \in DOMAIN anchor :
    anchor[i].mandate = m /\ anchor[i].type = y /\ a \in Region(anchor[i])

(* No holding changes. *)
Same == \A m, y, a : Holds(m, y, a)' <=> Holds(m, y, a)

(* Mandate n.mandate loses addresses of n's region, and nobody gains any. *)
Shrinks(n) ==
  \A m, y, a : /\ Holds(m, y, a)' => Holds(m, y, a)
               /\ Holds(m, y, a) => \/ Holds(m, y, a)'
                                    \/ m = n.mandate /\ a \in Region(n)

(* Mandate n.mandate gains n's region with n's type, and that is all. *)
Grows(n) ==
  \A m, y, a : Holds(m, y, a)' <=>
    Holds(m, y, a) \/ (m = n.mandate /\ y = n.type /\ a \in Region(n))

(* A $lock that has not returned has not reported success, and it works on *)
(* a region that was asked for.                                            *)
AskedOK ==
  \A t \in Threads : pc[t] \in {"add", "sleep"} =>
    /\ ~success[t]
    /\ \E r \in LockRegions : new[t].start = r.start /\ new[t].end = r.end

------------------------------------------------------------------------------
(* HeldBy, which RegionLock is instantiated with, says the same as Holds. *)
LEMMA HeldIs ==
  TypeOK => \A m : \A h : h \in HeldBy(m) <=>
                            h \in Nat \X Types /\ Holds(m, h[2], h[1])
<1> SUFFICES ASSUME TypeOK, NEW m, NEW h
             PROVE h \in HeldBy(m) <=> h \in Nat \X Types /\ Holds(m, h[2], h[1])
  OBVIOUS
<1>1. h \in HeldBy(m) <=> \E i \in DOMAIN anchor :
        anchor[i].mandate = m /\ h \in Region(anchor[i]) \X {anchor[i].type}
  BY Zenon DEF HeldBy, Region
<1>2. ASSUME NEW i \in DOMAIN anchor
      PROVE Region(anchor[i]) \subseteq Nat /\ anchor[i].type \in Types
  BY AnchorTyped DEF Region
<1>3. ASSUME NEW i \in DOMAIN anchor
      PROVE h \in Region(anchor[i]) \X {anchor[i].type} <=>
              h \in Nat \X Types /\ h[1] \in Region(anchor[i]) /\ h[2] = anchor[i].type
  BY <1>2
<1> QED
  BY <1>1, <1>3, Zenon DEF Holds

(* A step that keeps the regions, mandates and types of all records. *)
LEMMA SameFields ==
  ASSUME DOMAIN anchor' = DOMAIN anchor,
         \A i \in DOMAIN anchor :
           /\ anchor'[i].start = anchor[i].start /\ anchor'[i].end = anchor[i].end
           /\ anchor'[i].mandate = anchor[i].mandate /\ anchor'[i].type = anchor[i].type
  PROVE Same
  BY DEF Same, Holds, Region

(* Waiting, and being woken for no reason, change a queue only. *)
LEMMA SleepSame ==
  ASSUME IInv, NEW t \in Threads, LockSleep(t) \/ SpuriousWakeup(t)
  PROVE Same
<1>1. anchor \in Seq(Record) /\ \A i \in DOMAIN anchor : anchor[i] \in Record
  BY AnchorTyped DEF IInv, TypeOK
<1>2. CASE LockSleep(t)
  <2>1. PICK c \in DOMAIN anchor : anchor' = [anchor EXCEPT ![c].queue = @ \cup {t}]
    BY <1>2 DEF LockSleep, Conflicts
  <2> QED
    BY <1>1, <2>1, SameFields DEF Record
<1>3. CASE SpuriousWakeup(t)
  BY <1>1, <1>3, SameFields DEF SpuriousWakeup, Record
<1> QED
  BY <1>2, <1>3

(* The addresses of a region, as inequalities. *)
LEMMA InRegion ==
  ASSUME NEW r, r.start \in Nat, r.end \in Nat, NEW a
  PROVE a \in Region(r) <=> a \in Int /\ r.start =< a /\ a < r.end
<1>1. PICK p \in Int, q \in Int : p = r.start /\ q = r.end
  OBVIOUS
<1>2. a \in p .. (q - 1) <=> a \in Int /\ p =< a /\ a < q
  OBVIOUS
<1> QED
  BY <1>1, <1>2 DEF Region

(* What is left of the addresses from p to q when the cut from s to u      *)
(* reaches over their end, or over their start.                            *)
LEMMA Intervals ==
  ASSUME NEW p \in Nat, NEW q \in Nat, NEW s \in Nat, NEW u \in Nat, NEW a \in Int
  PROVE /\ q > s /\ q =< u =>
             /\ p =< a /\ a < s => p =< a /\ a < q
             /\ p =< a /\ a < q => (p =< a /\ a < s) \/ (s =< a /\ a < u)
        /\ u > p /\ s =< p =>
             /\ u =< a /\ a < q => p =< a /\ a < q
             /\ p =< a /\ a < q => (u =< a /\ a < q) \/ (s =< a /\ a < u)
  OBVIOUS

(* lock_sub cuts off an end of a record. *)
LEMMA CutShrinks ==
  ASSUME IInv, NEW t \in Threads, SubCutEnd(t) \/ SubCutStart(t)
  PROVE Shrinks(new[t])
<1> DEFINE b == base[t]
<1>1. /\ InLoop(t) /\ Elem(t).mandate = new[t].mandate
      /\ Overlaps(Elem(t), new[t])
  BY DEF SubCutEnd, SubCutStart, Hit
<1>2. /\ b \in DOMAIN anchor /\ anchor \in Seq(Record)
      /\ Elem(t) = anchor[b] /\ Elem(t) \in Record
      /\ anchor[b].start \in Nat /\ anchor[b].end \in Nat
      /\ new[t].start \in Nat /\ new[t].end \in Nat
  BY <1>1, ElemTyped
<1>3. PICK r : /\ anchor' = ReplaceAt(anchor, b, r)
               /\ r.mandate = anchor[b].mandate /\ r.type = anchor[b].type
               /\ Region(r) \subseteq Region(anchor[b])
               /\ \A a \in Region(anchor[b]) : a \in Region(r) \/ a \in Region(new[t])
  <2>1. CASE SubCutEnd(t)
    <3> DEFINE r == [Elem(t) EXCEPT !.end = new[t].start, !.queue = {}]
    <3>1. /\ r.start = anchor[b].start /\ r.end = new[t].start
          /\ r.mandate = anchor[b].mandate /\ r.type = anchor[b].type
      BY <1>2 DEF Record
    <3>2. anchor' = ReplaceAt(anchor, b, r) /\ anchor[b].end =< new[t].end
      BY <1>2, <2>1 DEF SubCutEnd
    <3> HIDE DEF r
    <3>3. /\ Region(r) \subseteq Region(anchor[b])
          /\ \A a \in Region(anchor[b]) : a \in Region(r) \/ a \in Region(new[t])
      <4>1. anchor[b].end > new[t].start /\ new[t].end > anchor[b].start
        BY <1>1, <1>2 DEF Overlaps
      <4>2. r.start \in Nat /\ r.end \in Nat
        BY <1>2, <3>1
      <4>3. \A a : /\ a \in Region(r) <=> a \in Int /\ r.start =< a /\ a < r.end
                   /\ a \in Region(anchor[b]) <=>
                        a \in Int /\ anchor[b].start =< a /\ a < anchor[b].end
                   /\ a \in Region(new[t]) <=>
                        a \in Int /\ new[t].start =< a /\ a < new[t].end
        BY <1>2, <4>2, InRegion, Zenon
      <4> HIDE DEF b
      <4>4. ASSUME NEW a \in Int
            PROVE /\ r.start =< a /\ a < r.end =>
                       anchor[b].start =< a /\ a < anchor[b].end
                  /\ anchor[b].start =< a /\ a < anchor[b].end =>
                       \/ r.start =< a /\ a < r.end
                       \/ new[t].start =< a /\ a < new[t].end
        BY <1>2, <3>1, <3>2, <4>1, Intervals
      <4> QED
        BY <4>3, <4>4, Zenon
    <3> QED
      BY <3>1, <3>2, <3>3
  <2>2. CASE SubCutStart(t)
    <3> DEFINE r == [Elem(t) EXCEPT !.start = new[t].end, !.queue = {}]
    <3>1. /\ r.start = new[t].end /\ r.end = anchor[b].end
          /\ r.mandate = anchor[b].mandate /\ r.type = anchor[b].type
      BY <1>2 DEF Record
    <3>2. anchor' = ReplaceAt(anchor, b, r) /\ anchor[b].start >= new[t].start
      BY <1>2, <2>2 DEF SubCutStart
    <3> HIDE DEF r
    <3>3. /\ Region(r) \subseteq Region(anchor[b])
          /\ \A a \in Region(anchor[b]) : a \in Region(r) \/ a \in Region(new[t])
      <4>1. anchor[b].end > new[t].start /\ new[t].end > anchor[b].start
        BY <1>1, <1>2 DEF Overlaps
      <4>2. r.start \in Nat /\ r.end \in Nat
        BY <1>2, <3>1
      <4>3. \A a : /\ a \in Region(r) <=> a \in Int /\ r.start =< a /\ a < r.end
                   /\ a \in Region(anchor[b]) <=>
                        a \in Int /\ anchor[b].start =< a /\ a < anchor[b].end
                   /\ a \in Region(new[t]) <=>
                        a \in Int /\ new[t].start =< a /\ a < new[t].end
        BY <1>2, <4>2, InRegion, Zenon
      <4> HIDE DEF b
      <4>4. ASSUME NEW a \in Int
            PROVE /\ r.start =< a /\ a < r.end =>
                       anchor[b].start =< a /\ a < anchor[b].end
                  /\ anchor[b].start =< a /\ a < anchor[b].end =>
                       \/ r.start =< a /\ a < r.end
                       \/ new[t].start =< a /\ a < new[t].end
        BY <1>2, <3>1, <3>2, <4>1, Intervals
      <4> QED
        BY <4>3, <4>4, Zenon
    <3> QED
      BY <3>1, <3>2, <3>3
  <2> QED
    BY <2>1, <2>2
<1>4. /\ DOMAIN anchor' = DOMAIN anchor /\ anchor'[b] = r
      /\ \A k \in DOMAIN anchor \ {b} : anchor'[k] = anchor[k]
  BY <1>2, <1>3 DEF ReplaceAt
<1> HIDE DEF b
<1> QED
  BY <1>1, <1>2, <1>3, <1>4 DEF Shrinks, Holds

(* lock_sub unlinks a record that the region covers. *)
LEMMA RemoveShrinks ==
  ASSUME IInv, NEW t \in Threads, SubRemove(t)
  PROVE Shrinks(new[t])
<1> DEFINE b == base[t]
           n == Len(anchor)
<1>1. /\ InLoop(t) /\ Elem(t).mandate = new[t].mandate
      /\ Elem(t).start >= new[t].start /\ Elem(t).end =< new[t].end
      /\ anchor' = RemoveAt(anchor, b)
  BY DEF SubRemove, Hit
<1>2. /\ b \in 1 .. n /\ n \in Nat /\ anchor \in Seq(Record) /\ DOMAIN anchor = 1 .. n
      /\ Elem(t) = anchor[b]
      /\ anchor[b].start \in Nat /\ anchor[b].end \in Nat
      /\ new[t].start \in Nat /\ new[t].end \in Nat
  BY <1>1, ElemTyped
<1>3. /\ DOMAIN anchor' = 1 .. (n - 1)
      /\ \A k \in 1 .. (n - 1) : anchor'[k] = IF k < b THEN anchor[k] ELSE anchor[k + 1]
  <2>1. /\ RemoveAt(anchor, b) \in Seq(Record) /\ Len(RemoveAt(anchor, b)) = n - 1
        /\ \A k \in 1 .. (n - 1) :
             RemoveAt(anchor, b)[k] = IF k < b THEN anchor[k] ELSE anchor[k + 1]
    BY <1>2, RemoveAtFacts, Zenon
  <2> QED
    BY <1>1, <2>1
<1>4. \A k \in DOMAIN anchor' : \E i \in DOMAIN anchor : anchor'[k] = anchor[i]
  <2> SUFFICES ASSUME NEW k \in 1 .. (n - 1)
               PROVE \E i \in DOMAIN anchor : anchor'[k] = anchor[i]
    BY <1>3
  <2>1. k \in DOMAIN anchor /\ k + 1 \in DOMAIN anchor
    BY <1>2
  <2>2. anchor'[k] = anchor[k] \/ anchor'[k] = anchor[k + 1]
    BY <1>3
  <2> QED
    BY <2>1, <2>2
<1>5. \A i \in DOMAIN anchor \ {b} : \E k \in DOMAIN anchor' : anchor'[k] = anchor[i]
  <2> SUFFICES ASSUME NEW i \in DOMAIN anchor \ {b}
               PROVE \E k \in DOMAIN anchor' : anchor'[k] = anchor[i]
    OBVIOUS
  <2>1. CASE i < b
    <3>1. i \in 1 .. (n - 1)
      BY <2>1, <1>2
    <3>2. i \in DOMAIN anchor' /\ anchor'[i] = anchor[i]
      BY <2>1, <3>1, <1>3
    <3> QED
      BY <3>2
  <2>2. CASE i > b
    <3>1. i - 1 \in DOMAIN anchor' /\ anchor'[i - 1] = anchor[i]
      BY <2>2, <1>2, <1>3
    <3> QED
      BY <3>1
  <2> QED
    BY <2>1, <2>2, <1>2
<1>6. anchor[b].mandate = new[t].mandate /\ Region(anchor[b]) \subseteq Region(new[t])
  <2>1. /\ anchor[b].mandate = new[t].mandate
        /\ anchor[b].start >= new[t].start /\ anchor[b].end =< new[t].end
    BY <1>1, <1>2
  <2> HIDE DEF b
  <2> QED
    BY <1>2, <2>1 DEF Region
<1> HIDE DEF b
<1> QED
  BY <1>4, <1>5, <1>6 DEF Shrinks, Holds

(* lock_sub cuts a region out of the middle of a record. *)
LEMMA SplitShrinks ==
  ASSUME IInv, NEW t \in Threads, SubSplit(t)
  PROVE Shrinks(new[t])
<1> DEFINE b == base[t]
           n == Len(anchor)
           lo == [Elem(t) EXCEPT !.end = new[t].start, !.queue = {}]
           up == [Elem(t) EXCEPT !.start = new[t].end, !.queue = {}]
<1>1. /\ InLoop(t) /\ Elem(t).mandate = new[t].mandate
      /\ Elem(t).start < new[t].start /\ Elem(t).end > new[t].end
      /\ Overlaps(Elem(t), new[t])
      /\ anchor' = SplitAt(anchor, b, lo, up)
  BY DEF SubSplit, Hit, SplitAt
<1>2. /\ b \in 1 .. n /\ n \in Nat /\ anchor \in Seq(Record) /\ DOMAIN anchor = 1 .. n
      /\ Elem(t) = anchor[b] /\ Elem(t) \in Record
      /\ anchor[b].start \in Nat /\ anchor[b].end \in Nat
      /\ new[t].start \in Nat /\ new[t].end \in Nat
  BY <1>1, ElemTyped
<1>3. /\ lo \in Record /\ lo.start = anchor[b].start /\ lo.end = new[t].start
      /\ lo.mandate = anchor[b].mandate /\ lo.type = anchor[b].type
      /\ up \in Record /\ up.start = new[t].end /\ up.end = anchor[b].end
      /\ up.mandate = anchor[b].mandate /\ up.type = anchor[b].type
  BY <1>2 DEF Record
<1> HIDE DEF lo, up
<1>4. IsSplit(anchor', anchor, b, lo, up)
  BY <1>1, <1>2, <1>3, SplitFacts, Zenon
<1>5. /\ DOMAIN anchor' = 1 .. (n + 1) /\ anchor'[b] = up /\ anchor'[b + 1] = lo
      /\ \A j \in 1 .. (b - 1) : anchor'[j] = anchor[j]
      /\ \A j \in (b + 1) .. n : anchor'[j + 1] = anchor[j]
  BY <1>2, <1>4 DEF IsSplit
<1>6. /\ anchor[b].mandate = new[t].mandate
      /\ Region(lo) \subseteq Region(anchor[b]) /\ Region(up) \subseteq Region(anchor[b])
      /\ \A a \in Region(anchor[b]) :
           a \in Region(lo) \/ a \in Region(up) \/ a \in Region(new[t])
  <2>1. /\ anchor[b].mandate = new[t].mandate
        /\ anchor[b].start < new[t].start /\ anchor[b].end > new[t].end
        /\ new[t].end > anchor[b].start /\ anchor[b].end > new[t].start
    BY <1>1, <1>2 DEF Overlaps
  <2>2. \A a : /\ a \in Region(lo) <=> a \in Int /\ lo.start =< a /\ a < lo.end
               /\ a \in Region(up) <=> a \in Int /\ up.start =< a /\ a < up.end
               /\ a \in Region(anchor[b]) <=>
                    a \in Int /\ anchor[b].start =< a /\ a < anchor[b].end
               /\ a \in Region(new[t]) <=>
                    a \in Int /\ new[t].start =< a /\ a < new[t].end
    <3>1. lo.start \in Nat /\ lo.end \in Nat /\ up.start \in Nat /\ up.end \in Nat
      BY <1>2, <1>3
    <3> QED
      BY <1>2, <3>1, InRegion, Zenon
  <2> HIDE DEF b
  <2>3. PICK p \in Nat, q \in Nat, s \in Nat, u \in Nat :
          p = anchor[b].start /\ q = anchor[b].end /\ s = new[t].start /\ u = new[t].end
    BY <1>2
  <2>4. p < s /\ q > u /\ u > p /\ q > s
    BY <2>1, <2>3
  <2>5. ASSUME NEW a \in Int
        PROVE /\ p =< a /\ a < s => p =< a /\ a < q
              /\ u =< a /\ a < q => p =< a /\ a < q
              /\ p =< a /\ a < q => \/ p =< a /\ a < s
                                    \/ u =< a /\ a < q
                                    \/ s =< a /\ a < u
    BY <2>4
  <2>6. \A a : /\ a \in Region(lo) <=> a \in Int /\ p =< a /\ a < s
               /\ a \in Region(up) <=> a \in Int /\ u =< a /\ a < q
               /\ a \in Region(anchor[b]) <=> a \in Int /\ p =< a /\ a < q
               /\ a \in Region(new[t]) <=> a \in Int /\ s =< a /\ a < u
    BY <1>3, <2>2, <2>3
  <2>7. Region(lo) \subseteq Region(anchor[b]) /\ Region(up) \subseteq Region(anchor[b])
    BY <2>5, <2>6, Zenon
  <2>8. \A a \in Region(anchor[b]) :
          a \in Region(lo) \/ a \in Region(up) \/ a \in Region(new[t])
    BY <2>5, <2>6, Zenon
  <2> QED
    BY <2>1, <2>7, <2>8
<1>7. \A k \in DOMAIN anchor' : \/ anchor'[k] = lo \/ anchor'[k] = up
                                \/ \E i \in DOMAIN anchor : anchor'[k] = anchor[i]
  <2> SUFFICES ASSUME NEW k \in 1 .. (n + 1), k # b, k # b + 1
               PROVE \E i \in DOMAIN anchor : anchor'[k] = anchor[i]
    BY <1>5
  <2>1. CASE k < b
    <3>1. k \in 1 .. (b - 1) /\ k \in DOMAIN anchor
      BY <2>1, <1>2
    <3> QED
      BY <3>1, <1>5
  <2>2. CASE k > b + 1
    <3>1. k - 1 \in (b + 1) .. n /\ (k - 1) + 1 = k
      BY <2>2, <1>2
    <3>2. anchor'[k] = anchor[k - 1] /\ k - 1 \in DOMAIN anchor
      BY <3>1, <1>2, <1>5
    <3> QED
      BY <3>2
  <2> QED
    BY <2>1, <2>2, <1>2
<1>8. \A i \in DOMAIN anchor \ {b} : \E k \in DOMAIN anchor' : anchor'[k] = anchor[i]
  <2> SUFFICES ASSUME NEW i \in 1 .. n, i # b
               PROVE \E k \in DOMAIN anchor' : anchor'[k] = anchor[i]
    BY <1>2
  <2>1. CASE i < b
    <3>1. i \in 1 .. (b - 1) /\ i \in 1 .. (n + 1)
      BY <2>1, <1>2
    <3>2. i \in DOMAIN anchor' /\ anchor'[i] = anchor[i]
      BY <3>1, <1>5
    <3> QED
      BY <3>2
  <2>2. CASE i > b
    <3>1. i + 1 \in DOMAIN anchor' /\ anchor'[i + 1] = anchor[i]
      BY <2>2, <1>2, <1>5
    <3> QED
      BY <3>1
  <2> QED
    BY <2>1, <2>2, <1>2
<1>9. b \in DOMAIN anchor /\ b \in DOMAIN anchor' /\ b + 1 \in DOMAIN anchor'
  BY <1>2, <1>5
<1> HIDE DEF b
<1>10. ASSUME NEW m, NEW y, NEW a, Holds(m, y, a)' PROVE Holds(m, y, a)
  BY <1>3, <1>6, <1>7, <1>9, <1>10 DEF Holds
<1>11. ASSUME NEW m, NEW y, NEW a, Holds(m, y, a)
       PROVE Holds(m, y, a)' \/ (m = new[t].mandate /\ a \in Region(new[t]))
  <2>1. PICK i \in DOMAIN anchor : /\ anchor[i].mandate = m /\ anchor[i].type = y
                                   /\ a \in Region(anchor[i])
    BY <1>11 DEF Holds
  <2>2. CASE i = b
    BY <1>3, <1>5, <1>6, <1>9, <2>1, <2>2 DEF Holds
  <2>3. CASE i # b
    BY <1>8, <2>1, <2>3 DEF Holds
  <2> QED
    BY <2>2, <2>3
<1> QED
  BY <1>10, <1>11 DEF Shrinks

(* lock_add links in a new head. *)
LEMMA InsertGrows ==
  ASSUME IInv, NEW t \in Threads, LockInsert(t)
  PROVE Grows(new[t])
<1> DEFINE n == Len(anchor)
           r == NewRecord(new[t])
<1>1. pc[t] = "add" /\ anchor' = Cons(r, anchor)
  BY DEF LockInsert, Adding
<1>2. /\ r \in Record /\ Region(r) = Region(new[t])
      /\ r.mandate = new[t].mandate /\ r.type = new[t].type
  BY <1>1, CallTyped DEF NewRecord, Record, Region
<1> HIDE DEF r
<1>3. anchor \in Seq(Record) /\ n \in Nat /\ DOMAIN anchor = 1 .. n
  BY DEF IInv, TypeOK
<1>4. IsCons(anchor', anchor, r)
  BY <1>1, <1>2, <1>3, ConsFacts
<1>5. /\ DOMAIN anchor' = 1 .. (n + 1) /\ anchor'[1] = r
      /\ \A j \in 1 .. n : anchor'[j + 1] = anchor[j]
  BY <1>3, <1>4 DEF IsCons
<1>6. \A k \in DOMAIN anchor' :
        anchor'[k] = r \/ \E i \in DOMAIN anchor : anchor'[k] = anchor[i]
  <2> SUFFICES ASSUME NEW k \in 1 .. (n + 1), k # 1
               PROVE \E i \in DOMAIN anchor : anchor'[k] = anchor[i]
    BY <1>5
  <2>1. k - 1 \in 1 .. n /\ (k - 1) + 1 = k
    BY <1>3
  <2> QED
    BY <2>1, <1>3, <1>5
<1>7. \A i \in DOMAIN anchor : \E k \in DOMAIN anchor' : anchor'[k] = anchor[i]
  <2> SUFFICES ASSUME NEW i \in 1 .. n
               PROVE \E k \in DOMAIN anchor' : anchor'[k] = anchor[i]
    BY <1>3
  <2>1. i + 1 \in DOMAIN anchor'
    BY <1>3, <1>5
  <2> QED
    BY <2>1, <1>5
<1>8. 1 \in DOMAIN anchor'
  BY <1>3, <1>5
<1>9. ASSUME NEW m, NEW y, NEW a, Holds(m, y, a)'
      PROVE Holds(m, y, a) \/ (m = new[t].mandate /\ y = new[t].type /\ a \in Region(new[t]))
  <2>1. PICK k \in DOMAIN anchor' :
          anchor'[k].mandate = m /\ anchor'[k].type = y /\ a \in Region(anchor'[k])
    BY <1>9 DEF Holds, Region
  <2>2. CASE anchor'[k] = r
    BY <1>2, <2>1, <2>2, Zenon
  <2>3. CASE anchor'[k] # r
    <3>1. PICK i \in DOMAIN anchor : anchor'[k] = anchor[i]
      BY <1>6, <2>3
    <3> QED
      BY <2>1, <3>1, Zenon DEF Holds
  <2> QED
    BY <2>2, <2>3
<1>10. ASSUME NEW m, NEW y, NEW a, Holds(m, y, a)
       PROVE Holds(m, y, a)'
  <2>1. PICK i \in DOMAIN anchor :
          anchor[i].mandate = m /\ anchor[i].type = y /\ a \in Region(anchor[i])
    BY <1>10 DEF Holds
  <2>2. PICK k \in DOMAIN anchor' : anchor'[k] = anchor[i]
    BY <1>7
  <2> QED
    BY <2>1, <2>2 DEF Holds, Region
<1>11. ASSUME NEW m, NEW y, NEW a,
              m = new[t].mandate, y = new[t].type, a \in Region(new[t])
       PROVE Holds(m, y, a)'
  <2>1. anchor'[1].mandate = m /\ anchor'[1].type = y /\ a \in Region(anchor'[1])
    BY <1>2, <1>5, <1>11, Zenon
  <2> QED
    BY <1>8, <2>1 DEF Holds, Region
<1> QED
  BY <1>9, <1>10, <1>11, Zenon DEF Grows

(* lock_add lets a record that touches the region grow: the two have no    *)
(* gap between them, so nothing but the region is added.                   *)
LEMMA MergeGrows ==
  ASSUME IInv, NEW t \in Threads, LockMerge(t)
  PROVE Grows(new[t])
<1>1. pc[t] = "add"
  BY DEF LockMerge, Adding
<1>2. PICK b \in Mergeable(new[t]) :
        anchor' = ReplaceAt(anchor, b, Merged(anchor[b], new[t]))
  BY DEF LockMerge
<1> DEFINE r == Merged(anchor[b], new[t])
<1>3. /\ b \in DOMAIN anchor /\ anchor[b].mandate = new[t].mandate
      /\ anchor[b].type = new[t].type /\ Touches(anchor[b], new[t])
  BY <1>2 DEF Mergeable
<1>4. /\ anchor \in Seq(Record) /\ anchor[b] \in Record
      /\ anchor[b].start \in Nat /\ anchor[b].end \in Nat
      /\ anchor[b].start < anchor[b].end
      /\ new[t].start \in Nat /\ new[t].end \in Nat /\ new[t].start < new[t].end
  BY <1>1, <1>3, AnchorTyped, CallTyped DEF IInv, TypeOK, RecordsNonEmpty
<1>5. /\ r.mandate = new[t].mandate /\ r.type = new[t].type
      /\ r.start = IF new[t].start < anchor[b].start THEN new[t].start ELSE anchor[b].start
      /\ r.end = IF new[t].end > anchor[b].end THEN new[t].end ELSE anchor[b].end
  BY <1>3, <1>4 DEF Merged, Record
<1> HIDE DEF r
<1>6. \A a : a \in Region(r) <=> a \in Region(anchor[b]) \/ a \in Region(new[t])
  <2>1. anchor[b].end >= new[t].start /\ new[t].end >= anchor[b].start
    BY <1>3 DEF Touches
  <2>2. \A a : /\ a \in Region(r) <=> a \in Int /\ r.start =< a /\ a < r.end
               /\ a \in Region(anchor[b]) <=>
                    a \in Int /\ anchor[b].start =< a /\ a < anchor[b].end
               /\ a \in Region(new[t]) <=>
                    a \in Int /\ new[t].start =< a /\ a < new[t].end
    <3>1. r.start \in Nat /\ r.end \in Nat
      BY <1>4, <1>5
    <3> QED
      BY <1>4, <3>1, InRegion, Zenon
  <2>3. PICK p \in Nat, q \in Nat, s \in Nat, u \in Nat :
          p = anchor[b].start /\ q = anchor[b].end /\ s = new[t].start /\ u = new[t].end
    BY <1>4
  <2>4. PICK v \in Nat, w \in Nat : /\ v = r.start /\ v = IF s < p THEN s ELSE p
                                    /\ w = r.end /\ w = IF u > q THEN u ELSE q
    BY <1>5, <2>3
  <2>5. q >= s /\ u >= p /\ p < q /\ s < u
    BY <1>4, <2>1, <2>3
  <2>6. ASSUME NEW a \in Int
        PROVE v =< a /\ a < w <=> (p =< a /\ a < q) \/ (s =< a /\ a < u)
    BY <2>4, <2>5
  <2> QED
    BY <2>2, <2>3, <2>4, <2>6, Zenon
<1>7. /\ DOMAIN anchor' = DOMAIN anchor /\ anchor'[b] = r
      /\ \A k \in DOMAIN anchor \ {b} : anchor'[k] = anchor[k]
  BY <1>2, <1>3, <1>4 DEF ReplaceAt, r
<1> QED
  BY <1>3, <1>5, <1>6, <1>7 DEF Grows, Holds

------------------------------------------------------------------------------
(* HeldIs after a step. *)
LEMMA HeldIsNext ==
  TypeOK' => \A m : \A h : h \in HeldBy(m)' <=>
                             h \in Nat \X Types /\ Holds(m, h[2], h[1])'
<1>1. (TypeOK => \A m : \A h : h \in HeldBy(m) <=>
                                   h \in Nat \X Types /\ Holds(m, h[2], h[1]))'
  BY HeldIs, PTL
<1> QED
  BY <1>1

(* The three kinds of steps, in terms of what RegionLock sees. *)
LEMMA SameHeld ==
  ASSUME TypeOK, TypeOK', Same, NEW m
  PROVE HeldBy(m)' = HeldBy(m)
<1>1. \A h : h \in HeldBy(m)' <=> h \in HeldBy(m)
  BY HeldIs, HeldIsNext, Zenon DEF Same
<1> QED
  BY <1>1

(* A step of $unlock sheds addresses of its region, under its mandate. *)
LEMMA ShrinksHeld ==
  ASSUME TypeOK, TypeOK', NEW n, Shrinks(n), NEW m
  PROVE /\ HeldBy(m)' \subseteq HeldBy(m)
        /\ \A h \in HeldBy(m) \ HeldBy(m)' : m = n.mandate /\ h[1] \in Region(n)
<1>1. ASSUME NEW h \in HeldBy(m)' PROVE h \in HeldBy(m)
  BY <1>1, HeldIs, HeldIsNext, Zenon DEF Shrinks
<1>2. ASSUME NEW h \in HeldBy(m), h \notin HeldBy(m)'
      PROVE m = n.mandate /\ h[1] \in Region(n)
  BY <1>2, HeldIs, HeldIsNext, Zenon DEF Shrinks
<1> QED
  BY <1>1, <1>2

(* A granted $lock adds its region, with its type, to its mandate. *)
LEMMA GrowsHeld ==
  ASSUME TypeOK, TypeOK', NEW n, Grows(n), Region(n) \subseteq Nat, n.type \in Types, NEW m
  PROVE HeldBy(m)' = IF m = n.mandate THEN HeldBy(m) \cup (Region(n) \X {n.type})
                     ELSE HeldBy(m)
<1>1. \A h : h \in Region(n) \X {n.type} <=>
             h \in Nat \X Types /\ h[1] \in Region(n) /\ h[2] = n.type
  OBVIOUS
<1>2. CASE m = n.mandate
  <2>1. \A h : h \in HeldBy(m)' <=> h \in HeldBy(m) \/ h \in Region(n) \X {n.type}
    BY <1>1, <1>2, HeldIs, HeldIsNext, Zenon DEF Grows
  <2> QED
    BY <1>2, <2>1
<1>3. CASE m # n.mandate
  <2>1. \A h : h \in HeldBy(m)' <=> h \in HeldBy(m)
    BY <1>3, HeldIs, HeldIsNext, Zenon DEF Grows
  <2> QED
    BY <1>3, <2>1
<1> QED
  BY <1>2, <1>3

(* Every step is of one of the three kinds. *)
LEMMA Kinds ==
  ASSUME IInv, [Next]_vars
  PROVE \/ Same
        \/ \E t \in Threads : pc[t] = "sub" /\ Shrinks(new[t])
        \/ \E t \in Threads : (LockMerge(t) \/ LockInsert(t)) /\ Grows(new[t])
<1>1. CASE UNCHANGED anchor
  BY <1>1, SameFields
<1>2. CASE ~UNCHANGED anchor
  <2>1. PICK t \in Threads :
          \/ LockSleep(t) \/ SpuriousWakeup(t) \/ LockMerge(t) \/ LockInsert(t)
          \/ SubSplit(t) \/ SubCutEnd(t) \/ SubCutStart(t) \/ SubRemove(t)
    BY <1>2 DEF Next, vars, CallLock, CallLockBad, CallUnlock, lock_add, lock_sub,
                LockRefused, LockAsked, SubBegin, SubSkip, SubEnd
  <2>2. CASE LockSleep(t) \/ SpuriousWakeup(t)
    BY <2>2, SleepSame
  <2>3. CASE LockMerge(t) \/ LockInsert(t)
    BY <2>3, MergeGrows, InsertGrows
  <2>4. CASE SubSplit(t) \/ SubCutEnd(t) \/ SubCutStart(t) \/ SubRemove(t)
    <3>1. pc[t] = "sub"
      BY <2>4 DEF SubSplit, SubCutEnd, SubCutStart, SubRemove, InLoop
    <3> QED
      BY <2>4, <3>1, SplitShrinks, CutShrinks, RemoveShrinks
  <2> QED
    BY <2>1, <2>2, <2>3, <2>4
<1> QED
  BY <1>1, <1>2

(* Only a return of lock_add reports the success of a $lock. *)
LEMMA SuccessSteps ==
  ASSUME IInv, [Next]_vars, NEW u \in Threads, pc[u] = "add", ~success[u], success'[u]
  PROVE LockAsked(u) \/ LockMerge(u) \/ LockInsert(u)
<1>1. Next
  BY DEF vars
<1>2. PICK t \in Threads :
        \/ \E m \in Mandates, y \in Types, r \in LockRegions, a \in action_t :
             CallLock(t, m, y, r, a)
        \/ \E r \in LockRegions : CallLockBad(t, r)
        \/ \E m \in Mandates, r \in UnlockRegions : CallUnlock(t, m, r)
        \/ lock_add(t)
        \/ SpuriousWakeup(t)
        \/ lock_sub(t)
  BY <1>1 DEF Next
<1>3. ASSUME NEW m \in Mandates, NEW y \in Types, NEW r \in LockRegions,
             NEW a \in action_t, CallLock(t, m, y, r, a)
      PROVE FALSE
  BY <1>3 DEF IInv, TypeOK, CallLock
<1>4. ASSUME NEW r \in LockRegions, CallLockBad(t, r) PROVE FALSE
  BY <1>4 DEF IInv, TypeOK, CallLockBad
<1>5. ASSUME NEW m \in Mandates, NEW r \in UnlockRegions, CallUnlock(t, m, r) PROVE FALSE
  BY <1>5 DEF IInv, TypeOK, CallUnlock
<1>6. ~(LockRefused(t) \/ LockSleep(t) \/ SpuriousWakeup(t))
  BY DEF IInv, TypeOK, LockRefused, LockSleep, SpuriousWakeup, Return
<1>7. ~(\/ SubBegin(t) \/ SubSkip(t) \/ SubSplit(t) \/ SubCutEnd(t) \/ SubCutStart(t)
        \/ SubRemove(t))
  BY DEF SubBegin, SubSkip, SubSplit, SubCutEnd, SubCutStart, SubRemove
<1>8. ~SubEnd(t)
  BY DEF IInv, TypeOK, SubEnd, Return
<1>9. LockAsked(t) \/ LockMerge(t) \/ LockInsert(t)
  BY <1>2, <1>3, <1>4, <1>5, <1>6, <1>7, <1>8 DEF lock_add, lock_sub
<1>10. t = u
  BY <1>9 DEF IInv, TypeOK, LockAsked, LockMerge, LockInsert, Return
<1> QED
  BY <1>9, <1>10

(* A thread that is in $lock after a step was there before, with the same  *)
(* request, or has just called it.                                         *)
LEMMA AskedSteps ==
  ASSUME IInv, [Next]_vars, NEW u \in Threads, pc'[u] \in {"add", "sleep"}
  PROVE \/ /\ pc[u] \in {"add", "sleep"}
           /\ new'[u] = new[u] /\ success'[u] = success[u]
        \/ \E m \in Mandates, y \in Types, r \in LockRegions, a \in action_t :
             CallLock(u, m, y, r, a)
<1>1. CASE UNCHANGED vars
  BY <1>1 DEF vars
<1>2. CASE Next
  <2>1. PICK t \in Threads :
          \/ \E m \in Mandates, y \in Types, r \in LockRegions, a \in action_t :
               CallLock(t, m, y, r, a)
          \/ \E r \in LockRegions : CallLockBad(t, r)
          \/ \E m \in Mandates, r \in UnlockRegions : CallUnlock(t, m, r)
          \/ lock_add(t)
          \/ SpuriousWakeup(t)
          \/ lock_sub(t)
    BY <1>2 DEF Next
  <2>2. \A i \in DOMAIN anchor : \A v \in anchor[i].queue : pc[v] = "sleep"
    BY DEF IInv, QueuesOK
  <2>3. ASSUME NEW m \in Mandates, NEW y \in Types, NEW r \in LockRegions,
               NEW a \in action_t, CallLock(t, m, y, r, a), u # t
        PROVE pc[u] \in {"add", "sleep"} /\ new'[u] = new[u] /\ success'[u] = success[u]
    BY <2>3 DEF IInv, TypeOK, CallLock
  <2>4. ASSUME NEW r \in LockRegions, CallLockBad(t, r)
        PROVE pc[u] \in {"add", "sleep"} /\ new'[u] = new[u] /\ success'[u] = success[u]
    BY <2>4 DEF IInv, TypeOK, CallLockBad
  <2>5. ASSUME NEW m \in Mandates, NEW r \in UnlockRegions, CallUnlock(t, m, r)
        PROVE pc[u] \in {"add", "sleep"} /\ new'[u] = new[u] /\ success'[u] = success[u]
    BY <2>5 DEF IInv, TypeOK, CallUnlock
  <2>6. CASE LockRefused(t) \/ LockSleep(t) \/ LockAsked(t) \/ LockInsert(t)
    BY <2>6 DEF IInv, TypeOK, LockRefused, LockSleep, LockAsked, LockInsert, Return, Adding
  <2>7. CASE LockMerge(t)
    <3>1. PICK b \in DOMAIN anchor : pc' = WokenAnd(anchor[b].queue, t, "idle")
      BY <2>7 DEF LockMerge, Mergeable
    <3> QED
      BY <2>2, <2>7, <3>1 DEF IInv, TypeOK, LockMerge, Return, WokenAnd, Woken
  <2>8. CASE SpuriousWakeup(t)
    BY <2>8 DEF IInv, TypeOK, SpuriousWakeup
  <2>9. CASE SubBegin(t) \/ SubSkip(t) \/ SubEnd(t)
    BY <2>9 DEF IInv, TypeOK, SubBegin, SubSkip, SubEnd, Return
  <2>10. CASE SubSplit(t) \/ SubCutEnd(t) \/ SubCutStart(t) \/ SubRemove(t)
    <3>1. /\ base[t] \in DOMAIN anchor /\ pc' = Woken(anchor[base[t]].queue)
          /\ UNCHANGED <<new, success>>
      BY <2>10 DEF SubSplit, SubCutEnd, SubCutStart, SubRemove, InLoop, Elem
    <3> QED
      BY <2>2, <3>1 DEF IInv, TypeOK, Woken
  <2> QED
    BY <2>1, <2>3, <2>4, <2>5, <2>6, <2>7, <2>8, <2>9, <2>10 DEF lock_add, lock_sub
<1> QED
  BY <1>1, <1>2

(* A running $lock has a region that was asked for and has not succeeded. *)
LEMMA AskedAlways == Spec => []AskedOK
<1>1. Init => AskedOK
  BY DEF Init, AskedOK
<1>2. IInv /\ AskedOK /\ [Next]_vars => AskedOK'
  <2> SUFFICES ASSUME IInv, AskedOK, [Next]_vars, NEW u \in Threads,
                      pc'[u] \in {"add", "sleep"}
               PROVE /\ ~success'[u]
                     /\ \E r \in LockRegions : new'[u].start = r.start /\ new'[u].end = r.end
    BY DEF AskedOK
  <2>1. CASE /\ pc[u] \in {"add", "sleep"}
             /\ new'[u] = new[u] /\ success'[u] = success[u]
    BY <2>1 DEF AskedOK
  <2>2. ASSUME NEW m \in Mandates, NEW y \in Types, NEW r \in LockRegions,
               NEW a \in action_t, CallLock(u, m, y, r, a)
        PROVE ~success'[u] /\ new'[u].start = r.start /\ new'[u].end = r.end
    BY <2>2 DEF IInv, TypeOK, CallLock
  <2> QED
    BY <2>1, <2>2, AskedSteps
<1> QED
  BY <1>1, <1>2, IInvAlways, PTL DEF Spec

(* RegionLock decides conflicts by the same matrix. *)
LEMMA SameMatrix == \A x, y : RL!Confl(x, y) = Confl(x, y)
  BY DEF RL!Confl, RL!confl, Confl, confl

(* What the scan of lock_add found out is what RegionLock demands. *)
LEMMA ScanGrantable ==
  ASSUME IInv, NEW t \in Threads, pc[t] = "add", Conflicts(new[t]) = {},
         NEW m \in Mandates, m # new[t].mandate, NEW h \in HeldBy(m), h[1] \in Region(new[t])
  PROVE ~Confl(h[2], new[t].type)
<1>1. PICK i \in DOMAIN anchor :
        anchor[i].mandate = m /\ anchor[i].type = h[2] /\ h[1] \in Region(anchor[i])
  BY HeldIs, Zenon DEF IInv, Holds
<1>2. Overlaps(anchor[i], new[t])
  BY <1>1, AnchorTyped, CallTyped DEF IInv, Overlaps, Region
<1> QED
  BY <1>1, <1>2 DEF Conflicts

(***************************************************************************)
(* lock_ulinux implements the region locks of the nest interface: $lock    *)
(* adds its region only when no other mandate holds a conflicting type on  *)
(* an address of it, $unlock takes addresses from one mandate only, and    *)
(* splitting, merging, waiting and waking are invisible.                   *)
(***************************************************************************)
THEOREM RefinesRegionLock == Spec => ImplementsRegionLock
<1> DEFINE held == [m \in Mandates |-> HeldBy(m)]
<1>1. Init => RL!Init
  <2> SUFFICES ASSUME Init, NEW m \in Mandates PROVE HeldBy(m) = {}
    BY DEF RL!Init
  <2>1. DOMAIN anchor = {}
    BY DEF Init
  <2> QED
    BY <2>1 DEF HeldBy
<1>2. IInv /\ IInv' /\ AskedOK /\ [Next]_vars => [RL!Next]_held
  <2> SUFFICES ASSUME IInv, IInv', AskedOK, [Next]_vars PROVE [RL!Next]_held
    OBVIOUS
  <2>1. TypeOK /\ TypeOK'
    BY DEF IInv
  <2>2. CASE Same
    BY <2>1, <2>2, SameHeld
  <2>3. ASSUME NEW t \in Threads, pc[t] = "sub", Shrinks(new[t]) PROVE RL!Next
    <3>1. PICK n \in Call : n = new[t]
      BY <2>3 DEF IInv, CallsOK
    <3>2. PICK m \in Mandates : m = n.mandate
      BY <3>1 DEF Call
    <3>3. HeldBy(m)' \subseteq HeldBy(m)
      BY <2>1, <2>3, <3>1, ShrinksHeld
    <3>4. \A k \in Mandates \ {m} : HeldBy(k)' = HeldBy(k)
      BY <2>1, <2>3, <3>1, <3>2, ShrinksHeld
    <3>5. RL!Shed(m)
      BY <3>3, <3>4 DEF RL!Shed
    <3> QED
      BY <3>5 DEF RL!Next
  <2>4. ASSUME NEW t \in Threads, LockMerge(t) \/ LockInsert(t), Grows(new[t])
        PROVE RL!Next
    <3>1. pc[t] = "add" /\ Conflicts(new[t]) = {}
      BY <2>4 DEF LockMerge, LockInsert, Adding
    <3>2. PICK n \in Call : n = new[t]
      BY <3>1, CallTyped
    <3>3. PICK m \in Mandates, y \in Types, R \in SUBSET LockedAddrs :
            m = n.mandate /\ y = n.type /\ R = Region(n) /\ R \subseteq Nat
      <4>1. Region(n) \subseteq LockedAddrs
        BY <3>1, <3>2 DEF AskedOK, LockedAddrs, Region
      <4>2. Region(n) \subseteq Nat /\ n.mandate \in Mandates /\ n.type \in Types
        BY <3>1, <3>2, CallTyped DEF Region
      <4> QED
        BY <4>1, <4>2
    <3>4. \A k \in Mandates : HeldBy(k)' = IF k = m THEN HeldBy(k) \cup (R \X {y})
                                            ELSE HeldBy(k)
      BY <2>1, <2>4, <3>2, <3>3, GrowsHeld
    <3>5. \A k \in Mandates \ {m} : \A h \in HeldBy(k) : h[1] \in R => ~RL!Confl(h[2], y)
      BY <3>1, <3>2, <3>3, ScanGrantable, SameMatrix
    <3>6. RL!Grantable(m, R, y)
      BY <3>5 DEF RL!Grantable
    <3>7. RL!Grant(m, R, y)
      <4>1. held' = [held EXCEPT ![m] = held'[m]]
        BY <3>4
      <4>2. held[m] = HeldBy(m) /\ held'[m] = HeldBy(m) \cup (R \X {y})
        BY <3>4
      <4> HIDE DEF held
      <4>3. /\ R \X {y} \subseteq held'[m]
            /\ held'[m] \subseteq held[m] \cup (R \X {y})
            /\ {h \in held[m] : h[1] \notin R} \subseteq held'[m]
        BY <4>2
      <4> QED
        BY <3>6, <4>1, <4>3 DEF RL!Grant, held
    <3> QED
      BY <3>7 DEF RL!Next
  <2> QED
    BY <2>2, <2>3, <2>4, Kinds
<1> QED
  BY <1>1, <1>2, IInvAlways, AskedAlways, PTL DEF Spec, ImplementsRegionLock, RL!Spec

(***************************************************************************)
(* Holdings change as the callers asked: a mandate loses an address only   *)
(* inside the region of its running $unlock, gains one only inside the     *)
(* region of its $lock, and a $lock that reports success holds the whole   *)
(* region with the type asked for, merged or not.  The proof goes through  *)
(* a stronger fact, LostAsAsked: this brick never loses anything in $lock, *)
(* not even what the property leaves open.                                 *)
(***************************************************************************)
THEOREM ChangesAsAsked == Spec => HoldingsAsAsked
<1> DEFINE LostAsAsked ==
             \A m \in Mandates : \A h \in HeldBy(m) \ HeldBy(m)' :
               \E t \in Threads : /\ pc[t] = "sub"
                                  /\ new[t].mandate = m
                                  /\ h[1] \in Region(new[t])
           GainedAsAsked ==
             \A m \in Mandates : \A h \in HeldBy(m)' \ HeldBy(m) :
               \E t \in Threads : /\ pc[t] = "add"
                                  /\ success'[t]
                                  /\ new[t].mandate = m
                                  /\ h \in Region(new[t]) \X {new[t].type}
           SuccessMeansHeld ==
             \A t \in Threads, m \in Mandates :
               /\ pc[t] = "add"
               /\ success'[t]
               /\ new[t].mandate = m
               /\ new[t].action # "ask"
               => Region(new[t]) \X {new[t].type} \subseteq HeldBy(m)'
<1>1. ASSUME IInv, IInv', AskedOK, [Next]_vars
      PROVE LostAsAsked /\ GainedAsAsked /\ SuccessMeansHeld
  <2>1. TypeOK /\ TypeOK'
    BY <1>1 DEF IInv
  <2>2. ASSUME NEW t \in Threads, LockMerge(t) \/ LockInsert(t), NEW m
        PROVE HeldBy(m)' = IF m = new[t].mandate
                           THEN HeldBy(m) \cup (Region(new[t]) \X {new[t].type})
                           ELSE HeldBy(m)
    <3>1. pc[t] = "add"
      BY <2>2 DEF LockMerge, LockInsert, Adding
    <3>2. PICK n \in Call : n = new[t]
      BY <1>1, <3>1, CallTyped
    <3>3. Region(n) \subseteq Nat /\ n.type \in Types
      BY <1>1, <3>1, <3>2, CallTyped DEF Region
    <3>4. Grows(n)
      BY <1>1, <2>2, <3>2, MergeGrows, InsertGrows
    <3> QED
      BY <2>1, <3>2, <3>3, <3>4, GrowsHeld
  <2>3. SuccessMeansHeld
    <3> SUFFICES ASSUME NEW t \in Threads, NEW m \in Mandates, pc[t] = "add", success'[t],
                        new[t].mandate = m, new[t].action # "ask"
                 PROVE Region(new[t]) \X {new[t].type} \subseteq HeldBy(m)'
      OBVIOUS
    <3>1. ~success[t]
      BY <1>1 DEF AskedOK
    <3>2. LockMerge(t) \/ LockInsert(t)
      BY <1>1, <3>1, SuccessSteps DEF LockAsked
    <3> QED
      BY <2>2, <3>2
  <2>4. CASE Same
    BY <2>1, <2>3, <2>4, SameHeld
  <2>5. ASSUME NEW t \in Threads, pc[t] = "sub", Shrinks(new[t])
        PROVE LostAsAsked /\ GainedAsAsked
    <3>1. PICK n : n = new[t]
      OBVIOUS
    <3>2. \A m \in Mandates :
            /\ HeldBy(m)' \subseteq HeldBy(m)
            /\ \A h \in HeldBy(m) \ HeldBy(m)' : m = n.mandate /\ h[1] \in Region(n)
      BY <2>1, <2>5, <3>1, ShrinksHeld
    <3> QED
      BY <2>5, <3>1, <3>2
  <2>6. ASSUME NEW t \in Threads, LockMerge(t) \/ LockInsert(t)
        PROVE LostAsAsked /\ GainedAsAsked
    <3>1. pc[t] = "add" /\ success'[t]
      BY <1>1, <2>6 DEF IInv, TypeOK, LockMerge, LockInsert, Adding, Return
    <3> QED
      BY <2>2, <2>6, <3>1
  <2> QED
    BY <1>1, <2>3, <2>4, <2>5, <2>6, Kinds
<1>2. [][LostAsAsked /\ GainedAsAsked /\ SuccessMeansHeld]_vars => HoldingsAsAsked
  <2>1. LostAsAsked /\ GainedAsAsked /\ SuccessMeansHeld =>
          (/\ \A m \in Mandates :
                /\ \A h \in HeldBy(m) \ HeldBy(m)' :
                     \E t \in Threads : /\ pc[t] = "sub" \/ Retyped(t, h[2])
                                        /\ new[t].mandate = m
                                        /\ h[1] \in Region(new[t])
                /\ \A h \in HeldBy(m)' \ HeldBy(m) :
                     \E t \in Threads : /\ pc[t] = "add"
                                        /\ success'[t]
                                        /\ new[t].mandate = m
                                        /\ h \in Region(new[t]) \X {new[t].type}
           /\ SuccessMeansHeld)
    OBVIOUS
  <2> QED
    BY <2>1, PTL DEF HoldingsAsAsked
<1>3. IInv /\ IInv' /\ AskedOK /\ [Next]_vars =>
        [LostAsAsked /\ GainedAsAsked /\ SuccessMeansHeld]_vars
  BY <1>1
<1> QED
  BY <1>2, <1>3, IInvAlways, AskedAlways, PTL DEF Spec
==============================================================================
