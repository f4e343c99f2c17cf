--------------------------- MODULE LockMandProofs ----------------------------
(***************************************************************************)
(* Proofs about LockMand, for every set of mandates, requests, types and   *)
(* actions.                                                                *)
(*                                                                         *)
(* The safety properties are not inductive.  What a user holds is entered  *)
(* when $lock returns, many turns of the loop after the list was changed   *)
(* for it, so the inductive invariant IInv says what holds in between:     *)
(* every address of a request that is being melted in is either in the     *)
(* list or in a part still to be done (MeltOK), the record prev_lock ends  *)
(* where the part now begins and is as strong (FrameOK), the region that   *)
(* will be reported is free of conflicting holders (GrantOK), and what     *)
(* $unlock is taking out is no longer held (UnheldOK).                     *)
(*                                                                         *)
(* The edits of the list are composed of four (link in, change in place,   *)
(* take out, split).  Edited says of each which sleepers are sent on and   *)
(* that the others sleep where they slept, CoverKept that no coverage is   *)
(* lost; both can be chained, and the actions are proved along the chain.  *)
(*                                                                         *)
(* That the records of one mandate do not overlap needs more, DInv: the    *)
(* own records in the way of the part being melted in stand at lock or     *)
(* behind it (GapOK), and no region to be unlocked is empty (RangesOK).    *)
(***************************************************************************)
EXTENDS LockMand, LockListLemmas

------------------------------------------------------------------------------
(* The parts of a packed type. *)
LEMMA TypeParts ==
  ASSUME NEW y \in MutexTypes
  PROVE  /\ y % 4 \in 0 .. 2 /\ y \div 4 \in 0 .. 2
         /\ y = make_lock_type(y % 4, y \div 4)
BY TypeValues DEF make_lock_type

(* Packing two lock strengths gives a type that unpacks to them. *)
LEMMA TypeOfParts ==
  ASSUME NEW d \in 0 .. 2, NEW a \in 0 .. 2
  PROVE  /\ make_lock_type(d, a) \in MutexTypes
         /\ make_lock_type(d, a) % 4 = d /\ make_lock_type(d, a) \div 4 = a
<1>1. make_lock_type(d, a) \in MutexTypes
  BY DEF MutexTypes, lock_t, lock_none, lock_read, lock_write
<1>2. QED
  BY <1>1 DEF make_lock_type

(* Everything that has a strength. *)
Strong(x) == x.type \in MutexTypes /\ x.oblig \in BOOLEAN

(* The data and address parts of a type are none, read or write. *)
LEMMA PartsInRange ==
  ASSUME NEW x, Strong(x)
  PROVE  DataType(x) \in 0 .. 2 /\ AddrType(x) \in 0 .. 2
BY TypeParts DEF Strong, DataType, AddrType

(* Being as strong is reflexive ... *)
LEMMA AsStrongItself ==
  ASSUME NEW x, Strong(x)
  PROVE  AsStrong(x, x)
BY PartsInRange DEF AsStrong

(* ... and transitive. *)
LEMMA AsStrongChain ==
  ASSUME NEW x, NEW y, NEW z, Strong(x), Strong(y), Strong(z), AsStrong(x, y), AsStrong(y, z)
  PROVE  AsStrong(x, z)
<1>1. /\ DataType(x) \in 0 .. 2 /\ AddrType(x) \in 0 .. 2
      /\ DataType(y) \in 0 .. 2 /\ AddrType(y) \in 0 .. 2
      /\ DataType(z) \in 0 .. 2 /\ AddrType(z) \in 0 .. 2
  BY PartsInRange
<1>2. QED
  BY <1>1 DEF AsStrong

(* A conflict is one of the data locks or one of the address locks. *)
LEMMA ConflictInPart ==
  ASSUME NEW y \in MutexTypes, NEW x, Strong(x)
  PROVE  is_conflict(y, x.type) <=> \/ Excludes(y % 4, DataType(x))
                                    \/ Excludes(y \div 4, AddrType(x))
BY MaskRule DEF Strong, DataType, AddrType

(* The mask test of is_conflict does not depend on who asks. *)
LEMMA ConflictSymmetric ==
  ASSUME NEW x \in MutexTypes, NEW y \in MutexTypes
  PROVE  is_conflict(x, y) <=> is_conflict(y, x)
BY MaskRule DEF Excludes

(* What excludes a weaker lock excludes a stronger one. *)
LEMMA ExcludesGrows ==
  ASSUME NEW k \in 0 .. 2, NEW l \in 0 .. 2, NEW r \in 0 .. 2, r >= l, Excludes(k, l)
  PROVE  Excludes(k, r)
BY DEF Excludes, lock_none, lock_write

(* Whoever conflicts with a lock conflicts with a stronger one. *)
LEMMA ConflictGrows ==
  ASSUME NEW y \in MutexTypes, NEW x, NEW z, Strong(x), Strong(z), AsStrong(z, x),
         is_conflict(y, x.type)
  PROVE  is_conflict(y, z.type)
<1>1. /\ DataType(x) \in 0 .. 2 /\ AddrType(x) \in 0 .. 2
      /\ DataType(z) \in 0 .. 2 /\ AddrType(z) \in 0 .. 2
  BY PartsInRange
<1>2. y % 4 \in 0 .. 2 /\ y \div 4 \in 0 .. 2
  BY TypeParts
<1>3. Excludes(y % 4, DataType(x)) \/ Excludes(y \div 4, AddrType(x))
  BY ConflictInPart
<1>4. DataType(z) >= DataType(x) /\ AddrType(z) >= AddrType(x)
  BY DEF AsStrong
<1>5. Excludes(y % 4, DataType(z)) \/ Excludes(y \div 4, AddrType(z))
  BY <1>1, <1>2, <1>3, <1>4, ExcludesGrows
<1>6. QED
  BY <1>5, ConflictInPart

------------------------------------------------------------------------------
(* The records of the list: none of them is empty. *)
Rec == {l \in LockRec : l.start < l.end}

(* The fields of a record of the list. *)
LEMMA RecFields ==
  ASSUME NEW l \in Rec
  PROVE  /\ l.start \in Nat /\ l.end \in Nat /\ l.start < l.end /\ l.mand \in Mandates
         /\ l.waiters \in SUBSET Mandates /\ l.type \in MutexTypes /\ l.oblig \in BOOLEAN
         /\ Strong(l)
BY DEF Rec, LockRec, Strong

(* The fields of a lock descriptor. *)
LEMMA DescFields ==
  ASSUME NEW d \in Desc
  PROVE  /\ d.start \in Nat /\ d.end \in Nat /\ d.mand \in Mandates
         /\ d.type \in MutexTypes /\ d.oblig \in BOOLEAN /\ Strong(d)
BY DEF Desc, Strong

(***************************************************************************)
(* What is copied from a record has its owner and strength, and no         *)
(* sleepers.                                                               *)
(***************************************************************************)
LEMMA LeftoverFacts ==
  ASSUME NEW l \in Rec, NEW a \in Nat, NEW b \in Nat, a < b
  PROVE  /\ Leftover(l, a, b) \in Rec
         /\ Leftover(l, a, b).start = a /\ Leftover(l, a, b).end = b
         /\ Leftover(l, a, b).mand = l.mand /\ Leftover(l, a, b).waiters = {}
         /\ AsStrong(Leftover(l, a, b), l) /\ AsStrong(l, Leftover(l, a, b))
         /\ Leftover(l, a, b).type = l.type /\ Leftover(l, a, b).oblig = l.oblig
<1>1. PICK r : r = [l EXCEPT !.start = a, !.end = b, !.waiters = {}]
  OBVIOUS
<1>2. /\ r \in Rec /\ r.start = a /\ r.end = b /\ r.mand = l.mand /\ r.waiters = {}
      /\ r.type = l.type /\ r.oblig = l.oblig
  BY <1>1 DEF Rec, LockRec
<1>3. AsStrong(r, l) /\ AsStrong(l, r)
  <2>1. DataType(l) \in 0 .. 2 /\ AddrType(l) \in 0 .. 2
    BY RecFields, PartsInRange
  <2>2. DataType(r) = DataType(l) /\ AddrType(r) = AddrType(l)
    BY <1>2 DEF DataType, AddrType
  <2>3. QED
    BY <1>2, <2>1, <2>2 DEF AsStrong
<1>4. Leftover(l, a, b) = r
  BY <1>1 DEF Leftover
<1>5. QED
  BY <1>2, <1>3, <1>4, Zenon

(* The same, for a name given to the copy. *)
LEMMA LeftoverIs ==
  ASSUME NEW l \in Rec, NEW a \in Nat, NEW b \in Nat, a < b, NEW r, r = Leftover(l, a, b)
  PROVE  /\ r \in Rec /\ r.start = a /\ r.end = b /\ r.mand = l.mand /\ r.waiters = {}
         /\ AsStrong(r, l) /\ r.type = l.type /\ r.oblig = l.oblig
BY LeftoverFacts

(***************************************************************************)
(* set_strongest_lock_type leaves region, owner and sleepers alone, and    *)
(* the record is then as strong as it was and as the request.              *)
(***************************************************************************)
LEMMA StrengthenedFacts ==
  ASSUME NEW l \in Rec, NEW d \in Desc
  PROVE  /\ Strengthened(l, d) \in Rec
         /\ Strengthened(l, d).start = l.start /\ Strengthened(l, d).end = l.end
         /\ Strengthened(l, d).mand = l.mand /\ Strengthened(l, d).waiters = l.waiters
         /\ AsStrong(Strengthened(l, d), l) /\ AsStrong(Strengthened(l, d), d)
<1> DEFINE p == Larger(DataType(l), DataType(d))  q == Larger(AddrType(l), AddrType(d))
<1>1. /\ DataType(l) \in 0 .. 2 /\ AddrType(l) \in 0 .. 2
      /\ DataType(d) \in 0 .. 2 /\ AddrType(d) \in 0 .. 2
  BY RecFields, DescFields, PartsInRange
<1>2. /\ p \in 0 .. 2 /\ p >= DataType(l) /\ p >= DataType(d)
      /\ q \in 0 .. 2 /\ q >= AddrType(l) /\ q >= AddrType(d)
  BY <1>1 DEF Larger
<1>3. PICK y \in MutexTypes : y = make_lock_type(p, q) /\ y % 4 = p /\ y \div 4 = q
  BY <1>2, TypeOfParts
<1>4. PICK r : r = [l EXCEPT !.type = y, !.oblig = @ \/ d.oblig]
  OBVIOUS
<1>5. /\ r \in Rec /\ r.start = l.start /\ r.end = l.end /\ r.mand = l.mand
      /\ r.waiters = l.waiters /\ r.type = y
  <2>1. (l.oblig \/ d.oblig) \in BOOLEAN
    OBVIOUS
  <2>2. QED
    BY <1>4, <2>1 DEF Rec, LockRec
<1>6. r.oblig = (l.oblig \/ d.oblig)
  BY <1>4 DEF Rec, LockRec
<1>7. DataType(r) = p /\ AddrType(r) = q
  BY <1>3, <1>5 DEF DataType, AddrType
<1>8. AsStrong(r, l) /\ AsStrong(r, d)
  BY <1>2, <1>6, <1>7, Zenon DEF AsStrong
<1>9. Strengthened(l, d) = r
  BY <1>3, <1>4, Zenon DEF Strengthened
<1>10. QED
  BY <1>5, <1>8, <1>9, Zenon

(* What a user holds by two grants is the least that is as strong as both. *)
LEMMA BothFacts ==
  ASSUME NEW x \in Strength, NEW y \in Strength
  PROVE  /\ Both(x, y) \in Strength
         /\ DataType(Both(x, y)) = Larger(DataType(x), DataType(y))
         /\ AddrType(Both(x, y)) = Larger(AddrType(x), AddrType(y))
         /\ Both(x, y).oblig => x.oblig \/ y.oblig
<1> DEFINE p == Larger(DataType(x), DataType(y))  q == Larger(AddrType(x), AddrType(y))
<1>0. Strong(x) /\ Strong(y)
  BY DEF Strength, Strong
<1>1. /\ DataType(x) \in 0 .. 2 /\ AddrType(x) \in 0 .. 2
      /\ DataType(y) \in 0 .. 2 /\ AddrType(y) \in 0 .. 2
  BY <1>0, PartsInRange
<1>2. /\ p \in 0 .. 2 /\ p >= DataType(x) /\ p >= DataType(y)
      /\ q \in 0 .. 2 /\ q >= AddrType(x) /\ q >= AddrType(y)
  BY <1>1 DEF Larger
<1>3. PICK t \in MutexTypes : t % 4 = p /\ t \div 4 = q
  BY <1>2, TypeOfParts
<1>4. PICK w : w = [type |-> t, oblig |-> x.oblig \/ y.oblig]
  OBVIOUS
<1>5. w \in Strength /\ w.type = t
  <2>1. (x.oblig \/ y.oblig) \in BOOLEAN
    OBVIOUS
  <2>2. QED
    BY <1>4, <2>1 DEF Strength
<1>6. w.oblig = (x.oblig \/ y.oblig)
  BY <1>4
<1>7. DataType(w) = p /\ AddrType(w) = q
  BY <1>3, <1>5 DEF DataType, AddrType
<1>8. AsStrong(w, x) /\ AsStrong(w, y)
  BY <1>2, <1>6, <1>7, Zenon DEF AsStrong
<1>9. \A v \in Strength : AsStrong(v, x) /\ AsStrong(v, y) => AsStrong(v, w)
  <2>1. TAKE v \in Strength
  <2>2. HAVE AsStrong(v, x) /\ AsStrong(v, y)
  <2>3. DataType(v) \in 0 .. 2 /\ AddrType(v) \in 0 .. 2
    BY PartsInRange DEF Strength, Strong
  <2>4. DataType(v) >= p /\ AddrType(v) >= q
    BY <1>1, <2>2, <2>3 DEF AsStrong, Larger
  <2>5. w.oblig => v.oblig
    BY <1>6, <2>2, Zenon DEF AsStrong
  <2>6. QED
    BY <1>7, <2>4, <2>5, Zenon DEF AsStrong
<1>10. PICK z \in Strength : /\ z = Both(x, y) /\ AsStrong(z, x) /\ AsStrong(z, y)
                             /\ \A v \in Strength : AsStrong(v, x) /\ AsStrong(v, y) => AsStrong(v, z)
  BY <1>5, <1>8, <1>9, Zenon DEF Both
<1>11. AsStrong(w, z) /\ AsStrong(z, w)
  BY <1>5, <1>8, <1>9, <1>10, Zenon
<1>12. DataType(z) \in 0 .. 2 /\ AddrType(z) \in 0 .. 2
  BY PartsInRange DEF Strength, Strong
<1>13. DataType(z) = p /\ AddrType(z) = q
  BY <1>2, <1>7, <1>11, <1>12 DEF AsStrong
<1>14. z.oblig => x.oblig \/ y.oblig
  BY <1>6, <1>11, Zenon DEF AsStrong
<1>15. QED
  BY <1>10, <1>13, <1>14, Zenon

------------------------------------------------------------------------------
(***************************************************************************)
(* How a list is edited.  A record grows when it is stretched or           *)
(* strengthened; the sleepers on it stay.                                  *)
(***************************************************************************)
Grown(l, r) == /\ r.waiters = l.waiters /\ r.mand = l.mand
               /\ r.start =< l.start /\ l.end =< r.end /\ AsStrong(r, l)

(* No mandate sleeps on two records. *)
WaitersApart(s) == \A i, j \in DOMAIN s : i # j => s[i].waiters \cap s[j].waiters = {}

(***************************************************************************)
(* List r is made from list s.  The sleepers in W are sent on; everybody   *)
(* else sleeps, if at all, on the record it slept on, which may have       *)
(* grown.                                                                  *)
(***************************************************************************)
Edited(s, r, W) ==
  /\ r \in Seq(Rec)
  /\ WaitersApart(r)
  /\ \A h \in DOMAIN r : \A q \in r[h].waiters :
       q \notin W /\ \E k \in DOMAIN s : q \in s[k].waiters
  /\ \A k \in DOMAIN s : s[k].waiters \subseteq W \/ \E h \in DOMAIN r : Grown(s[k], r[h])

(* A record of mandate m as strong as x covers address a. *)
HasAt(s, m, a, x) == \E h \in DOMAIN s : /\ s[h].mand = m /\ Covers(s[h], a)
                                         /\ AsStrong(s[h], x)

(* What a record covered stays covered, but for the addresses of mandates *)
(* in E.                                                                   *)
CoverKept(s, r, E) ==
  \A k \in DOMAIN s, a \in Nat :
    Covers(s[k], a) => <<s[k].mand, a>> \in E \/ HasAt(r, s[k].mand, a, s[k])

(* The elements of a list are records. *)
LEMMA SeqFacts ==
  ASSUME NEW s \in Seq(Rec)
  PROVE  /\ Len(s) \in Nat /\ DOMAIN s = 1 .. Len(s)
         /\ \A k \in DOMAIN s : s[k] \in Rec
OBVIOUS

(* Doing nothing is an edit. *)
LEMMA EditedItself ==
  ASSUME NEW s \in Seq(Rec), WaitersApart(s)
  PROVE  Edited(s, s, {}) /\ CoverKept(s, s, {})
<1>1. \A k \in DOMAIN s : s[k] \in Rec
  BY SeqFacts
<1>2. \A k \in DOMAIN s : AsStrong(s[k], s[k])
  BY <1>1, RecFields, AsStrongItself
<1>3. \A k \in DOMAIN s : Grown(s[k], s[k])
  BY <1>1, <1>2, RecFields DEF Grown
<1>4. QED
  BY <1>2, <1>3, Zenon DEF Edited, CoverKept, HasAt

(* A record that grows twice has grown. *)
LEMMA GrownChain ==
  ASSUME NEW x \in Rec, NEW y \in Rec, NEW z \in Rec, Grown(x, y), Grown(y, z)
  PROVE  Grown(x, z)
<1>1. AsStrong(z, x)
  BY RecFields, AsStrongChain DEF Grown
<1>2. QED
  BY <1>1, RecFields DEF Grown

(* Two edits are an edit: those sent on by either of them are sent on. *)
LEMMA EditedChain ==
  ASSUME NEW s \in Seq(Rec), NEW r, NEW t, NEW V, NEW W, Edited(s, r, V), Edited(r, t, W)
  PROVE  Edited(s, t, V \cup W)
<1>1. r \in Seq(Rec) /\ t \in Seq(Rec)
  BY DEF Edited
<1>2. /\ \A k \in DOMAIN s : s[k] \in Rec
      /\ \A k \in DOMAIN r : r[k] \in Rec
      /\ \A k \in DOMAIN t : t[k] \in Rec
  BY <1>1, SeqFacts
<1>3. ASSUME NEW h \in DOMAIN t, NEW q \in t[h].waiters
      PROVE  q \notin V \cup W /\ \E k \in DOMAIN s : q \in s[k].waiters
  <2>1. q \notin W
    BY <1>3 DEF Edited
  <2>2. PICK j \in DOMAIN r : q \in r[j].waiters
    BY <1>3 DEF Edited
  <2>3. QED
    BY <2>1, <2>2, Zenon DEF Edited
<1>4. ASSUME NEW k \in DOMAIN s, ~(s[k].waiters \subseteq V \cup W)
      PROVE  \E h \in DOMAIN t : Grown(s[k], t[h])
  <2>1. PICK j \in DOMAIN r : Grown(s[k], r[j])
    BY <1>4 DEF Edited
  <2>2. ~(r[j].waiters \subseteq W)
    BY <1>4, <2>1 DEF Grown
  <2>3. PICK h \in DOMAIN t : Grown(r[j], t[h])
    BY <2>2 DEF Edited
  <2>4. QED
    BY <1>2, <2>1, <2>3, GrownChain
<1>5. WaitersApart(t)
  BY DEF Edited
<1>6. QED
  BY <1>1, <1>3, <1>4, <1>5, Zenon DEF Edited

(***************************************************************************)
(* An edit that loses no coverage keeps a strong enough record at every    *)
(* address.                                                                *)
(***************************************************************************)
LEMMA HasKept ==
  ASSUME NEW r \in Seq(Rec), NEW t \in Seq(Rec), CoverKept(r, t, {}),
         NEW m, NEW a \in Nat, NEW x, Strong(x), HasAt(r, m, a, x)
  PROVE  HasAt(t, m, a, x)
<1>1. PICK h \in DOMAIN r : r[h].mand = m /\ Covers(r[h], a) /\ AsStrong(r[h], x)
  BY DEF HasAt
<1>2. PICK g \in DOMAIN t : t[g].mand = r[h].mand /\ Covers(t[g], a) /\ AsStrong(t[g], r[h])
  BY <1>1, Zenon DEF CoverKept, HasAt
<1>3. Strong(r[h]) /\ Strong(t[g])
  BY SeqFacts, RecFields
<1>4. AsStrong(t[g], x)
  BY <1>1, <1>2, <1>3, AsStrongChain
<1>5. QED
  BY <1>1, <1>2, <1>4, Zenon DEF HasAt

(* Two edits that lose no coverage lose none together. *)
LEMMA CoverChain ==
  ASSUME NEW s \in Seq(Rec), NEW r \in Seq(Rec), NEW t \in Seq(Rec),
         CoverKept(s, r, {}), CoverKept(r, t, {})
  PROVE  CoverKept(s, t, {})
<1>1. SUFFICES ASSUME NEW k \in DOMAIN s, NEW a \in Nat, Covers(s[k], a)
               PROVE  HasAt(t, s[k].mand, a, s[k])
  BY DEF CoverKept
<1>2. HasAt(r, s[k].mand, a, s[k])
  BY <1>1 DEF CoverKept
<1>3. Strong(s[k])
  BY SeqFacts, RecFields
<1>4. QED
  BY <1>2, <1>3, HasKept

(* A new record is linked in. *)
LEMMA InsertEdits ==
  ASSUME NEW s \in Seq(Rec), WaitersApart(s), NEW l \in Rec, l.waiters = {}
  PROVE  /\ Edited(s, InsertSorted(s, l), {})
         /\ CoverKept(s, InsertSorted(s, l), {})
         /\ \E h \in DOMAIN InsertSorted(s, l) : InsertSorted(s, l)[h] = l
<1>1. PICK r : r = InsertSorted(s, l)
  OBVIOUS
<1>2. r \in Seq(Rec) /\ AllKept(s, r) /\ OnlyAdded(s, r, l)
  BY <1>1, InsertKeepsRecords, Zenon
<1>3. PICK p \in DOMAIN r : /\ r[p] = l
                            /\ \A m \in DOMAIN r \ {p} : \E k \in DOMAIN s : r[m] = s[k]
                            /\ FromApart(s, r, DOMAIN r \ {p})
  BY <1>2, Zenon DEF OnlyAdded
<1>4. \A k \in DOMAIN s : s[k] \in Rec
  BY SeqFacts
<1>5. \A k \in DOMAIN s : AsStrong(s[k], s[k])
  BY <1>4, RecFields, AsStrongItself
<1>6. \A k \in DOMAIN s : Grown(s[k], s[k])
  BY <1>4, <1>5, RecFields DEF Grown
<1>7. WaitersApart(r)
  <2>1. SUFFICES ASSUME NEW i \in DOMAIN r, NEW j \in DOMAIN r, i # j
                 PROVE  r[i].waiters \cap r[j].waiters = {}
    BY Zenon DEF WaitersApart
  <2>2. CASE i = p \/ j = p
    BY <1>3, <2>2
  <2>3. CASE i # p /\ j # p
    <3>0. i \in DOMAIN r \ {p} /\ j \in DOMAIN r \ {p}
      BY <2>3
    <3>1. PICK k, h \in DOMAIN s : k # h /\ r[i] = s[k] /\ r[j] = s[h]
      BY <1>3, <2>1, <3>0, Zenon DEF FromApart
    <3>2. s[k].waiters \cap s[h].waiters = {}
      BY <3>1, Zenon DEF WaitersApart
    <3>3. QED
      BY <3>1, <3>2, Zenon
  <2>4. QED
    BY <2>2, <2>3, Zenon
<1>8. \A h \in DOMAIN r : \A q \in r[h].waiters :
        q \notin {} /\ \E k \in DOMAIN s : q \in s[k].waiters
  <2>1. SUFFICES ASSUME NEW h \in DOMAIN r, NEW q \in r[h].waiters
                 PROVE  \E k \in DOMAIN s : q \in s[k].waiters
    BY Zenon
  <2>2. h # p
    BY <1>3, <2>1
  <2>3. QED
    BY <1>3, <2>1, <2>2, Zenon
<1>9. Edited(s, r, {})
  BY <1>2, <1>6, <1>7, <1>8, Zenon DEF Edited, AllKept
<1>10. CoverKept(s, r, {})
  BY <1>2, <1>5, Zenon DEF CoverKept, HasAt, AllKept
<1>11. QED
  BY <1>1, <1>3, <1>9, <1>10, Zenon

(* A record is stretched or strengthened where it stands. *)
LEMMA UpdateEdits ==
  ASSUME NEW s \in Seq(Rec), WaitersApart(s), NEW i \in DOMAIN s, NEW l \in Rec, Grown(s[i], l)
  PROVE  /\ Edited(s, [s EXCEPT ![i] = l], {})
         /\ CoverKept(s, [s EXCEPT ![i] = l], {})
         /\ DOMAIN [s EXCEPT ![i] = l] = DOMAIN s
         /\ \A k \in DOMAIN s : [s EXCEPT ![i] = l][k] = IF k = i THEN l ELSE s[k]
<1>1. PICK r : r = [s EXCEPT ![i] = l]
  OBVIOUS
<1>2. /\ r \in Seq(Rec) /\ DOMAIN r = DOMAIN s
      /\ \A k \in DOMAIN s : r[k] = IF k = i THEN l ELSE s[k]
  BY <1>1
<1>4. \A k \in DOMAIN s : s[k] \in Rec
  BY SeqFacts
<1>5. \A k \in DOMAIN s : AsStrong(s[k], s[k])
  BY <1>4, RecFields, AsStrongItself
<1>6. \A k \in DOMAIN s : Grown(s[k], r[k])
  <2>1. TAKE k \in DOMAIN s
  <2>2. Grown(s[k], s[k])
    BY <1>4, <1>5, RecFields DEF Grown
  <2>3. QED
    BY <1>2, <2>2
<1>7. WaitersApart(r)
  BY <1>2, <1>6, Zenon DEF WaitersApart, Grown
<1>8. \A h \in DOMAIN r : \A q \in r[h].waiters :
        q \notin {} /\ \E k \in DOMAIN s : q \in s[k].waiters
  BY <1>2, <1>6, Zenon DEF Grown
<1>9. Edited(s, r, {})
  BY <1>2, <1>6, <1>7, <1>8, Zenon DEF Edited
<1>10. CoverKept(s, r, {})
  <2>1. SUFFICES ASSUME NEW k \in DOMAIN s, NEW a \in Nat, Covers(s[k], a)
                 PROVE  HasAt(r, s[k].mand, a, s[k])
    BY Zenon DEF CoverKept
  <2>2. r[k] \in Rec /\ s[k] \in Rec /\ Grown(s[k], r[k])
    BY <1>2, <1>4, <1>6
  <2>3. Covers(r[k], a)
    BY <2>1, <2>2, RecFields DEF Covers, Grown
  <2>4. QED
    BY <1>2, <2>2, <2>3, Zenon DEF HasAt, Grown
<1>11. QED
  BY <1>1, <1>2, <1>9, <1>10, Zenon

(* A record is taken out. *)
LEMMA RemoveEdits ==
  ASSUME NEW s \in Seq(Rec), WaitersApart(s), NEW i \in DOMAIN s
  PROVE  /\ Edited(s, RemoveAt(s, i), s[i].waiters)
         /\ \A k \in DOMAIN s \ {i} : \E h \in DOMAIN RemoveAt(s, i) : RemoveAt(s, i)[h] = s[k]
<1>1. PICK r : r = RemoveAt(s, i)
  OBVIOUS
<1>2. Len(s) \in Nat /\ DOMAIN s = 1 .. Len(s) /\ \A k \in DOMAIN s : s[k] \in Rec
  BY SeqFacts
<1>3. /\ r \in Seq(Rec) /\ Len(r) = Len(s) - 1
      /\ \A k \in 1 .. (Len(s) - 1) : r[k] = IF k < i THEN s[k] ELSE s[k + 1]
  BY <1>1, <1>2, RemoveAtFacts
<1>4. DOMAIN r = 1 .. (Len(s) - 1)
  BY <1>3
<1> DEFINE From(m) == IF m < i THEN m ELSE m + 1
<1>5. \A m \in DOMAIN r : From(m) \in DOMAIN s \ {i} /\ r[m] = s[From(m)]
  BY <1>2, <1>3, <1>4
<1>6. \A m, n \in DOMAIN r : m # n => From(m) # From(n)
  BY <1>2, <1>4
<1>7. \A k \in DOMAIN s \ {i} : \E h \in DOMAIN r : r[h] = s[k]
  <2>1. i \in 1 .. Len(s)
    BY <1>2
  <2>2. OnlyRemoved(s, r, i)
    BY <1>1, <2>1, RemoveKeepsRecords, Zenon
  <2>3. QED
    BY <2>2, Zenon DEF OnlyRemoved
<1> HIDE DEF From
<1>8. \A k \in DOMAIN s : AsStrong(s[k], s[k])
  BY <1>2, RecFields, AsStrongItself
<1>9. \A k \in DOMAIN s : Grown(s[k], s[k])
  BY <1>2, <1>8, RecFields DEF Grown
<1>10. WaitersApart(r)
  <2>1. SUFFICES ASSUME NEW m \in DOMAIN r, NEW n \in DOMAIN r, m # n
                 PROVE  r[m].waiters \cap r[n].waiters = {}
    BY Zenon DEF WaitersApart
  <2>2. From(m) \in DOMAIN s /\ From(n) \in DOMAIN s /\ From(m) # From(n)
    BY <1>5, <1>6, <2>1
  <2>3. s[From(m)].waiters \cap s[From(n)].waiters = {}
    BY <2>2, Zenon DEF WaitersApart
  <2>4. QED
    BY <1>5, <2>3
<1>11. ASSUME NEW h \in DOMAIN r, NEW q \in r[h].waiters
       PROVE  q \notin s[i].waiters /\ \E k \in DOMAIN s : q \in s[k].waiters
  <2>1. From(h) \in DOMAIN s /\ From(h) # i /\ q \in s[From(h)].waiters
    BY <1>5, <1>11
  <2>2. s[From(h)].waiters \cap s[i].waiters = {}
    BY <2>1, Zenon DEF WaitersApart
  <2>3. QED
    BY <2>1, <2>2
<1>12. \A k \in DOMAIN s :
         s[k].waiters \subseteq s[i].waiters \/ \E h \in DOMAIN r : Grown(s[k], r[h])
  <2>1. TAKE k \in DOMAIN s
  <2>2. CASE k = i
    BY <2>2
  <2>3. CASE k # i
    BY <2>3, <1>7, <1>9
  <2>4. QED
    BY <2>2, <2>3
<1>13. Edited(s, r, s[i].waiters)
  BY <1>3, <1>10, <1>11, <1>12, Zenon DEF Edited
<1>14. QED
  BY <1>1, <1>7, <1>13, Zenon

(* Where a record is after another one was linked in. *)
LEMMA MovedTracks ==
  ASSUME NEW s \in Seq(Rec), NEW l \in Rec, NEW k \in DOMAIN s
  PROVE  /\ Moved(s, l, k) \in DOMAIN InsertSorted(s, l)
         /\ InsertSorted(s, l)[Moved(s, l, k)] = s[k]
<1>1. PICK r : r = InsertSorted(s, l)
  OBVIOUS
<1>2. Len(s) \in Nat /\ DOMAIN s = 1 .. Len(s)
  OBVIOUS
<1>3. PICK p \in 1 .. (Len(s) + 1) : p = PlaceOf(s, l)
  BY <1>2, PlaceInList, Zenon
<1>4. /\ r \in Seq(Rec) /\ Len(r) = Len(s) + 1
      /\ \A j \in 1 .. (Len(s) + 1) : r[j] = IF j < p THEN s[j] ELSE IF j = p THEN l ELSE s[j - 1]
  BY <1>1, <1>3, InsertSortedFacts, ZenonT(30)
<1>5. DOMAIN r = 1 .. (Len(s) + 1)
  BY <1>4
<1>6. PICK n : n = IF p =< k THEN k + 1 ELSE k
  OBVIOUS
<1>7. n \in 1 .. (Len(s) + 1) /\ r[n] = s[k]
  <2>1. CASE p =< k
    <3>1. n = k + 1 /\ n \in 1 .. (Len(s) + 1) /\ ~(n < p) /\ n # p /\ n - 1 = k
      BY <2>1, <1>2, <1>6
    <3>2. QED
      BY <3>1, <1>4
  <2>2. CASE ~(p =< k)
    <3>1. n = k /\ n \in 1 .. (Len(s) + 1) /\ n < p
      BY <2>2, <1>2, <1>6
    <3>2. QED
      BY <3>1, <1>4
  <2>3. QED
    BY <2>1, <2>2
<1>8. Moved(s, l, k) = n
  BY <1>3, <1>6, Zenon DEF Moved
<1>9. QED
  BY <1>1, <1>5, <1>7, <1>8, Zenon

(* A record is put in its place. *)
LEMMA PlacedAt ==
  ASSUME NEW s \in Seq(Rec), NEW l \in Rec
  PROVE  /\ PlaceOf(s, l) \in DOMAIN InsertSorted(s, l)
         /\ InsertSorted(s, l)[PlaceOf(s, l)] = l
<1>1. PICK r : r = InsertSorted(s, l)
  OBVIOUS
<1>2. Len(s) \in Nat /\ DOMAIN s = 1 .. Len(s)
  OBVIOUS
<1>3. PICK p \in 1 .. (Len(s) + 1) : p = PlaceOf(s, l)
  BY <1>2, PlaceInList, Zenon
<1>4. /\ r \in Seq(Rec) /\ Len(r) = Len(s) + 1
      /\ \A j \in 1 .. (Len(s) + 1) : r[j] = IF j < p THEN s[j] ELSE IF j = p THEN l ELSE s[j - 1]
  BY <1>1, <1>3, InsertSortedFacts, ZenonT(30)
<1>5. p \in DOMAIN r /\ r[p] = l
  BY <1>4
<1>6. QED
  BY <1>1, <1>3, <1>5, Zenon

(* A record is replaced by two that nobody sleeps on. *)
LEMMA SplitEdits ==
  ASSUME NEW s \in Seq(Rec), WaitersApart(s), NEW i \in DOMAIN s,
         NEW u \in Rec, NEW v \in Rec, u.waiters = {}, v.waiters = {},
         NEW x, x = SplitInto(s, i, u, v)
  PROVE  /\ Edited(s, x.list, s[i].waiters)
         /\ x.at \in DOMAIN x.list /\ x.list[x.at] = u
         /\ \E h \in DOMAIN x.list : x.list[h] = v
         /\ \A k \in DOMAIN s \ {i} : \E h \in DOMAIN x.list : x.list[h] = s[k]
<1>1. PICK t0 : t0 = RemoveAt(s, i)
  OBVIOUS
<1>2. PICK t1 : t1 = InsertSorted(t0, u)
  OBVIOUS
<1>3. PICK t2 : t2 = InsertSorted(t1, v)
  OBVIOUS
<1>4. /\ Edited(s, t0, s[i].waiters)
      /\ \A k \in DOMAIN s \ {i} : \E h \in DOMAIN t0 : t0[h] = s[k]
  BY <1>1, RemoveEdits, Zenon
<1>5. t0 \in Seq(Rec) /\ WaitersApart(t0)
  BY <1>4, Zenon DEF Edited
<1>6. Edited(t0, t1, {}) /\ AllKept(t0, t1)
  BY <1>2, <1>5, InsertEdits, InsertKeepsRecords, Zenon
<1>7. t1 \in Seq(Rec) /\ WaitersApart(t1)
  BY <1>6, Zenon DEF Edited
<1>8. /\ Edited(t1, t2, {}) /\ AllKept(t1, t2)
      /\ \E h \in DOMAIN t2 : t2[h] = v
  BY <1>3, <1>7, InsertEdits, InsertKeepsRecords, Zenon
<1>9. Edited(s, t2, s[i].waiters)
  <2>1. Edited(s, t1, s[i].waiters \cup {})
    BY <1>4, <1>6, EditedChain, Zenon
  <2>2. Edited(s, t2, (s[i].waiters \cup {}) \cup {})
    BY <2>1, <1>8, EditedChain, Zenon
  <2>3. (s[i].waiters \cup {}) \cup {} = s[i].waiters
    OBVIOUS
  <2>4. QED
    BY <2>2, <2>3, Zenon
<1>10. PICK p : p = PlaceOf(t0, u)
  OBVIOUS
<1>11. p \in DOMAIN t1 /\ t1[p] = u
  BY <1>2, <1>5, <1>10, PlacedAt, Zenon
<1>12. Moved(t1, v, p) \in DOMAIN t2 /\ t2[Moved(t1, v, p)] = u
  BY <1>3, <1>7, <1>11, MovedTracks, Zenon
<1>13. x = [list |-> t2, at |-> Moved(t1, v, p)]
  BY <1>1, <1>2, <1>3, <1>10, Zenon DEF SplitInto
<1>14. x.list = t2 /\ x.at = Moved(t1, v, p)
  BY <1>13
<1>15. \A k \in DOMAIN s \ {i} : \E h \in DOMAIN t2 : t2[h] = s[k]
  <2>1. TAKE k \in DOMAIN s \ {i}
  <2>2. PICK f \in DOMAIN t0 : t0[f] = s[k]
    BY <1>4
  <2>3. PICK g \in DOMAIN t1 : t1[g] = t0[f]
    BY <1>6, Zenon DEF AllKept
  <2>4. PICK h \in DOMAIN t2 : t2[h] = t1[g]
    BY <1>8, Zenon DEF AllKept
  <2>5. QED
    BY <2>2, <2>3, <2>4, Zenon
<1>16. QED
  BY <1>8, <1>9, <1>12, <1>14, <1>15, Zenon

(* If the two cover what it covered, nothing is lost. *)
LEMMA SplitCovers ==
  ASSUME NEW s \in Seq(Rec), NEW i \in DOMAIN s, NEW t \in Seq(Rec),
         NEW h \in DOMAIN t, NEW g \in DOMAIN t,
         t[h].mand = s[i].mand, t[g].mand = s[i].mand,
         AsStrong(t[h], s[i]), AsStrong(t[g], s[i]),
         \A a \in Nat : Covers(s[i], a) => Covers(t[h], a) \/ Covers(t[g], a),
         \A k \in DOMAIN s \ {i} : \E f \in DOMAIN t : t[f] = s[k]
  PROVE  CoverKept(s, t, {})
<1>1. SUFFICES ASSUME NEW k \in DOMAIN s, NEW a \in Nat, Covers(s[k], a)
               PROVE  HasAt(t, s[k].mand, a, s[k])
  BY Zenon DEF CoverKept
<1>2. CASE k = i
  BY <1>1, <1>2, Zenon DEF HasAt
<1>3. CASE k # i
  <2>1. PICK f \in DOMAIN t : t[f] = s[k]
    BY <1>3
  <2>2. AsStrong(s[k], s[k])
    BY SeqFacts, RecFields, AsStrongItself
  <2>3. QED
    BY <1>1, <2>1, <2>2, Zenon DEF HasAt
<1>4. QED
  BY <1>2, <1>3

(* What a search for an own record returns. *)
LEMMA FindOwnFacts ==
  ASSUME NEW s \in Seq(Rec), NEW d \in Desc, NEW i \in Nat, i >= 1,
         NEW f, f = find_own(s, d, i)
  PROVE  /\ f \in 0 .. Len(s)
         /\ f # 0 => f \in DOMAIN s /\ f >= i /\ Own(s[f], d) /\ Overlapping(s[f], d)
         /\ SortedByStart(s) =>
              \A k \in DOMAIN s : k >= i /\ Own(s[k], d) /\ Overlapping(s[k], d) => f # 0 /\ f =< k
<1>1. Len(s) \in Nat /\ DOMAIN s = 1 .. Len(s) /\ \A k \in DOMAIN s : s[k] \in Rec
  BY SeqFacts
<1>2. PICK F : F = Found(s, d, i)
  OBVIOUS
<1>3. F \subseteq DOMAIN s /\ \A k \in F : Overlapping(s[k], d)
  BY <1>1, <1>2, FoundInList
<1>4. \A k \in F : k >= i
  BY <1>1, <1>2 DEF Found, Reached
<1>5. PICK S : S = {k \in F : Own(s[k], d)}
  OBVIOUS
<1>6. f = IF S = {} THEN 0 ELSE First(S)
  BY <1>2, <1>5, Zenon DEF find_own, NextOf
<1>7. S \subseteq Nat /\ S \subseteq DOMAIN s /\ S \subseteq F
  BY <1>1, <1>3, <1>5
<1>8. S # {} => f \in S /\ \A j \in S : f =< j
  BY <1>6, <1>7, FirstIsLeast, Zenon
<1>9. S # {} => f # 0
  BY <1>1, <1>7, <1>8
<1>10. f # 0 => f \in S
  BY <1>6, <1>8
<1>11. f \in 0 .. Len(s)
  BY <1>1, <1>6, <1>7, <1>8
<1>12. f # 0 => f \in DOMAIN s /\ f >= i /\ Own(s[f], d) /\ Overlapping(s[f], d)
  BY <1>3, <1>4, <1>5, <1>7, <1>10
<1>13. ASSUME SortedByStart(s), NEW k \in DOMAIN s, k >= i, Own(s[k], d), Overlapping(s[k], d)
       PROVE  f # 0 /\ f =< k
  <2>1. \A j \in DOMAIN s : s[j].start \in Int
    BY <1>1, RecFields
  <2>2. d.end \in Int
    BY DescFields
  <2>3. k \in F
    BY <1>1, <1>2, <1>13, <2>1, <2>2, SearchMeetsAll, Zenon
  <2>4. k \in S
    BY <1>5, <1>13, <2>3
  <2>5. QED
    BY <1>8, <1>9, <2>4
<1>14. QED
  BY <1>11, <1>12, <1>13, Zenon

------------------------------------------------------------------------------
(***************************************************************************)
(* The inductive invariant.                                                *)
(***************************************************************************)
(* The arguments of $lock. *)
CallRec == [obl : Nat \X Nat, opt : Nat \X Nat, type : Types, action : Actions]
(* The optional part contains the obligatory one, as $lock checks. *)
Ordered(c) == /\ c.opt[1] =< c.obl[1] /\ c.obl[1] =< c.obl[2]
              /\ c.obl[2] =< c.opt[2] /\ c.opt[1] < c.opt[2]

(* Every call in progress has the arguments it was made with. *)
CallsOK ==
  \A m \in Mandates : pc[m] # "idle" => call[m] \in CallRec /\ Ordered(call[m])

(* No record is empty. *)
RecordsOK == list \in Seq(Rec)

(* A mandate sleeps on one record at a time, and those that do are asleep. *)
WaitersOK == /\ WaitersApart(list)
             /\ \A i \in DOMAIN list : \A m \in list[i].waiters : pc[m] = "sleep"

(* The local variables of the call that has the mutex. *)
FrameOK ==
  frame # None =>
    /\ Len(frame.todo) >= 1
    /\ frame.lock =< Len(list)
    /\ frame.prev =< Len(list)
    /\ frame.op = "unlock" => frame.prev = 0
    /\ frame.op \in {"melt", "unlock"} /\ frame.lock # 0 =>
         Own(list[frame.lock], desc) /\ Overlapping(list[frame.lock], desc)
    /\ frame.op = "melt" /\ frame.prev # 0 =>
         /\ Own(list[frame.prev], desc) /\ AsStrong(list[frame.prev], desc)
         /\ list[frame.prev].end = desc.start

(* Records of m cover address a, together as strong as x. *)
Backed(s, m, a, x) ==
  /\ \E i \in DOMAIN s : s[i].mand = m /\ Covers(s[i], a) /\ DataType(s[i]) >= DataType(x)
  /\ \E i \in DOMAIN s : s[i].mand = m /\ Covers(s[i], a) /\ AddrType(s[i]) >= AddrType(x)
  /\ x.oblig => \E i \in DOMAIN s : s[i].mand = m /\ Covers(s[i], a) /\ s[i].oblig

(* What a call wants at an address. *)
Wanted(c, a) == [type |-> c.type, oblig |-> c.obl[1] =< a /\ a < c.obl[2]]

(* Part d of a request would do for address a. *)
ToDo(d, c, a) == Covers(d, a) /\ (Wanted(c, a).oblig => d.oblig)

(* What of a request is not in the list is still to be melted in. *)
Melting(m, c, todo, s) ==
  /\ \A i \in DOMAIN todo : todo[i].mand = m /\ todo[i].type = c.type
  /\ \A a \in Nat : c.opt[1] =< a /\ a < c.opt[2] =>
       Backed(s, m, a, Wanted(c, a)) \/ \E i \in DOMAIN todo : ToDo(todo[i], c, a)

(* The call that melts, and what it has still to do. *)
MeltOK ==
  \A m \in Mandates : pc[m] = "melt" =>
    /\ frame # None /\ frame.op \in {"melt", "begin"}
    /\ frame.grant.type = call[m].type
    /\ call[m].opt[1] =< frame.grant.start /\ frame.grant.end =< call[m].opt[2]
    /\ Melting(m, call[m], frame.todo, list)

(* What a user holds is in the list, at any time. *)
HeldOK ==
  \A m \in Mandates, a \in Addrs : held[m][a] # None => Backed(list, m, a, held[m][a])

(* The mutex is held by an $unlock. *)
Unlocking == frame # None /\ frame.op = "unlock"

(* What is being unlocked is not held. *)
UnheldOK == Unlocking => \A a \in Addrs : Covers(desc, a) => held[desc.mand][a] = None

(* Unless add_lock_rec has broken it, the order holds. *)
SortedOK == ~broken => SortedByStart(list)

(* What is being granted excludes what others hold. *)
GrantOK ==
  ~broken => \A m, k \in Mandates, a \in Addrs :
    pc[m] = "melt" /\ m # k /\ Covers(frame.grant, a) /\ held[k][a] # None =>
      ~is_conflict(call[m].type, held[k][a].type)

(* A record that $unlock of d has to deal with. *)
ToUnlock(l, d) == Own(l, d) /\ Overlapping(l, d)
(* A running $unlock has dealt with all records in front of frame.lock. *)
UnlockOK ==
  ~broken /\ Unlocking =>
    \A i \in DOMAIN list : ToUnlock(list[i], desc) => frame.lock # 0 /\ i >= frame.lock

(* The inductive invariant. *)
IInv ==
  /\ TypeOK /\ CallsOK /\ RecordsOK /\ WaitersOK /\ FrameOK /\ MeltOK /\ HeldOK /\ UnheldOK
  /\ SortedOK /\ GrantOK /\ ExclusionWhileSorted /\ UnlockOK /\ SleepersHaveReason

------------------------------------------------------------------------------
(***************************************************************************)
(* What records of m back is backed after an edit that keeps coverage      *)
(* there.                                                                  *)
(***************************************************************************)
LEMMA BackedKept ==
  ASSUME NEW s \in Seq(Rec), NEW r \in Seq(Rec), NEW E, CoverKept(s, r, E),
         NEW m, NEW a \in Nat, <<m, a>> \notin E, NEW x, Strong(x), Backed(s, m, a, x)
  PROVE  Backed(r, m, a, x)
<1>1. \A k \in DOMAIN s : s[k] \in Rec /\ Strong(s[k])
  BY SeqFacts, RecFields
<1>2. \A k \in DOMAIN r : r[k] \in Rec /\ Strong(r[k])
  BY SeqFacts, RecFields
<1>3. \A k \in DOMAIN s : s[k].mand = m /\ Covers(s[k], a) => HasAt(r, m, a, s[k])
  BY Zenon DEF CoverKept
<1>4. DataType(x) \in 0 .. 2 /\ AddrType(x) \in 0 .. 2
  BY PartsInRange
<1>5. \E i \in DOMAIN r : r[i].mand = m /\ Covers(r[i], a) /\ DataType(r[i]) >= DataType(x)
  <2>1. PICK k \in DOMAIN s : s[k].mand = m /\ Covers(s[k], a) /\ DataType(s[k]) >= DataType(x)
    BY Zenon DEF Backed
  <2>2. PICK i \in DOMAIN r : r[i].mand = m /\ Covers(r[i], a) /\ AsStrong(r[i], s[k])
    BY <1>3, <2>1, Zenon DEF HasAt
  <2>3. DataType(r[i]) \in 0 .. 2 /\ DataType(s[k]) \in 0 .. 2
    BY <1>1, <1>2, PartsInRange
  <2>4. DataType(r[i]) >= DataType(x)
    BY <1>4, <2>1, <2>2, <2>3 DEF AsStrong
  <2>5. QED
    BY <2>2, <2>4, Zenon
<1>6. \E i \in DOMAIN r : r[i].mand = m /\ Covers(r[i], a) /\ AddrType(r[i]) >= AddrType(x)
  <2>1. PICK k \in DOMAIN s : s[k].mand = m /\ Covers(s[k], a) /\ AddrType(s[k]) >= AddrType(x)
    BY Zenon DEF Backed
  <2>2. PICK i \in DOMAIN r : r[i].mand = m /\ Covers(r[i], a) /\ AsStrong(r[i], s[k])
    BY <1>3, <2>1, Zenon DEF HasAt
  <2>3. AddrType(r[i]) \in 0 .. 2 /\ AddrType(s[k]) \in 0 .. 2
    BY <1>1, <1>2, PartsInRange
  <2>4. AddrType(r[i]) >= AddrType(x)
    BY <1>4, <2>1, <2>2, <2>3 DEF AsStrong
  <2>5. QED
    BY <2>2, <2>4, Zenon
<1>7. x.oblig => \E i \in DOMAIN r : r[i].mand = m /\ Covers(r[i], a) /\ r[i].oblig
  <2>1. HAVE x.oblig
  <2>2. PICK k \in DOMAIN s : s[k].mand = m /\ Covers(s[k], a) /\ s[k].oblig
    BY <2>1, Zenon DEF Backed
  <2>3. PICK i \in DOMAIN r : r[i].mand = m /\ Covers(r[i], a) /\ AsStrong(r[i], s[k])
    BY <1>3, <2>2, Zenon DEF HasAt
  <2>4. QED
    BY <2>2, <2>3, Zenon DEF AsStrong
<1>8. QED
  BY <1>5, <1>6, <1>7, Zenon DEF Backed

(* One record that is strong enough will do. *)
LEMMA HasBacks ==
  ASSUME NEW s, NEW m, NEW a, NEW x, HasAt(s, m, a, x)
  PROVE  Backed(s, m, a, x)
BY Zenon DEF HasAt, Backed, AsStrong

(* The addresses of the requests are numbers. *)
LEMMA AddrsNat == Addrs \subseteq Nat
<1>1. SUFFICES ASSUME NEW r \in Requests, NEW a \in r.opt[1] .. (r.opt[2] - 1)
               PROVE  a \in Nat
  BY DEF Addrs
<1>2. r.opt[1] \in Nat /\ r.opt[2] \in Nat
  BY MandAssumption
<1>3. QED
  BY <1>2

(* The fields of the arguments of a call. *)
LEMMA CallFields ==
  ASSUME NEW c \in CallRec
  PROVE  /\ c.obl[1] \in Nat /\ c.obl[2] \in Nat /\ c.opt[1] \in Nat /\ c.opt[2] \in Nat
         /\ c.type \in Types /\ c.type \in MutexTypes
         /\ c.obl = <<c.obl[1], c.obl[2]>> /\ c.opt = <<c.opt[1], c.opt[2]>>
BY MandAssumption DEF CallRec

(* The descriptor of the obligatory part of a request. *)
LEMMA ObligatoryFacts ==
  ASSUME CallsOK, NEW m \in Mandates, pc[m] # "idle", NEW d, d = Obligatory(m)
  PROVE  /\ d \in Desc /\ d.start = call[m].obl[1] /\ d.end = call[m].obl[2]
         /\ d.mand = m /\ d.type = call[m].type /\ d.oblig = TRUE
<1>1. call[m] \in CallRec
  BY DEF CallsOK
<1>2. PICK c \in CallRec : c = call[m]
  BY <1>1
<1>3. d = MkDesc(c.obl, m, c.type, TRUE)
  BY <1>2, Zenon DEF Obligatory
<1>4. c.obl[1] \in Nat /\ c.obl[2] \in Nat /\ c.type \in MutexTypes /\ TRUE \in BOOLEAN
  BY CallFields
<1>5. /\ d \in Desc /\ d.start = c.obl[1] /\ d.end = c.obl[2]
      /\ d.mand = m /\ d.type = c.type /\ d.oblig = TRUE
  BY <1>3, <1>4 DEF MkDesc, Desc
<1>6. QED
  BY <1>2, <1>5, Zenon

(* Where a call may be. *)
PcVals == {"idle", "lock", "sleep", "melt"}

(***************************************************************************)
(* An edit of the list: those who slept on a record taken out go on, all   *)
(* others still have their reason.                                         *)
(***************************************************************************)
LEMMA EditStep ==
  ASSUME IInv, NEW s, NEW F, NEW pcs, Edit(s, F, pcs), Edited(list, s, UNION {l.waiters : l \in F}),
         \A l \in F : \E i \in DOMAIN list : l.waiters = list[i].waiters,
         pcs \in [Mandates -> PcVals],
         \A q \in Mandates : pc[q] = "sleep" <=> pcs[q] = "sleep",
         \A q \in Mandates : pc[q] = "sleep" => call'[q] = call[q]
  PROVE  /\ RecordsOK' /\ WaitersOK' /\ SortedOK' /\ SleepersHaveReason'
         /\ list' = s /\ broken' \in BOOLEAN /\ (~broken' => ~broken)
         /\ pc' \in [Mandates -> PcVals]
         /\ \A q \in Mandates : pc'[q] = pcs[q] \/ (pc'[q] = "lock" /\ pcs[q] = "sleep")
<1>1. PICK W : W = UNION {l.waiters : l \in F}
  OBVIOUS
<1>2. list' = s /\ broken' = (broken \/ ~SortedByStart(s))
      /\ pc' = [m \in Mandates |-> IF \E l \in F : m \in l.waiters THEN "lock" ELSE pcs[m]]
  BY Zenon DEF Edit
<1>3. Edited(list, s, W)
  BY <1>1, Zenon
<1>4. s \in Seq(Rec) /\ WaitersApart(s)
  BY <1>3, Zenon DEF Edited
<1>5. list \in Seq(Rec) /\ CallsOK /\ broken \in BOOLEAN
  BY DEF IInv, RecordsOK, TypeOK
<1>6. \A q \in Mandates : (\E l \in F : q \in l.waiters) <=> q \in W
  BY <1>1
<1>7. \A q \in Mandates : pc'[q] = IF q \in W THEN "lock" ELSE pcs[q]
  BY <1>2, <1>6
<1>8. \A q \in Mandates : q \in W => pc[q] = "sleep"
  BY <1>1 DEF IInv, WaitersOK
<1>9. pc' \in [Mandates -> PcVals]
  <2>1. \A q \in Mandates : pc'[q] \in PcVals
    BY <1>7 DEF PcVals
  <2>2. QED
    BY <1>2, <2>1
<1>10. \A q \in Mandates : pc'[q] = pcs[q] \/ (pc'[q] = "lock" /\ pcs[q] = "sleep")
  BY <1>7, <1>8
<1>11. WaitersOK'
  <2>1. ASSUME NEW h \in DOMAIN s, NEW q \in s[h].waiters
        PROVE  pc'[q] = "sleep"
    <3>1. q \in Mandates
      BY <1>4, SeqFacts, RecFields
    <3>2. q \notin W /\ \E k \in DOMAIN list : q \in list[k].waiters
      BY <1>3, Zenon DEF Edited
    <3>3. pc[q] = "sleep"
      BY <3>2 DEF IInv, WaitersOK
    <3>4. QED
      BY <1>7, <3>1, <3>2, <3>3
  <2>2. QED
    BY <1>2, <1>4, <2>1, Zenon DEF WaitersOK
<1>12. SleepersHaveReason'
  <2>1. SUFFICES ASSUME NEW q \in Mandates, pc'[q] = "sleep"
                 PROVE  \E h \in DOMAIN s : /\ q \in s[h].waiters
                                            /\ Overlapping(s[h], Obligatory(q)')
                                            /\ Conflicting(s[h], Obligatory(q)')
    BY <1>2 DEF SleepersHaveReason, SleptOn
  <2>2. q \notin W /\ pc[q] = "sleep"
    BY <1>7, <2>1
  <2>3. PICK d : d = Obligatory(q)
    OBVIOUS
  <2>4. Obligatory(q)' = d
    BY <2>2, <2>3 DEF Obligatory
  <2>5. d \in Desc
    BY <1>5, <2>2, <2>3, ObligatoryFacts
  <2>6. PICK i \in DOMAIN list : /\ q \in list[i].waiters
                                 /\ Overlapping(list[i], d) /\ Conflicting(list[i], d)
    BY <2>2, <2>3, Zenon DEF IInv, SleepersHaveReason, SleptOn
  <2>7. PICK h \in DOMAIN s : Grown(list[i], s[h])
    BY <1>3, <2>2, <2>6 DEF Edited
  <2>8. list[i] \in Rec /\ s[h] \in Rec
    BY <1>4, <1>5, SeqFacts
  <2>9. q \in s[h].waiters /\ s[h].mand = list[i].mand
    BY <2>6, <2>7 DEF Grown
  <2>10. Overlapping(s[h], d)
    BY <2>5, <2>6, <2>7, <2>8, RecFields, DescFields DEF Grown, Overlapping
  <2>11. is_conflict(d.type, s[h].type)
    <3>1. d.type \in MutexTypes /\ Strong(list[i]) /\ Strong(s[h])
      BY <2>5, <2>8, RecFields, DescFields
    <3>2. AsStrong(s[h], list[i]) /\ is_conflict(d.type, list[i].type)
      BY <2>6, <2>7, Zenon DEF Grown, Conflicting
    <3>3. QED
      BY <3>1, <3>2, ConflictGrows
  <2>12. QED
    BY <2>4, <2>6, <2>9, <2>10, <2>11, Zenon DEF Conflicting
<1>13. SortedOK' /\ broken' \in BOOLEAN /\ (~broken' => ~broken)
  BY <1>2, <1>5 DEF SortedOK
<1>14. QED
  BY <1>2, <1>4, <1>9, <1>10, <1>11, <1>12, <1>13 DEF RecordsOK

------------------------------------------------------------------------------
(* Lists that differ only in who sleeps where. *)
SameShape(s, r) ==
  /\ DOMAIN r = DOMAIN s /\ Len(r) = Len(s)
  /\ \A k \in DOMAIN s : /\ r[k].start = s[k].start /\ r[k].end = s[k].end
                         /\ r[k].mand = s[k].mand /\ r[k].type = s[k].type
                         /\ r[k].oblig = s[k].oblig

(* Lists that differ only in the sleepers cover the same. *)
LEMMA ShapeCovers ==
  ASSUME NEW s \in Seq(Rec), NEW r \in Seq(Rec), SameShape(s, r)
  PROVE  CoverKept(s, r, {})
<1>1. SUFFICES ASSUME NEW k \in DOMAIN s, NEW a \in Nat, Covers(s[k], a)
               PROVE  HasAt(r, s[k].mand, a, s[k])
  BY Zenon DEF CoverKept
<1>2. Strong(s[k]) /\ Strong(r[k]) /\ r[k].type = s[k].type /\ r[k].oblig = s[k].oblig
  BY SeqFacts, RecFields DEF SameShape
<1>3. DataType(s[k]) \in 0 .. 2 /\ AddrType(s[k]) \in 0 .. 2
  BY <1>2, PartsInRange
<1>4. DataType(r[k]) = DataType(s[k]) /\ AddrType(r[k]) = AddrType(s[k])
  BY <1>2 DEF DataType, AddrType
<1>5. AsStrong(r[k], s[k])
  BY <1>2, <1>3, <1>4 DEF AsStrong
<1>6. Covers(r[k], a)
  BY <1>1 DEF Covers, SameShape
<1>7. QED
  BY <1>5, <1>6, Zenon DEF HasAt, SameShape

(* What the user holds has a strength. *)
LEMMA HeldStrong ==
  ASSUME TypeOK, NEW m \in Mandates, NEW a \in Addrs, held[m][a] # None
  PROVE  held[m][a] \in Strength /\ Strong(held[m][a]) /\ held[m][a].type \in MutexTypes
BY DEF TypeOK, Strength, Strong

(* What a call wants at an address has a strength. *)
LEMMA WantedStrong ==
  ASSUME NEW c \in CallRec, NEW a
  PROVE  Wanted(c, a) \in Strength /\ Strong(Wanted(c, a))
BY CallFields DEF Wanted, Strength, Strong

(* What is held stays in the list while the list only grows. *)
LEMMA HeldKept ==
  ASSUME TypeOK, HeldOK, RecordsOK, RecordsOK', CoverKept(list, list', {}), UNCHANGED held
  PROVE  HeldOK'
<1>1. SUFFICES ASSUME NEW m \in Mandates, NEW a \in Addrs, held[m][a] # None
               PROVE  Backed(list', m, a, held[m][a])
  BY Zenon DEF HeldOK
<1>2. Backed(list, m, a, held[m][a]) /\ Strong(held[m][a]) /\ a \in Nat
  BY <1>1, HeldStrong, AddrsNat DEF HeldOK
<1>3. PICK s \in Seq(Rec) : s = list
  BY DEF RecordsOK
<1>4. PICK r \in Seq(Rec) : r = list'
  BY DEF RecordsOK
<1>5. CoverKept(s, r, {}) /\ Backed(s, m, a, held[m][a])
  BY <1>2, <1>3, <1>4, Zenon
<1>6. Backed(r, m, a, held[m][a])
  <2>1. <<m, a>> \notin {}
    OBVIOUS
  <2>2. QED
    BY <1>2, <1>5, <2>1, BackedKept, Zenon
<1>7. QED
  BY <1>4, <1>6, Zenon

(* What is to be melted in stays the same while no coverage is lost. *)
LEMMA MeltingKept ==
  ASSUME NEW m, NEW c \in CallRec, NEW todo, NEW s \in Seq(Rec), NEW r \in Seq(Rec),
         CoverKept(s, r, {}), Melting(m, c, todo, s)
  PROVE  Melting(m, c, todo, r)
<1>1. ASSUME NEW a \in Nat, Backed(s, m, a, Wanted(c, a))
      PROVE  Backed(r, m, a, Wanted(c, a))
  <2>1. PICK x : x = Wanted(c, a)
    OBVIOUS
  <2>2. Strong(x)
    BY <2>1, WantedStrong
  <2>3. Backed(s, m, a, x)
    BY <1>1, <2>1, Zenon
  <2>4. Backed(r, m, a, x)
    <3>1. PICK E : E = {} /\ CoverKept(s, r, E)
      BY Zenon
    <3>2. <<m, a>> \notin E
      BY <3>1
    <3>3. QED
      BY <2>2, <2>3, <3>1, <3>2, BackedKept, Zenon
  <2>5. QED
    BY <2>1, <2>4, Zenon
<1>2. QED
  BY <1>1, Zenon DEF Melting

(* Who sleeps where does not matter to the rest. *)
LEMMA ShapeKept ==
  ASSUME IInv, RecordsOK', SameShape(list, list'), UNCHANGED <<frame, held, broken, call>>,
         \A q \in Mandates : pc'[q] = "melt" <=> pc[q] = "melt"
  PROVE  /\ FrameOK' /\ HeldOK' /\ UnheldOK' /\ MeltOK' /\ SortedOK' /\ GrantOK'
         /\ ExclusionWhileSorted' /\ UnlockOK'
<1>1. list \in Seq(Rec) /\ list' \in Seq(Rec)
  BY DEF IInv, RecordsOK
<1>2. CoverKept(list, list', {})
  BY <1>1, ShapeCovers, Zenon
<1>3. desc' = desc
  BY DEF desc
<1>4. HeldOK'
  BY <1>2, HeldKept DEF IInv
<1>5. UnheldOK' /\ GrantOK' /\ ExclusionWhileSorted'
  BY <1>3 DEF IInv, UnheldOK, Unlocking, GrantOK, ExclusionWhileSorted, HoldersExcluded
<1>6. SortedOK'
  BY DEF IInv, SortedOK, SortedByStart, SameShape
<1>7. UnlockOK'
  BY <1>3 DEF IInv, UnlockOK, Unlocking, ToUnlock, Own, Overlapping, SameShape
<1>8. FrameOK'
  <2>1. SUFFICES ASSUME frame # None
                 PROVE  FrameOK'
    BY DEF FrameOK
  <2>2. frame \in Frame
    BY <2>1 DEF IInv, TypeOK
  <2>3. frame.lock \in Nat /\ frame.prev \in Nat
    BY <2>2 DEF Frame
  <2>4. Len(list) \in Nat /\ DOMAIN list = 1 .. Len(list) /\ Len(list') = Len(list)
    BY <1>1 DEF SameShape
  <2>5. frame.lock =< Len(list) /\ frame.prev =< Len(list) /\ Len(frame.todo) >= 1
    BY <2>1 DEF IInv, FrameOK
  <2>6. frame.lock # 0 => frame.lock \in DOMAIN list
    BY <2>3, <2>4, <2>5
  <2>7. frame.prev # 0 => frame.prev \in DOMAIN list
    BY <2>3, <2>4, <2>5
  <2>8. \A k \in DOMAIN list : Own(list'[k], desc) <=> Own(list[k], desc)
    BY DEF SameShape, Own
  <2>9. \A k \in DOMAIN list : Overlapping(list'[k], desc) <=> Overlapping(list[k], desc)
    BY DEF SameShape, Overlapping
  <2>10. \A k \in DOMAIN list : AsStrong(list'[k], desc) <=> AsStrong(list[k], desc)
    BY DEF SameShape, AsStrong, DataType, AddrType
  <2>11. \A k \in DOMAIN list : list'[k].end = list[k].end
    BY DEF SameShape
  <2>12. frame.op \in {"melt", "unlock"} /\ frame.lock # 0 =>
          Own(list'[frame.lock], desc) /\ Overlapping(list'[frame.lock], desc)
    BY <2>1, <2>6, <2>8, <2>9 DEF IInv, FrameOK
  <2>13. frame.op = "melt" /\ frame.prev # 0 =>
         /\ Own(list'[frame.prev], desc) /\ AsStrong(list'[frame.prev], desc)
         /\ list'[frame.prev].end = desc.start
    BY <2>1, <2>7, <2>8, <2>10, <2>11 DEF IInv, FrameOK
  <2>14. frame.op = "unlock" => frame.prev = 0
    BY <2>1 DEF IInv, FrameOK
  <2>15. QED
    BY <1>3, <2>4, <2>5, <2>12, <2>13, <2>14, Zenon DEF FrameOK
<1>9. MeltOK'
  <2>1. SUFFICES ASSUME NEW m \in Mandates, pc[m] = "melt"
                 PROVE  Melting(m, call[m], frame.todo, list')
    BY DEF IInv, MeltOK
  <2>2. call[m] \in CallRec /\ Melting(m, call[m], frame.todo, list)
    BY <2>1 DEF IInv, CallsOK, MeltOK
  <2>3. QED
    BY <1>1, <1>2, <2>2, MeltingKept, Zenon
<1>10. QED
  BY <1>4, <1>5, <1>6, <1>7, <1>8, <1>9

(* The steps that only begin or end a call. *)
LEMMA CallStep ==
  ASSUME IInv, NEW m \in Mandates, NEW v \in {"idle", "lock"}, NEW c \in CallRec \cup {None},
         pc[m] \in {"idle", "lock"}, v = "lock" => c \in CallRec /\ Ordered(c),
         pc' = [pc EXCEPT ![m] = v], call' = [call EXCEPT ![m] = c],
         UNCHANGED <<list, frame, held, retracts, broken>>
  PROVE  IInv'
<1>1. TypeOK
  BY DEF IInv
<1>2. TypeOK'
  BY <1>1 DEF TypeOK, CallRec
<1>3. \A q \in Mandates : pc'[q] = IF q = m THEN v ELSE pc[q]
  BY <1>1 DEF TypeOK
<1>4. \A q \in Mandates : call'[q] = IF q = m THEN c ELSE call[q]
  BY <1>1 DEF TypeOK
<1>5. CallsOK'
  BY <1>3, <1>4 DEF IInv, CallsOK
<1>6. /\ RecordsOK' /\ UnheldOK' /\ HeldOK' /\ SortedOK' /\ ExclusionWhileSorted'
      /\ UnlockOK' /\ FrameOK'
  BY DEF IInv, RecordsOK, UnheldOK, HeldOK, SortedOK, ExclusionWhileSorted, HoldersExcluded,
         UnlockOK, Unlocking, FrameOK, desc
<1>7. \A q \in Mandates : pc'[q] = "melt" => pc[q] = "melt" /\ q # m /\ call'[q] = call[q]
  BY <1>3, <1>4
<1>8. \A q \in Mandates : pc[q] = "sleep" <=> pc'[q] = "sleep"
  BY <1>3
<1>9. \A q \in Mandates : pc[q] = "sleep" => call'[q] = call[q]
  BY <1>4
<1>10. MeltOK' /\ GrantOK'
  BY <1>7 DEF IInv, MeltOK, GrantOK
<1>11. WaitersOK'
  <2>1. \A i \in DOMAIN list : \A q \in list[i].waiters : q \in Mandates /\ pc[q] = "sleep"
    BY SeqFacts, RecFields DEF IInv, RecordsOK, WaitersOK
  <2>2. QED
    BY <1>8, <2>1 DEF IInv, WaitersOK
<1>12. SleepersHaveReason'
  <2>1. \A q \in Mandates : pc'[q] = "sleep" => Obligatory(q)' = Obligatory(q)
    BY <1>8, <1>9 DEF Obligatory
  <2>2. QED
    BY <1>8, <2>1 DEF IInv, SleepersHaveReason, SleptOn
<1>13. QED
  BY <1>2, <1>5, <1>6, <1>10, <1>11, <1>12 DEF IInv

(* $lock is called with arguments of its own. *)
LEMMA LockCalled ==
  ASSUME IInv, NEW m \in Mandates, NEW r \in Requests, NEW y \in Types, NEW a \in Actions,
         CallLock(m, r, y, a)
  PROVE  IInv'
<1>1. PICK c : c = [obl |-> r.obl, opt |-> r.opt, type |-> y, action |-> a]
  OBVIOUS
<1>2. c \in CallRec /\ Ordered(c)
  <2>1. r \in [obl : Nat \X Nat, opt : Nat \X Nat]
    BY MandAssumption
  <2>2. /\ r.opt[1] =< r.obl[1] /\ r.obl[1] =< r.obl[2]
        /\ r.obl[2] =< r.opt[2] /\ r.opt[1] < r.opt[2]
    BY MandAssumption
  <2>3. c \in CallRec
    BY <1>1, <2>1 DEF CallRec
  <2>4. c.obl = r.obl /\ c.opt = r.opt
    BY <1>1
  <2>5. QED
    BY <2>2, <2>3, <2>4 DEF Ordered
<1>3. /\ pc[m] \in {"idle", "lock"} /\ pc' = [pc EXCEPT ![m] = "lock"]
      /\ call' = [call EXCEPT ![m] = c] /\ UNCHANGED <<list, frame, held, retracts, broken>>
  BY <1>1, Zenon DEF CallLock
<1>4. QED
  BY <1>2, <1>3, CallStep, Zenon

(***************************************************************************)
(* $lock returns without touching the list: it may not wait for the        *)
(* conflicting lock, was only asked, or is left with an empty region.      *)
(***************************************************************************)
LEMMA LockReturned ==
  ASSUME IInv, NEW m \in Mandates, LockNothing(m) \/ LockVoid(m)
  PROVE  IInv'
<1>1. /\ pc[m] \in {"idle", "lock"} /\ pc' = [pc EXCEPT ![m] = "idle"]
      /\ call' = [call EXCEPT ![m] = None] /\ UNCHANGED <<list, frame, held, retracts, broken>>
  BY Zenon DEF LockNothing, LockVoid, Locking, LockReturn
<1>2. None \in CallRec \cup {None} /\ "idle" \in {"idle", "lock"} /\ "idle" # "lock"
  OBVIOUS
<1>3. QED
  BY <1>1, <1>2, CallStep, Zenon

(* What the search for a conflict returns. *)
LEMMA ConflictorFacts ==
  ASSUME NEW s \in Seq(Rec), NEW d \in Desc, NEW f, f = find_conflict(s, d, 1)
  PROVE  /\ f \in 0 .. Len(s)
         /\ f # 0 => f \in DOMAIN s /\ Overlapping(s[f], d) /\ Conflicting(s[f], d)
<1>1. Len(s) \in Nat /\ DOMAIN s = 1 .. Len(s)
  OBVIOUS
<1>2. PICK F : F = Found(s, d, 1)
  OBVIOUS
<1>3. F \subseteq DOMAIN s /\ \A k \in F : Overlapping(s[k], d)
  BY <1>1, <1>2, FoundInList
<1>4. PICK S : S = {k \in F : Conflicting(s[k], d)}
  OBVIOUS
<1>5. f = IF S = {} THEN 0 ELSE First(S)
  BY <1>2, <1>4, Zenon DEF find_conflict, NextOf
<1>6. S \subseteq Nat
  BY <1>1, <1>3, <1>4
<1>7. S # {} => f \in S
  BY <1>5, <1>6, FirstIsLeast, Zenon
<1>8. QED
  BY <1>1, <1>3, <1>4, <1>5, <1>7

(***************************************************************************)
(* $lock links its caller into the waiters of the conflicting record and,  *)
(* if asked to, retracts the optional part of it.                          *)
(***************************************************************************)
LEMMA LockSleeps ==
  ASSUME IInv, NEW m \in Mandates, LockWait(m)
  PROVE  IInv'
<1>0. TypeOK /\ list \in Seq(Rec) /\ CallsOK /\ WaitersOK
  BY DEF IInv, RecordsOK
<1>1. /\ pc[m] = "lock" /\ frame = None /\ Conflictor(m) # 0
      /\ pc' = [pc EXCEPT ![m] = "sleep"] /\ UNCHANGED <<frame, call, held, broken>>
  BY DEF LockWait, Locking, Blocked
<1>2. PICK d \in Desc : d = Obligatory(m)
  BY <1>0, <1>1, ObligatoryFacts
<1>3. PICK i \in DOMAIN list :
        i = Conflictor(m) /\ Overlapping(list[i], d) /\ Conflicting(list[i], d)
  BY <1>0, <1>1, <1>2, ConflictorFacts, Zenon DEF Conflictor
<1>4. PICK l : l = [list[i] EXCEPT !.waiters = @ \cup {m}]
  OBVIOUS
<1>5. list[i] \in Rec
  BY <1>0, SeqFacts
<1>6. /\ l \in Rec /\ l.start = list[i].start /\ l.end = list[i].end /\ l.mand = list[i].mand
      /\ l.type = list[i].type /\ l.oblig = list[i].oblig /\ l.waiters = list[i].waiters \cup {m}
  BY <1>4, <1>5 DEF Rec, LockRec
<1>7. list' = [list EXCEPT ![i] = l]
  BY <1>3, <1>4 DEF LockWait
<1>8. /\ list' \in Seq(Rec) /\ DOMAIN list' = DOMAIN list /\ Len(list') = Len(list)
      /\ \A k \in DOMAIN list : list'[k] = IF k = i THEN l ELSE list[k]
  BY <1>0, <1>6, <1>7
<1>9. SameShape(list, list')
  BY <1>6, <1>8 DEF SameShape
<1>10. \A q \in Mandates : pc'[q] = IF q = m THEN "sleep" ELSE pc[q]
  BY <1>0, <1>1 DEF TypeOK
<1>11. /\ FrameOK' /\ HeldOK' /\ UnheldOK' /\ MeltOK' /\ SortedOK' /\ GrantOK'
       /\ ExclusionWhileSorted' /\ UnlockOK' /\ RecordsOK'
  <2>1. \A q \in Mandates : pc'[q] = "melt" <=> pc[q] = "melt"
    BY <1>1, <1>10
  <2>2. RecordsOK'
    BY <1>8 DEF RecordsOK
  <2>3. QED
    BY <1>1, <1>9, <2>1, <2>2, ShapeKept
<1>12. CallsOK'
  BY <1>0, <1>1, <1>10 DEF CallsOK
<1>13. WaitersOK'
  <2>1. \A k \in DOMAIN list : m \notin list[k].waiters
    BY <1>0, <1>1 DEF WaitersOK
  <2>2. WaitersApart(list')
    BY <1>0, <1>6, <1>8, <2>1 DEF WaitersOK, WaitersApart
  <2>3. \A k \in DOMAIN list : \A q \in list[k].waiters : q \in Mandates /\ pc[q] = "sleep"
    BY <1>0, SeqFacts, RecFields DEF WaitersOK
  <2>4. \A k \in DOMAIN list' : \A q \in list'[k].waiters : pc'[q] = "sleep"
    BY <1>6, <1>8, <1>10, <2>3
  <2>5. QED
    BY <2>2, <2>4 DEF WaitersOK
<1>14. SleepersHaveReason'
  <2>1. SUFFICES ASSUME NEW q \in Mandates, pc'[q] = "sleep"
                 PROVE  \E h \in DOMAIN list' : /\ q \in list'[h].waiters
                                                /\ Overlapping(list'[h], Obligatory(q))
                                                /\ Conflicting(list'[h], Obligatory(q))
    BY <1>1 DEF SleepersHaveReason, SleptOn, Obligatory
  <2>2. CASE q = m
    <3>1. Overlapping(list'[i], d) /\ Conflicting(list'[i], d) /\ q \in list'[i].waiters
      BY <1>3, <1>6, <1>8, <2>2 DEF Overlapping, Conflicting
    <3>2. QED
      BY <1>2, <1>8, <2>2, <3>1, Zenon
  <2>3. CASE q # m
    <3>1. PICK h \in DOMAIN list : /\ q \in list[h].waiters /\ Overlapping(list[h], Obligatory(q))
                                   /\ Conflicting(list[h], Obligatory(q))
      BY <1>10, <2>1, <2>3 DEF IInv, SleepersHaveReason, SleptOn
    <3>2. q \in list'[h].waiters
      BY <1>6, <1>8, <3>1
    <3>3. Overlapping(list'[h], Obligatory(q)) /\ Conflicting(list'[h], Obligatory(q))
      BY <1>6, <1>8, <3>1 DEF Overlapping, Conflicting
    <3>4. QED
      BY <1>8, <3>2, <3>3, Zenon
  <2>4. QED
    BY <2>2, <2>3
<1>15. TypeOK'
  <2>1. pc' \in [Mandates -> PcVals]
    BY <1>0, <1>1 DEF TypeOK, PcVals
  <2>2. list' \in Seq(LockRec)
    <3>1. l \in LockRec
      BY <1>6 DEF Rec
    <3>2. QED
      BY <1>0, <1>7, <3>1 DEF TypeOK
  <2>3. retracts' \subseteq [mand : Mandates, start : Nat, end : Nat]
    <3>1. PartInTheWay(list[i], d) \in [mand : Mandates, start : Nat, end : Nat]
      BY <1>5, RecFields, DescFields DEF PartInTheWay, Larger, Smaller
    <3>2. retracts' = retracts \cup RetractsFor(list[i], d)
      BY <1>2, <1>3, Zenon DEF LockWait
    <3>3. QED
      BY <1>0, <3>1, <3>2 DEF RetractsFor, TypeOK
  <2>4. QED
    BY <1>0, <1>1, <2>1, <2>2, <2>3 DEF TypeOK, PcVals
<1>16. QED
  BY <1>11, <1>12, <1>13, <1>14, <1>15 DEF IInv

(* A sleeper wakes without a signal and unlinks itself. *)
LEMMA Wakes ==
  ASSUME IInv, NEW m \in Mandates, SpuriousWakeup(m)
  PROVE  IInv'
<1>0. TypeOK /\ list \in Seq(Rec) /\ CallsOK /\ WaitersOK
  BY DEF IInv, RecordsOK
<1>1. /\ pc[m] = "sleep" /\ pc' = [pc EXCEPT ![m] = "lock"]
      /\ list' = [i \in DOMAIN list |-> [list[i] EXCEPT !.waiters = @ \ {m}]]
      /\ UNCHANGED <<frame, call, held, retracts, broken>>
  BY DEF SpuriousWakeup
<1>2. ASSUME NEW k \in DOMAIN list
      PROVE  /\ list'[k] \in Rec /\ list'[k].start = list[k].start /\ list'[k].end = list[k].end
             /\ list'[k].mand = list[k].mand /\ list'[k].type = list[k].type
             /\ list'[k].oblig = list[k].oblig /\ list'[k].waiters = list[k].waiters \ {m}
  <2>1. PICK l \in Rec : l = list[k]
    BY <1>0, SeqFacts
  <2>2. PICK r : r = [l EXCEPT !.waiters = @ \ {m}]
    OBVIOUS
  <2>3. /\ r \in Rec /\ r.start = l.start /\ r.end = l.end /\ r.mand = l.mand /\ r.type = l.type
        /\ r.oblig = l.oblig /\ r.waiters = l.waiters \ {m}
    BY <2>2 DEF Rec, LockRec
  <2>4. list'[k] = r
    BY <1>1, <2>1, <2>2
  <2>5. QED
    BY <2>1, <2>3, <2>4, Zenon
<1>3. Len(list) \in Nat /\ DOMAIN list = 1 .. Len(list)
  BY <1>0
<1>4. list' \in Seq(Rec) /\ DOMAIN list' = DOMAIN list /\ Len(list') = Len(list)
  <2>1. list' \in [1 .. Len(list) -> Rec]
    BY <1>1, <1>2, <1>3
  <2>2. QED
    BY <1>3, <2>1
<1>5. SameShape(list, list')
  BY <1>2, <1>4 DEF SameShape
<1>6. \A q \in Mandates : pc'[q] = IF q = m THEN "lock" ELSE pc[q]
  BY <1>0, <1>1 DEF TypeOK
<1>7. /\ FrameOK' /\ HeldOK' /\ UnheldOK' /\ MeltOK' /\ SortedOK' /\ GrantOK'
       /\ ExclusionWhileSorted' /\ UnlockOK' /\ RecordsOK'
  <2>1. \A q \in Mandates : pc'[q] = "melt" <=> pc[q] = "melt"
    BY <1>1, <1>6
  <2>2. RecordsOK'
    BY <1>4 DEF RecordsOK
  <2>3. QED
    BY <1>1, <1>5, <2>1, <2>2, ShapeKept
<1>8. CallsOK'
  BY <1>0, <1>1, <1>6 DEF CallsOK
<1>9. WaitersOK'
  <2>1. WaitersApart(list')
    BY <1>0, <1>2, <1>4 DEF WaitersOK, WaitersApart
  <2>2. \A k \in DOMAIN list : \A q \in list[k].waiters : q \in Mandates /\ pc[q] = "sleep"
    BY <1>0, SeqFacts, RecFields DEF WaitersOK
  <2>3. \A k \in DOMAIN list' : \A q \in list'[k].waiters : pc'[q] = "sleep"
    BY <1>2, <1>4, <1>6, <2>2
  <2>4. QED
    BY <2>1, <2>3 DEF WaitersOK
<1>10. SleepersHaveReason'
  <2>1. SUFFICES ASSUME NEW q \in Mandates, pc'[q] = "sleep"
                 PROVE  \E h \in DOMAIN list' : /\ q \in list'[h].waiters
                                                /\ Overlapping(list'[h], Obligatory(q))
                                                /\ Conflicting(list'[h], Obligatory(q))
    BY <1>1 DEF SleepersHaveReason, SleptOn, Obligatory
  <2>2. q # m /\ pc[q] = "sleep"
    BY <1>6, <2>1
  <2>3. PICK h \in DOMAIN list : /\ q \in list[h].waiters /\ Overlapping(list[h], Obligatory(q))
                                 /\ Conflicting(list[h], Obligatory(q))
    BY <2>2 DEF IInv, SleepersHaveReason, SleptOn
  <2>4. q \in list'[h].waiters
    BY <1>2, <2>2, <2>3
  <2>5. Overlapping(list'[h], Obligatory(q)) /\ Conflicting(list'[h], Obligatory(q))
    BY <1>2, <2>3 DEF Overlapping, Conflicting
  <2>6. QED
    BY <1>4, <2>4, <2>5, Zenon
<1>11. TypeOK'
  <2>1. pc' \in [Mandates -> PcVals]
    BY <1>0, <1>1 DEF TypeOK, PcVals
  <2>2. list' \in Seq(LockRec)
    <3>1. Rec \subseteq LockRec
      BY DEF Rec
    <3>2. QED
      BY <1>4, <3>1
  <2>3. QED
    BY <1>0, <1>1, <2>1, <2>2 DEF TypeOK, PcVals
<1>12. QED
  BY <1>7, <1>8, <1>9, <1>10, <1>11 DEF IInv

------------------------------------------------------------------------------
(* r has what p and q have. *)
Joins(p, q, r) ==
  /\ \A i \in DOMAIN p : \E j \in DOMAIN r : r[j] = p[i]
  /\ \A i \in DOMAIN q : \E j \in DOMAIN r : r[j] = q[i]
  /\ \A j \in DOMAIN r : \/ \E i \in DOMAIN p : r[j] = p[i]
                         \/ \E i \in DOMAIN q : r[j] = q[i]

(* A concatenation has the elements of both sequences. *)
LEMMA ConcatHas ==
  ASSUME NEW p \in Seq(Desc), NEW q \in Seq(Desc)
  PROVE  p \o q \in Seq(Desc) /\ Joins(p, q, p \o q)
<1>1. PICK r : r = p \o q
  OBVIOUS
<1>2. /\ r \in Seq(Desc) /\ Len(r) = Len(p) + Len(q) /\ Len(p) \in Nat /\ Len(q) \in Nat
      /\ DOMAIN r = 1 .. Len(r) /\ DOMAIN p = 1 .. Len(p) /\ DOMAIN q = 1 .. Len(q)
  BY <1>1
<1>3. \A j \in 1 .. Len(r) : r[j] = IF j =< Len(p) THEN p[j] ELSE q[j - Len(p)]
  BY <1>1
<1>4. \A i \in DOMAIN p : i \in DOMAIN r /\ r[i] = p[i]
  BY <1>2, <1>3
<1>5. \A i \in DOMAIN q : i + Len(p) \in DOMAIN r /\ r[i + Len(p)] = q[i]
  <2>1. TAKE i \in DOMAIN q
  <2>2. i + Len(p) \in 1 .. Len(r) /\ ~(i + Len(p) =< Len(p)) /\ (i + Len(p)) - Len(p) = i
    BY <1>2
  <2>3. QED
    BY <1>2, <1>3, <2>2
<1>6. \A j \in DOMAIN r : \/ \E i \in DOMAIN p : r[j] = p[i]
                          \/ \E i \in DOMAIN q : r[j] = q[i]
  <2>1. TAKE j \in DOMAIN r
  <2>2. CASE j =< Len(p)
    BY <1>2, <1>3, <2>2
  <2>3. CASE ~(j =< Len(p))
    <3>1. j - Len(p) \in DOMAIN q /\ r[j] = q[j - Len(p)]
      BY <1>2, <1>3, <2>3
    <3>2. QED
      BY <3>1
  <2>4. QED
    BY <2>2, <2>3
<1>7. QED
  BY <1>1, <1>2, <1>4, <1>5, <1>6, Zenon DEF Joins

(* A part of a request is melted in only if it has a length. *)
LEMMA NonEmptyFacts ==
  ASSUME NEW d \in Desc
  PROVE  /\ NonEmpty(d) \in Seq(Desc)
         /\ \A i \in DOMAIN NonEmpty(d) : NonEmpty(d)[i] = d
         /\ d.start < d.end => \E i \in DOMAIN NonEmpty(d) : NonEmpty(d)[i] = d
<1>1. PICK r : r = NonEmpty(d)
  OBVIOUS
<1>2. CASE d.start < d.end
  <2>1. r = <<d>>
    BY <1>1, <1>2 DEF NonEmpty
  <2>2. r \in Seq(Desc) /\ DOMAIN r = 1 .. 1 /\ r[1] = d
    BY <2>1
  <2>3. QED
    BY <1>1, <2>2
<1>3. CASE ~(d.start < d.end)
  <2>1. r = << >>
    BY <1>1, <1>3 DEF NonEmpty
  <2>2. r \in Seq(Desc) /\ DOMAIN r = {}
    BY <2>1
  <2>3. QED
    BY <1>1, <1>3, <2>2
<1>4. QED
  BY <1>2, <1>3

(* The parts of a request make up all of it. *)
LEMMA PartsFacts ==
  ASSUME NEW m \in Mandates, call[m] \in CallRec, Ordered(call[m]), NEW todo, todo = Parts(m), NEW s
  PROVE  todo \in Seq(Desc) /\ Len(todo) >= 1 /\ Melting(m, call[m], todo, s)
<1>1. PICK c \in CallRec : c = call[m]
  OBVIOUS
<1>2. /\ c.obl[1] \in Nat /\ c.obl[2] \in Nat /\ c.opt[1] \in Nat /\ c.opt[2] \in Nat
      /\ c.type \in MutexTypes
  BY CallFields
<1>3. PICK x : x = MkDesc(<<c.opt[1], c.obl[1]>>, m, c.type, FALSE)
  OBVIOUS
<1>4. PICK y : y = MkDesc(c.obl, m, c.type, TRUE)
  OBVIOUS
<1>5. PICK z : z = MkDesc(<<c.obl[2], c.opt[2]>>, m, c.type, FALSE)
  OBVIOUS
<1>6. /\ x \in Desc /\ x.start = c.opt[1] /\ x.end = c.obl[1] /\ x.mand = m /\ x.type = c.type
      /\ x.oblig = FALSE
  BY <1>2, <1>3 DEF MkDesc, Desc
<1>7. /\ y \in Desc /\ y.start = c.obl[1] /\ y.end = c.obl[2] /\ y.mand = m /\ y.type = c.type
      /\ y.oblig = TRUE
  BY <1>2, <1>4 DEF MkDesc, Desc
<1>8. /\ z \in Desc /\ z.start = c.obl[2] /\ z.end = c.opt[2] /\ z.mand = m /\ z.type = c.type
      /\ z.oblig = FALSE
  BY <1>2, <1>5 DEF MkDesc, Desc
<1>9. PICK p \in Seq(Desc) : /\ p = NonEmpty(x) /\ \A i \in DOMAIN p : p[i] = x
                             /\ x.start < x.end => \E i \in DOMAIN p : p[i] = x
  BY <1>6, NonEmptyFacts, Zenon
<1>10. PICK q \in Seq(Desc) : /\ q = NonEmpty(y) /\ \A i \in DOMAIN q : q[i] = y
                              /\ y.start < y.end => \E i \in DOMAIN q : q[i] = y
  BY <1>7, NonEmptyFacts, Zenon
<1>11. PICK r \in Seq(Desc) : /\ r = NonEmpty(z) /\ \A i \in DOMAIN r : r[i] = z
                              /\ z.start < z.end => \E i \in DOMAIN r : r[i] = z
  BY <1>8, NonEmptyFacts, Zenon
<1>12. PICK t : t = p \o q
  OBVIOUS
<1>13. t \in Seq(Desc) /\ Joins(p, q, t)
  BY <1>12, ConcatHas, Zenon
<1>14. todo = t \o r
  BY <1>1, <1>3, <1>4, <1>5, <1>9, <1>10, <1>11, <1>12, Zenon DEF Parts, Obligatory
<1>15. todo \in Seq(Desc) /\ Joins(t, r, todo)
  BY <1>13, <1>14, ConcatHas, Zenon
<1>16. \A j \in DOMAIN todo : todo[j] = x \/ todo[j] = y \/ todo[j] = z
  <2>1. TAKE j \in DOMAIN todo
  <2>2. \A i \in DOMAIN t : t[i] = x \/ t[i] = y
    BY <1>9, <1>10, <1>13 DEF Joins
  <2>3. QED
    BY <1>11, <1>15, <2>2 DEF Joins
<1>17. /\ x.start < x.end => \E j \in DOMAIN todo : todo[j] = x
       /\ y.start < y.end => \E j \in DOMAIN todo : todo[j] = y
       /\ z.start < z.end => \E j \in DOMAIN todo : todo[j] = z
  <2>1. /\ x.start < x.end => \E j \in DOMAIN t : t[j] = x
        /\ y.start < y.end => \E j \in DOMAIN t : t[j] = y
    BY <1>9, <1>10, <1>13 DEF Joins
  <2>2. QED
    BY <1>11, <1>15, <2>1 DEF Joins
<1>18. c.opt[1] =< c.obl[1] /\ c.obl[1] =< c.obl[2] /\ c.obl[2] =< c.opt[2] /\ c.opt[1] < c.opt[2]
  BY <1>1 DEF Ordered
<1>19. ASSUME NEW a \in Nat, c.opt[1] =< a, a < c.opt[2]
       PROVE  \E j \in DOMAIN todo : ToDo(todo[j], c, a)
  <2>1. Wanted(c, a).oblig = (c.obl[1] =< a /\ a < c.obl[2])
    BY DEF Wanted
  <2>2. CASE a < c.obl[1]
    <3>1. Covers(x, a) /\ x.start < x.end /\ ~(c.obl[1] =< a)
      BY <1>2, <1>6, <1>19, <2>2 DEF Covers
    <3>2. ToDo(x, c, a)
      BY <2>1, <3>1, Zenon DEF ToDo
    <3>3. QED
      BY <1>17, <3>1, <3>2, Zenon
  <2>3. CASE ~(a < c.obl[1]) /\ a < c.obl[2]
    <3>1. Covers(y, a) /\ y.start < y.end
      BY <1>2, <1>7, <1>19, <2>3 DEF Covers
    <3>2. ToDo(y, c, a)
      BY <1>7, <3>1, Zenon DEF ToDo
    <3>3. QED
      BY <1>17, <3>1, <3>2, Zenon
  <2>4. CASE ~(a < c.obl[2])
    <3>1. Covers(z, a) /\ z.start < z.end
      BY <1>2, <1>8, <1>19, <2>4 DEF Covers
    <3>2. ToDo(z, c, a)
      BY <2>1, <2>4, <3>1, Zenon DEF ToDo
    <3>3. QED
      BY <1>17, <3>1, <3>2, Zenon
  <2>5. QED
    BY <2>2, <2>3, <2>4
<1>20. Len(todo) >= 1
  <2>1. PICK j \in DOMAIN todo : TRUE
    BY <1>2, <1>18, <1>19, SMTT(30)
  <2>2. QED
    BY <1>15, <2>1
<1>21. \A j \in DOMAIN todo : todo[j].mand = m /\ todo[j].type = c.type
  BY <1>6, <1>7, <1>8, <1>16
<1>22. Melting(m, c, todo, s)
  BY <1>19, <1>21, Zenon DEF Melting
<1>23. QED
  BY <1>1, <1>15, <1>20, <1>22, Zenon

(***************************************************************************)
(* The region granted lies in the one asked for, and in a list in order    *)
(* no conflicting record reaches into it.                                  *)
(***************************************************************************)
LEMMA CutFacts ==
  ASSUME NEW m \in Mandates, list \in Seq(Rec), call[m] \in CallRec, Ordered(call[m]),
         NEW d, d = CutTo(m)
  PROVE  /\ d \in Desc /\ d.mand = m /\ d.type = call[m].type
         /\ call[m].opt[1] =< d.start /\ d.end =< call[m].opt[2]
         /\ SortedByStart(list) =>
              \A i \in DOMAIN list, a \in Nat :
                list[i].mand # m /\ Covers(list[i], a) /\ Covers(d, a) =>
                  ~is_conflict(call[m].type, list[i].type)
<1>1. PICK c \in CallRec : c = call[m]
  OBVIOUS
<1>2. /\ c.obl[1] \in Nat /\ c.obl[2] \in Nat /\ c.opt[1] \in Nat /\ c.opt[2] \in Nat
      /\ c.type \in MutexTypes
  BY CallFields
<1>3. c.opt[1] =< c.obl[1] /\ c.obl[1] =< c.obl[2] /\ c.obl[2] =< c.opt[2] /\ c.opt[1] < c.opt[2]
  BY <1>1 DEF Ordered
<1>4. PICK o : o = Optional(m)
  OBVIOUS
<1>5. /\ o \in Desc /\ o.start = c.opt[1] /\ o.end = c.opt[2] /\ o.mand = m /\ o.type = c.type
  BY <1>1, <1>2, <1>4 DEF Optional, MkDesc, Desc
<1>6. Len(list) \in Nat /\ DOMAIN list = 1 .. Len(list) /\ \A k \in DOMAIN list : list[k] \in Rec
  BY SeqFacts
<1>7. PICK met : met = {k \in Found(list, o, 1) : Conflicting(list[k], o)}
  OBVIOUS
<1>8. PICK above : above = {k \in met : list[k].end > c.obl[1]}
  OBVIOUS
<1>9. PICK below : below = {list[k].end : k \in {j \in met \ above : \A u \in above : j < u}}
  OBVIOUS
<1>10. PICK g : g = CHOOSE a \in below \cup {o.start} : \A b \in below \cup {o.start} : b =< a
  OBVIOUS
<1>11. PICK e : e = IF above = {} THEN o.end ELSE list[First(above)].start
  OBVIOUS
<1>12. d = [o EXCEPT !.start = g, !.end = e]
  BY <1>1, <1>4, <1>7, <1>8, <1>9, <1>10, <1>11 DEF CutTo
<1>13. met \subseteq DOMAIN list /\ \A k \in met : Overlapping(list[k], o)
  <2>1. 1 \in Nat /\ 1 >= 1
    OBVIOUS
  <2>2. /\ Found(list, o, 1) \subseteq DOMAIN list
        /\ \A k \in Found(list, o, 1) : Overlapping(list[k], o)
    BY <1>6, <2>1, FoundInList
  <2>3. QED
    BY <1>7, <2>2
<1>14. above \subseteq Nat /\ above \subseteq DOMAIN list
  BY <1>6, <1>8, <1>13
<1>15. \A b \in below \cup {o.start} : b \in Nat /\ b =< c.obl[1]
  <2>1. \A k \in met \ above : list[k].end \in Nat /\ list[k].end =< c.obl[1]
    BY <1>2, <1>6, <1>8, <1>13, RecFields
  <2>2. QED
    BY <1>2, <1>3, <1>5, <1>9, <2>1
<1>16. PICK G : G = below \cup {o.start}
  OBVIOUS
<1>17. G \subseteq Nat /\ G # {} /\ \A b \in G : b =< c.obl[1]
  BY <1>15, <1>16
<1>18. \E a \in G : \A b \in G : b =< a
  BY <1>2, <1>17, GreatestExists
<1>19. g \in G /\ \A b \in G : b =< g
  BY <1>10, <1>16, <1>18, Zenon
<1>20. g \in Nat /\ o.start =< g
  BY <1>16, <1>17, <1>19
<1>21. above # {} => First(above) \in above /\ \A j \in above : First(above) =< j
  BY <1>14, FirstIsLeast, Zenon
<1>22. above # {} => /\ First(above) \in DOMAIN list /\ e = list[First(above)].start
                     /\ e \in Nat /\ e < o.end
  <2>1. HAVE above # {}
  <2>2. PICK f \in above : f = First(above)
    BY <1>21, <2>1
  <2>3. f \in DOMAIN list /\ Overlapping(list[f], o) /\ list[f] \in Rec
    BY <1>6, <1>8, <1>13, <2>2
  <2>4. list[f].start \in Nat /\ list[f].start < o.end
    BY <2>3, RecFields DEF Overlapping
  <2>5. QED
    BY <1>11, <2>1, <2>2, <2>3, <2>4
<1>23. e \in Nat /\ e =< o.end
  BY <1>2, <1>5, <1>11, <1>22
<1>24. /\ d \in Desc /\ d.start = g /\ d.end = e /\ d.mand = m /\ d.type = c.type
  BY <1>5, <1>12, <1>20, <1>23 DEF Desc
<1>25. ASSUME SortedByStart(list), NEW i \in DOMAIN list, NEW a \in Nat, list[i].mand # m,
              Covers(list[i], a), Covers(d, a), is_conflict(c.type, list[i].type)
       PROVE  FALSE
  <2>1. list[i] \in Rec /\ list[i].start \in Nat /\ list[i].end \in Nat
    BY <1>6, RecFields
  <2>2. list[i].start =< a /\ a < list[i].end /\ g =< a /\ a < e
    BY <1>24, <1>25 DEF Covers
  <2>3. Overlapping(list[i], o)
    BY <1>2, <1>5, <1>20, <1>23, <2>1, <2>2 DEF Overlapping
  <2>4. i \in Found(list, o, 1)
    <3>1. \A j \in DOMAIN list : list[j].start \in Int
      BY <1>6, RecFields
    <3>2. 1 \in Nat /\ 1 >= 1 /\ i >= 1 /\ o.end \in Int
      BY <1>2, <1>5, <1>6
    <3>3. QED
      BY <1>6, <1>25, <2>3, <3>1, <3>2, SearchMeetsAll, Zenon
  <2>5. i \in met
    BY <1>5, <1>7, <1>25, <2>4 DEF Conflicting
  <2>6. \A u \in above : i < u
    <3>1. SUFFICES ASSUME NEW u \in above, ~(i < u)
                   PROVE  FALSE
      OBVIOUS
    <3>2. PICK f \in above : f = First(above) /\ f =< u
      BY <1>21, <3>1
    <3>3. f \in DOMAIN list /\ u \in DOMAIN list /\ (f < i \/ f = i)
      BY <1>6, <1>14, <3>1, <3>2
    <3>4. list[f].start =< list[i].start /\ list[f].start \in Nat
      BY <1>6, <1>25, <2>1, <3>3, RecFields DEF SortedByStart
    <3>5. e = list[f].start
      BY <1>22, <3>2
    <3>6. QED
      BY <2>1, <2>2, <3>4, <3>5
  <2>7. i \notin above
    BY <1>6, <2>6
  <2>8. list[i].end \in G
    BY <1>9, <1>16, <2>5, <2>6, <2>7
  <2>9. QED
    BY <1>19, <1>20, <2>1, <2>2, <2>8
<1>26. QED
  BY <1>1, <1>5, <1>20, <1>23, <1>24, <1>25

(* The user that holds part of a conflict has it in a record. *)
LEMMA HeldConflict ==
  ASSUME NEW s \in Seq(Rec), NEW k, NEW a, NEW x, Strong(x), Backed(s, k, a, x),
         NEW y \in MutexTypes, is_conflict(y, x.type)
  PROVE  \E i \in DOMAIN s : s[i].mand = k /\ Covers(s[i], a) /\ is_conflict(y, s[i].type)
<1>1. DataType(x) \in 0 .. 2 /\ AddrType(x) \in 0 .. 2
  BY PartsInRange
<1>2. y % 4 \in 0 .. 2 /\ y \div 4 \in 0 .. 2
  BY TypeParts
<1>3. \A i \in DOMAIN s : Strong(s[i]) /\ DataType(s[i]) \in 0 .. 2 /\ AddrType(s[i]) \in 0 .. 2
  BY SeqFacts, RecFields, PartsInRange
<1>4. Excludes(y % 4, DataType(x)) \/ Excludes(y \div 4, AddrType(x))
  BY ConflictInPart
<1>5. CASE Excludes(y % 4, DataType(x))
  <2>1. PICK i \in DOMAIN s : s[i].mand = k /\ Covers(s[i], a) /\ DataType(s[i]) >= DataType(x)
    BY Zenon DEF Backed
  <2>2. Excludes(y % 4, DataType(s[i]))
    BY <1>1, <1>2, <1>3, <1>5, <2>1, ExcludesGrows
  <2>3. is_conflict(y, s[i].type)
    BY <1>3, <2>2, ConflictInPart
  <2>4. QED
    BY <2>1, <2>3, Zenon
<1>6. CASE Excludes(y \div 4, AddrType(x))
  <2>1. PICK i \in DOMAIN s : s[i].mand = k /\ Covers(s[i], a) /\ AddrType(s[i]) >= AddrType(x)
    BY Zenon DEF Backed
  <2>2. Excludes(y \div 4, AddrType(s[i]))
    BY <1>1, <1>2, <1>3, <1>6, <2>1, ExcludesGrows
  <2>3. is_conflict(y, s[i].type)
    BY <1>3, <2>2, ConflictInPart
  <2>4. QED
    BY <2>1, <2>3, Zenon
<1>7. QED
  BY <1>4, <1>5, <1>6

(* The local variables of a call that has the mutex. *)
LEMMA FrameFields ==
  ASSUME NEW f \in Frame
  PROVE  /\ f.op \in {"melt", "begin", "unlock"} /\ f.todo \in Seq(Desc)
         /\ f.lock \in Nat /\ f.prev \in Nat /\ f.grant \in Desc /\ f # None
BY NoFrame DEF Frame

(***************************************************************************)
(* $lock found no conflict: the region it will report is free of what      *)
(* others hold, and the parts it will melt in make up the whole request.   *)
(***************************************************************************)
LEMMA Granting ==
  ASSUME IInv, NEW m \in Mandates, LockGranted(m)
  PROVE  IInv'
<1>0. TypeOK /\ list \in Seq(Rec) /\ CallsOK /\ WaitersOK
  BY DEF IInv, RecordsOK
<1>1. /\ pc[m] = "lock" /\ frame = None
      /\ frame' = [op |-> "begin", todo |-> Parts(m), lock |-> 0, prev |-> 0, grant |-> CutTo(m)]
      /\ pc' = [pc EXCEPT ![m] = "melt"]
      /\ UNCHANGED <<list, call, held, retracts, broken>>
  BY DEF LockGranted, Locking
<1>2. call[m] \in CallRec /\ Ordered(call[m])
  BY <1>0, <1>1 DEF CallsOK
<1>3. PICK d : d = CutTo(m)
  OBVIOUS
<1>4. /\ d \in Desc /\ d.mand = m /\ d.type = call[m].type
      /\ call[m].opt[1] =< d.start /\ d.end =< call[m].opt[2]
      /\ SortedByStart(list) =>
           \A i \in DOMAIN list, a \in Nat :
             list[i].mand # m /\ Covers(list[i], a) /\ Covers(d, a) =>
               ~is_conflict(call[m].type, list[i].type)
  BY <1>0, <1>2, <1>3, CutFacts
<1>5. PICK todo : todo = Parts(m)
  OBVIOUS
<1>6. todo \in Seq(Desc) /\ Len(todo) >= 1 /\ Melting(m, call[m], todo, list)
  BY <1>2, <1>5, PartsFacts
<1>7. /\ frame' \in Frame /\ frame'.op = "begin" /\ frame'.todo = todo /\ frame'.lock = 0
      /\ frame'.prev = 0 /\ frame'.grant = d
  BY <1>1, <1>3, <1>4, <1>5, <1>6 DEF Frame
<1>8. frame' # None
  BY <1>7, NoFrame
<1>9. \A q \in Mandates : pc'[q] = IF q = m THEN "melt" ELSE pc[q]
  BY <1>0, <1>1 DEF TypeOK
<1>10. \A q \in Mandates : pc[q] # "melt"
  BY <1>1 DEF IInv, MeltOK
<1>11. TypeOK'
  BY <1>0, <1>1, <1>7 DEF TypeOK
<1>12. CallsOK'
  BY <1>0, <1>1, <1>9 DEF CallsOK
<1>13. RecordsOK' /\ HeldOK' /\ SortedOK' /\ ExclusionWhileSorted'
  BY <1>1 DEF IInv, RecordsOK, HeldOK, SortedOK, ExclusionWhileSorted, HoldersExcluded
<1>14. UnheldOK' /\ UnlockOK'
  BY <1>7 DEF UnheldOK, UnlockOK, Unlocking
<1>15. WaitersOK'
  <2>1. \A i \in DOMAIN list : \A q \in list[i].waiters : q \in Mandates /\ pc[q] = "sleep"
    BY <1>0, SeqFacts, RecFields DEF WaitersOK
  <2>2. QED
    BY <1>0, <1>1, <1>9, <2>1 DEF WaitersOK
<1>16. SleepersHaveReason'
  <2>1. \A q \in Mandates : pc'[q] = "sleep" => pc[q] = "sleep"
    BY <1>9
  <2>2. \A q \in Mandates : SleptOn(q)' = SleptOn(q) /\ Obligatory(q)' = Obligatory(q)
    BY <1>1 DEF SleptOn, Obligatory
  <2>3. list' = list
    BY <1>1
  <2>4. QED
    BY <2>1, <2>2, <2>3, Zenon DEF IInv, SleepersHaveReason
<1>17. FrameOK'
  <2>1. Len(list') \in Nat
    BY <1>0, <1>1
  <2>2. QED
    BY <1>6, <1>7, <2>1 DEF FrameOK
<1>18. MeltOK'
  <2>1. SUFFICES ASSUME NEW q \in Mandates, pc'[q] = "melt"
                 PROVE  /\ frame' # None /\ frame'.op \in {"melt", "begin"}
                        /\ frame'.grant.type = call[q].type
                        /\ call[q].opt[1] =< frame'.grant.start
                        /\ frame'.grant.end =< call[q].opt[2]
                        /\ Melting(q, call[q], frame'.todo, list)
    BY <1>1, Zenon DEF MeltOK
  <2>2. q = m
    BY <1>9, <1>10, <2>1
  <2>3. QED
    BY <1>4, <1>6, <1>7, <1>8, <2>2
<1>19. GrantOK'
  <2>1. SUFFICES ASSUME ~broken, NEW q \in Mandates, NEW k \in Mandates, NEW a \in Addrs,
                        pc'[q] = "melt", q # k, Covers(d, a), held[k][a] # None,
                        is_conflict(call[q].type, held[k][a].type)
                 PROVE  FALSE
    BY <1>1, <1>7, Zenon DEF GrantOK
  <2>2. q = m
    BY <1>9, <1>10, <2>1
  <2>3. SortedByStart(list)
    BY <2>1 DEF IInv, SortedOK
  <2>4. Backed(list, k, a, held[k][a]) /\ Strong(held[k][a]) /\ a \in Nat
    BY <1>0, <2>1, HeldStrong, AddrsNat DEF IInv, HeldOK
  <2>5. call[m].type \in MutexTypes
    BY <1>2, CallFields
  <2>6. PICK i \in DOMAIN list : /\ list[i].mand = k /\ Covers(list[i], a)
                                 /\ is_conflict(call[m].type, list[i].type)
    <3>0. PICK x : x = held[k][a]
      OBVIOUS
    <3>1. PICK s \in Seq(Rec), y \in MutexTypes : s = list /\ y = call[m].type
      BY <1>0, <2>5
    <3>2. Strong(x) /\ Backed(s, k, a, x) /\ is_conflict(y, x.type)
      BY <2>1, <2>2, <2>4, <3>0, <3>1, Zenon
    <3>3. \E i \in DOMAIN s : s[i].mand = k /\ Covers(s[i], a) /\ is_conflict(y, s[i].type)
      BY <3>2, HeldConflict
    <3>4. QED
      BY <3>1, <3>3, Zenon
  <2>7. QED
    BY <1>4, <2>1, <2>2, <2>3, <2>4, <2>6
<1>20. QED
  BY <1>11, <1>12, <1>13, <1>14, <1>15, <1>16, <1>17, <1>18, <1>19 DEF IInv

(* An $unlock begins: what it names is no longer held. *)
LEMMA UnlockBegins ==
  ASSUME IInv, NEW m \in Mandates, NEW r \in Nat \X Nat, UnlockBegin(m, r),
         retracts' \subseteq retracts
  PROVE  IInv'
<1>0. TypeOK /\ list \in Seq(Rec) /\ CallsOK /\ WaitersOK
  BY DEF IInv, RecordsOK
<1>1. PICK d : d = UnlockDesc(m, r)
  OBVIOUS
<1>2. d \in Desc /\ d.start = r[1] /\ d.end = r[2] /\ d.mand = m
  <2>1. make_lock_type(lock_write, lock_write) \in MutexTypes
    BY TypeOfParts DEF lock_write
  <2>2. QED
    BY <1>1, <2>1 DEF UnlockDesc, MkDesc, Desc
<1>3. PICK f : f = find_own(list, d, 1)
  OBVIOUS
<1>4. /\ frame = None /\ UNCHANGED <<list, pc, call, broken>>
      /\ frame' = [op |-> "unlock", todo |-> <<d>>, grant |-> d, prev |-> 0, lock |-> f]
      /\ held' = [held EXCEPT ![m] = [a \in Addrs |-> IF r[1] =< a /\ a < r[2] THEN None ELSE @[a]]]
  BY <1>1, <1>3 DEF UnlockBegin
<1>5. /\ f \in 0 .. Len(list)
      /\ f # 0 => f \in DOMAIN list /\ f >= 1 /\ Own(list[f], d) /\ Overlapping(list[f], d)
      /\ SortedByStart(list) =>
           \A k \in DOMAIN list :
             k >= 1 /\ Own(list[k], d) /\ Overlapping(list[k], d) => f # 0 /\ f =< k
  <2>1. 1 \in Nat /\ 1 >= 1
    OBVIOUS
  <2>2. QED
    BY <1>0, <1>2, <1>3, <2>1, FindOwnFacts, ZenonT(30)
<1>6. Len(list) \in Nat /\ DOMAIN list = 1 .. Len(list)
  BY <1>0
<1>7. /\ frame' \in Frame /\ frame'.op = "unlock" /\ frame'.todo = <<d>> /\ frame'.lock = f
      /\ frame'.prev = 0
  <2>1. <<d>> \in Seq(Desc) /\ f \in Nat
    BY <1>2, <1>5, <1>6
  <2>2. QED
    BY <1>2, <1>4, <2>1 DEF Frame
<1>8. frame' # None /\ desc' = d /\ Len(frame'.todo) = 1
  BY <1>7, NoFrame DEF desc
<1>9. \A q \in Mandates : pc[q] # "melt"
  BY <1>4 DEF IInv, MeltOK
<1>10. \A q \in Mandates, a \in Addrs :
         held'[q][a] = IF q = m /\ r[1] =< a /\ a < r[2] THEN None ELSE held[q][a]
  BY <1>0, <1>4 DEF TypeOK
<1>11. TypeOK'
  <2>1. held' \in [Mandates -> [Addrs -> Strength \cup {None}]]
    <3>1. held[m] \in [Addrs -> Strength \cup {None}]
      BY <1>0 DEF TypeOK
    <3>2. [a \in Addrs |-> IF r[1] =< a /\ a < r[2] THEN None ELSE held[m][a]]
            \in [Addrs -> Strength \cup {None}]
      BY <3>1
    <3>3. held \in [Mandates -> [Addrs -> Strength \cup {None}]]
      BY <1>0 DEF TypeOK
    <3>4. QED
      BY <1>4, <3>2, <3>3
  <2>2. QED
    BY <1>0, <1>4, <1>7, <2>1 DEF TypeOK
<1>12. CallsOK' /\ RecordsOK' /\ SortedOK' /\ WaitersOK'
  BY <1>4 DEF IInv, CallsOK, RecordsOK, SortedOK, WaitersOK
<1>13. SleepersHaveReason'
  BY <1>4 DEF IInv, SleepersHaveReason, SleptOn, Obligatory
<1>14. HeldOK'
  <2>1. SUFFICES ASSUME NEW q \in Mandates, NEW a \in Addrs, held'[q][a] # None
                 PROVE  Backed(list, q, a, held'[q][a])
    BY <1>4, Zenon DEF HeldOK
  <2>2. held'[q][a] = held[q][a]
    BY <1>10, <2>1
  <2>3. QED
    BY <2>1, <2>2, Zenon DEF IInv, HeldOK
<1>15. ExclusionWhileSorted'
  BY <1>4, <1>10 DEF IInv, ExclusionWhileSorted, HoldersExcluded
<1>16. MeltOK' /\ GrantOK'
  BY <1>4, <1>9 DEF MeltOK, GrantOK
<1>17. UnheldOK'
  BY <1>2, <1>8, <1>10 DEF UnheldOK, Covers
<1>18. UnlockOK'
  <2>1. SUFFICES ASSUME ~broken, NEW i \in DOMAIN list, ToUnlock(list[i], d)
                 PROVE  f # 0 /\ i >= f
    BY <1>4, <1>7, <1>8 DEF UnlockOK
  <2>2. SortedByStart(list) /\ i >= 1
    BY <1>6, <2>1 DEF IInv, SortedOK
  <2>3. f # 0 /\ f =< i
    BY <1>5, <2>1, <2>2, Zenon DEF ToUnlock
  <2>4. QED
    BY <1>5, <1>6, <2>3
<1>19. FrameOK'
  <2>1. frame'.prev =< Len(list) /\ frame'.lock =< Len(list) /\ Len(frame'.todo) >= 1
    BY <1>5, <1>6, <1>7, <1>8
  <2>2. frame'.lock # 0 => Own(list[frame'.lock], d) /\ Overlapping(list[frame'.lock], d)
    BY <1>5, <1>7, Zenon
  <2>3. QED
    BY <1>4, <1>7, <1>8, <2>1, <2>2 DEF FrameOK
<1>20. QED
  BY <1>11, <1>12, <1>13, <1>14, <1>15, <1>16, <1>17, <1>18, <1>19 DEF IInv

(* $unlock found no further own record and returns. *)
LEMMA UnlockEnds ==
  ASSUME IInv, UnlockEnd
  PROVE  IInv'
<1>1. frame # None /\ frame.op = "unlock" /\ frame' = None
      /\ UNCHANGED <<list, pc, call, held, retracts, broken>>
  BY DEF UnlockEnd
<1>2. \A q \in Mandates : pc[q] # "melt"
  BY <1>1 DEF IInv, MeltOK
<1>3. TypeOK'
  BY <1>1 DEF IInv, TypeOK
<1>4. CallsOK' /\ RecordsOK' /\ SortedOK' /\ WaitersOK' /\ HeldOK'
  BY <1>1 DEF IInv, CallsOK, RecordsOK, SortedOK, WaitersOK, HeldOK
<1>5. ExclusionWhileSorted' /\ SleepersHaveReason'
  BY <1>1 DEF IInv, SleepersHaveReason, SleptOn, Obligatory, ExclusionWhileSorted, HoldersExcluded
<1>6. MeltOK' /\ GrantOK' /\ UnheldOK' /\ UnlockOK' /\ FrameOK'
  BY <1>1, <1>2 DEF MeltOK, GrantOK, UnheldOK, UnlockOK, Unlocking, FrameOK
<1>7. QED
  BY <1>3, <1>4, <1>5, <1>6 DEF IInv

------------------------------------------------------------------------------
(* Replacing the part at work leaves the other parts of the request. *)
LEMMA HeadReplaced ==
  ASSUME NEW todo \in Seq(Desc), Len(todo) >= 1, NEW d \in Desc, NEW t, t = <<d>> \o Tail(todo)
  PROVE  /\ t \in Seq(Desc) /\ Len(t) = Len(todo) /\ DOMAIN t = DOMAIN todo /\ 1 \in DOMAIN todo
         /\ Head(t) = d /\ t[1] = d /\ Head(todo) = todo[1] /\ todo[1] \in Desc
         /\ \A i \in DOMAIN todo : i # 1 => t[i] = todo[i]
<1>1. PICK u : u = Tail(todo)
  OBVIOUS
<1>2. /\ u \in Seq(Desc) /\ Len(u) = Len(todo) - 1
      /\ \A i \in 1 .. (Len(todo) - 1) : u[i] = todo[i + 1]
  BY <1>1
<1>3. t = <<d>> \o u
  BY <1>1
<1>4. t \in Seq(Desc) /\ Len(t) = Len(todo) /\ t[1] = d
  BY <1>2, <1>3
<1>5. \A i \in 2 .. Len(todo) : t[i] = u[i - 1]
  BY <1>2, <1>3
<1>6. \A i \in 2 .. Len(todo) : t[i] = todo[i]
  <2>1. TAKE i \in 2 .. Len(todo)
  <2>2. i - 1 \in 1 .. (Len(todo) - 1) /\ (i - 1) + 1 = i
    OBVIOUS
  <2>3. QED
    BY <1>2, <1>5, <2>2
<1>7. DOMAIN todo = 1 .. Len(todo) /\ DOMAIN t = 1 .. Len(todo)
  BY <1>4
<1>8. QED
  BY <1>4, <1>6, <1>7

(* desc is the first part to do, and belongs to the mandate that melts. *)
LEMMA DescFacts ==
  ASSUME IInv, frame # None
  PROVE  /\ frame \in Frame /\ frame.todo \in Seq(Desc) /\ Len(frame.todo) >= 1
         /\ desc \in Desc /\ desc = frame.todo[1] /\ 1 \in DOMAIN frame.todo
<1>1. frame \in Frame
  BY DEF IInv, TypeOK
<1>2. frame.todo \in Seq(Desc)
  BY <1>1, FrameFields
<1>3. Len(frame.todo) >= 1
  BY DEF IInv, FrameOK
<1>4. Head(frame.todo) = frame.todo[1] /\ 1 \in DOMAIN frame.todo /\ frame.todo[1] \in Desc
  BY <1>2, <1>3
<1>5. QED
  BY <1>1, <1>2, <1>3, <1>4 DEF desc

(* There is one call that melts, and its descriptor is its own. *)
LEMMA MeltFacts ==
  ASSUME IInv, NEW m \in Mandates, pc[m] = "melt"
  PROVE  /\ frame # None /\ frame.op \in {"melt", "begin"} /\ desc.mand = m
         /\ desc.type = call[m].type /\ call[m] \in CallRec /\ Ordered(call[m])
         /\ \A q \in Mandates : pc[q] = "melt" => q = m
<1>1. frame # None /\ frame.op \in {"melt", "begin"}
  BY DEF IInv, MeltOK
<1>2. desc = frame.todo[1] /\ 1 \in DOMAIN frame.todo
  BY <1>1, DescFacts
<1>3. \A q \in Mandates : pc[q] = "melt" => Melting(q, call[q], frame.todo, list)
  BY DEF IInv, MeltOK
<1>4. \A q \in Mandates : pc[q] = "melt" => desc.mand = q /\ desc.type = call[q].type
  BY <1>2, <1>3 DEF Melting
<1>5. call[m] \in CallRec /\ Ordered(call[m])
  BY DEF IInv, CallsOK
<1>6. QED
  BY <1>1, <1>4, <1>5

(* A part covers what it covered before it was cut, or the list does. *)
LEMMA MeltingCut ==
  ASSUME NEW m \in Mandates, NEW c \in CallRec, NEW todo \in Seq(Desc), Len(todo) >= 1,
         NEW s \in Seq(Rec), Melting(m, c, todo, s),
         NEW d \in Desc, d.end = todo[1].end, d.mand = todo[1].mand, d.type = todo[1].type,
         d.oblig = todo[1].oblig,
         \A a \in Nat : todo[1].start =< a /\ a < d.start => HasAt(s, m, a, todo[1]),
         NEW t, t = <<d>> \o Tail(todo)
  PROVE  Melting(m, c, t, s)
<1>1. /\ t \in Seq(Desc) /\ Len(t) = Len(todo) /\ DOMAIN t = DOMAIN todo /\ 1 \in DOMAIN todo
      /\ t[1] = d /\ todo[1] \in Desc
      /\ \A i \in DOMAIN todo : i # 1 => t[i] = todo[i]
  BY HeadReplaced
<1>2. \A i \in DOMAIN todo : todo[i].mand = m /\ todo[i].type = c.type
  BY Zenon DEF Melting
<1>3. \A i \in DOMAIN t : t[i].mand = m /\ t[i].type = c.type
  BY <1>1, <1>2
<1>4. ASSUME NEW a \in Nat, c.opt[1] =< a, a < c.opt[2], ~Backed(s, m, a, Wanted(c, a))
      PROVE  \E i \in DOMAIN t : ToDo(t[i], c, a)
  <2>1. PICK i \in DOMAIN todo : ToDo(todo[i], c, a)
    BY <1>4, Zenon DEF Melting
  <2>2. CASE i # 1
    BY <1>1, <2>1, <2>2
  <2>3. CASE i = 1
    <3>1. PICK e \in Desc : e = todo[1]
      BY <1>1
    <3>2. Covers(e, a) /\ (Wanted(c, a).oblig => e.oblig)
      BY <2>1, <2>3, <3>1, Zenon DEF ToDo
    <3>3. ~(a < d.start)
      <4>1. SUFFICES ASSUME a < d.start
                     PROVE  FALSE
        OBVIOUS
      <4>2. HasAt(s, m, a, e)
        BY <3>1, <3>2, <4>1 DEF Covers
      <4>3. PICK h \in DOMAIN s : s[h].mand = m /\ Covers(s[h], a) /\ AsStrong(s[h], e)
        BY <4>2, Zenon DEF HasAt
      <4>4. PICK x : x = Wanted(c, a)
        OBVIOUS
      <4>5. Strong(x) /\ Strong(e) /\ Strong(s[h]) /\ x.type = c.type
        BY <4>4, WantedStrong, DescFields, SeqFacts, RecFields DEF Wanted
      <4>6. AsStrong(e, x)
        <5>1. e.type = x.type
          BY <1>1, <1>2, <3>1, <4>5
        <5>2. DataType(e) = DataType(x) /\ AddrType(e) = AddrType(x)
          BY <5>1 DEF DataType, AddrType
        <5>3. DataType(x) \in 0 .. 2 /\ AddrType(x) \in 0 .. 2
          BY <4>5, PartsInRange
        <5>4. DataType(e) >= DataType(x) /\ AddrType(e) >= AddrType(x)
          BY <5>2, <5>3
        <5>5. QED
          BY <3>2, <4>4, <5>4, Zenon DEF AsStrong
      <4>7. AsStrong(s[h], x)
        BY <4>3, <4>5, <4>6, AsStrongChain
      <4>8. HasAt(s, m, a, x)
        BY <4>3, <4>7, Zenon DEF HasAt
      <4>9. QED
        BY <1>4, <4>4, <4>8, HasBacks, Zenon
    <3>4. Covers(d, a)
      BY <3>1, <3>2, <3>3, DescFields DEF Covers
    <3>5. Wanted(c, a).oblig => d.oblig
      BY <3>1, <3>2, Zenon
    <3>6. ToDo(d, c, a)
      BY <3>4, <3>5, Zenon DEF ToDo
    <3>7. QED
      BY <1>1, <3>6
  <2>4. QED
    BY <2>2, <2>3
<1>5. QED
  BY <1>3, <1>4, Zenon DEF Melting

(***************************************************************************)
(* The loop of melt_lock_into_list: the list only grows, and what desc no  *)
(* longer covers the list does.                                            *)
(***************************************************************************)
LEMMA LoopStep ==
  ASSUME IInv, NEW m \in Mandates, pc[m] = "melt",
         NEW s, NEW F, Edit(s, F, pc), Edited(list, s, UNION {l.waiters : l \in F}),
         \A l \in F : \E i \in DOMAIN list : l.waiters = list[i].waiters,
         CoverKept(list, s, {}),
         NEW d \in Desc, d.end = desc.end, d.mand = desc.mand, d.type = desc.type,
         d.oblig = desc.oblig,
         \A a \in Nat : desc.start =< a /\ a < d.start => HasAt(s, m, a, desc),
         NEW f \in 0 .. Len(s), f # 0 => Own(s[f], d) /\ Overlapping(s[f], d),
         NEW p \in 0 .. Len(s),
         p # 0 => Own(s[p], d) /\ AsStrong(s[p], d) /\ s[p].end = d.start,
         FrameLoop(<<d>> \o Tail(frame.todo), f, p),
         UNCHANGED <<call, held, retracts>>
  PROVE  IInv'
<1>0. TypeOK /\ list \in Seq(Rec) /\ CallsOK
  BY DEF IInv, RecordsOK
<1>1. s \in Seq(Rec)
  BY Zenon DEF Edited
<1>2. /\ frame # None /\ desc.mand = m /\ call[m] \in CallRec
      /\ \A q \in Mandates : pc[q] = "melt" => q = m
  BY MeltFacts
<1>3. /\ frame \in Frame /\ frame.todo \in Seq(Desc) /\ Len(frame.todo) >= 1
      /\ desc \in Desc /\ desc = frame.todo[1]
  BY <1>2, DescFacts
<1>4. pc \in [Mandates -> PcVals]
  BY <1>0 DEF TypeOK, PcVals
<1>5. /\ RecordsOK' /\ WaitersOK' /\ SortedOK' /\ SleepersHaveReason'
      /\ list' = s /\ broken' \in BOOLEAN /\ (~broken' => ~broken)
      /\ pc' \in [Mandates -> PcVals]
      /\ \A q \in Mandates : pc'[q] = pc[q] \/ (pc'[q] = "lock" /\ pc[q] = "sleep")
  BY <1>4, EditStep
<1>6. PICK t : t = <<d>> \o Tail(frame.todo)
  OBVIOUS
<1>7. t \in Seq(Desc) /\ Len(t) = Len(frame.todo) /\ Head(t) = d
  BY <1>3, <1>6, HeadReplaced
<1>8. /\ frame' \in Frame /\ frame'.op = "melt" /\ frame'.todo = t /\ frame'.lock = f
      /\ frame'.prev = p /\ frame'.grant = frame.grant
  <2>1. f \in Nat /\ p \in Nat
    BY <1>1
  <2>2. frame' = [frame EXCEPT !.op = "melt", !.todo = t, !.lock = f, !.prev = p]
    BY <1>6 DEF FrameLoop
  <2>3. QED
    BY <1>3, <1>7, <2>1, <2>2 DEF Frame
<1>9. frame' # None /\ desc' = d
  BY <1>7, <1>8, NoFrame DEF desc
<1>10. TypeOK'
  <2>1. list' \in Seq(LockRec)
    <3>1. Rec \subseteq LockRec
      BY DEF Rec
    <3>2. QED
      BY <1>1, <1>5, <3>1
  <2>2. QED
    BY <1>0, <1>5, <1>8, <2>1 DEF TypeOK, PcVals
<1>11. \A q \in Mandates : pc'[q] = "melt" => pc[q] = "melt"
  BY <1>5
<1>12. CallsOK'
  <2>1. \A q \in Mandates : pc'[q] # "idle" => pc[q] # "idle"
    BY <1>5
  <2>2. QED
    BY <1>0, <2>1 DEF CallsOK
<1>13. HeldOK'
  <2>1. CoverKept(list, list', {})
    BY <1>5, Zenon
  <2>2. QED
    BY <1>5, <2>1, HeldKept DEF IInv
<1>14. UnheldOK' /\ UnlockOK'
  BY <1>8 DEF UnheldOK, UnlockOK, Unlocking
<1>15. GrantOK' /\ ExclusionWhileSorted'
  BY <1>5, <1>8, <1>11 DEF IInv, GrantOK, ExclusionWhileSorted, HoldersExcluded
<1>16. FrameOK'
  <2>1. f =< Len(s) /\ p =< Len(s) /\ Len(t) >= 1
    BY <1>1, <1>3, <1>7
  <2>2. QED
    BY <1>5, <1>8, <1>9, <2>1 DEF FrameOK
<1>17. MeltOK'
  <2>1. SUFFICES ASSUME NEW q \in Mandates, pc'[q] = "melt"
                 PROVE  /\ frame' # None /\ frame'.op \in {"melt", "begin"}
                        /\ frame'.grant.type = call[q].type
                        /\ call[q].opt[1] =< frame'.grant.start
                        /\ frame'.grant.end =< call[q].opt[2]
                        /\ Melting(q, call[q], t, s)
    BY <1>5, <1>8, Zenon DEF MeltOK
  <2>2. q = m /\ pc[m] = "melt"
    BY <1>2, <1>11, <2>1
  <2>3. /\ frame.grant.type = call[m].type /\ call[m].opt[1] =< frame.grant.start
        /\ frame.grant.end =< call[m].opt[2] /\ Melting(m, call[m], frame.todo, list)
    BY <2>2 DEF IInv, MeltOK
  <2>4. Melting(m, call[m], frame.todo, s)
    BY <1>0, <1>1, <1>2, <2>3, MeltingKept, Zenon
  <2>5. Melting(m, call[m], t, s)
    <3>1. PICK c \in CallRec, todo \in Seq(Desc) : c = call[m] /\ todo = frame.todo
      BY <1>2, <1>3
    <3>2. PICK e : e = desc
      OBVIOUS
    <3>3. /\ e = todo[1] /\ d.end = e.end /\ d.mand = e.mand /\ d.type = e.type
          /\ d.oblig = e.oblig /\ \A a \in Nat : e.start =< a /\ a < d.start => HasAt(s, m, a, e)
      BY <1>3, <3>1, <3>2
    <3>4. /\ Len(todo) >= 1 /\ t = <<d>> \o Tail(todo) /\ Melting(m, c, todo, s)
      BY <1>3, <1>6, <2>4, <3>1
    <3>5. Melting(m, c, t, s)
      BY <1>1, <3>3, <3>4, MeltingCut
    <3>6. QED
      BY <3>1, <3>5
  <2>6. QED
    BY <1>8, <1>9, <2>2, <2>3, <2>5
<1>18. QED
  BY <1>5, <1>10, <1>12, <1>13, <1>14, <1>15, <1>16, <1>17 DEF IInv

(* Moving the start of a descriptor leaves the rest of it. *)
LEMMA WithStartFacts ==
  ASSUME NEW e \in Desc, NEW b \in Nat, NEW d, d = WithStart(e, b)
  PROVE  /\ d \in Desc /\ d.start = b /\ d.end = e.end /\ d.mand = e.mand /\ d.type = e.type
         /\ d.oblig = e.oblig
BY DEF WithStart, Desc

(* Nobody sleeps on no record. *)
LEMMA NobodyFreed == UNION {l.waiters : l \in {}} = {}
OBVIOUS

(* Who sleeps on a record taken out. *)
LEMMA OneFreed ==
  ASSUME NEW k
  PROVE  UNION {l.waiters : l \in {k}} = k.waiters
OBVIOUS

(***************************************************************************)
(* melt_lock_into_list looks for the first own record and cuts or splits   *)
(* it at the start of the part.                                            *)
(***************************************************************************)
LEMMA MeltBegins ==
  ASSUME IInv, NEW m \in Mandates, MeltBegin(m)
  PROVE  IInv'
<1>0. list \in Seq(Rec) /\ WaitersApart(list)
  BY DEF IInv, RecordsOK, WaitersOK
<1>1. pc[m] = "melt" /\ UNCHANGED <<call, held, retracts>>
  BY DEF MeltBegin
<1>2. /\ frame # None /\ desc \in Desc /\ desc.mand = m
  BY <1>1, MeltFacts, DescFacts
<1>3. PICK e \in Desc : e = desc
  BY <1>2
<1>4. PICK i : i = find_own(list, e, 1)
  OBVIOUS
<1>5. /\ i \in 0 .. Len(list)
      /\ i # 0 => i \in DOMAIN list /\ i >= 1 /\ Own(list[i], e) /\ Overlapping(list[i], e)
  <2>1. 1 \in Nat /\ 1 >= 1
    OBVIOUS
  <2>2. QED
    BY <1>0, <1>4, <2>1, FindOwnFacts, Zenon
<1>6. e.start \in Nat /\ e.end \in Nat
  BY DescFields
<1>7. Len(list) \in Nat /\ DOMAIN list = 1 .. Len(list) /\ \A k \in DOMAIN list : list[k] \in Rec
  BY <1>0, SeqFacts
<1>8. PICK l : l = list[i]
  OBVIOUS
<1>9. CASE ~(i # 0 /\ l.start < e.start)
  <2>1. FrameLoop(<<e>> \o Tail(frame.todo), i, 0) /\ Edit(list, {}, pc)
    BY <1>3, <1>4, <1>8, <1>9 DEF MeltBegin
  <2>2. Edited(list, list, UNION {k.waiters : k \in {}}) /\ CoverKept(list, list, {})
    BY <1>0, EditedItself, NobodyFreed, Zenon
  <2>3. 0 \in 0 .. Len(list)
    BY <1>7
  <2>4. \A a \in Nat : ~(desc.start =< a /\ a < e.start)
    BY <1>3, <1>6
  <2>5. /\ e.end = desc.end /\ e.mand = desc.mand /\ e.type = desc.type /\ e.oblig = desc.oblig
    BY <1>3
  <2>6. i # 0 => Own(list[i], e) /\ Overlapping(list[i], e)
    BY <1>5
  <2>7. QED
    BY <1>1, <1>5, <2>1, <2>2, <2>3, <2>4, <2>5, <2>6, LoopStep
<1>10. ASSUME i # 0, l.start < e.start
       PROVE  IInv'
  <2>1. /\ i \in DOMAIN list /\ l \in Rec /\ l.mand = m /\ l.end > e.start /\ l.start < e.end
        /\ l.start \in Nat /\ l.end \in Nat
    BY <1>2, <1>3, <1>5, <1>7, <1>8, <1>10, RecFields DEF Own, Overlapping
  <2>2. PICK d : d = WithStart(e, l.end)
    OBVIOUS
  <2>3. /\ d \in Desc /\ d.start = l.end /\ d.end = desc.end /\ d.mand = desc.mand
        /\ d.type = desc.type /\ d.oblig = desc.oblig
    BY <1>3, <2>1, <2>2, WithStartFacts
  <2>4. CASE is_stronger_or_equal(l, e)
    <3>1. PICK f : f = find_own(list, d, i)
      OBVIOUS
    <3>2. FrameLoop(<<d>> \o Tail(frame.todo), f, 0) /\ Edit(list, {}, pc)
      BY <1>3, <1>4, <1>8, <1>10, <2>2, <2>4, <3>1 DEF MeltBegin
    <3>3. Edited(list, list, UNION {k.waiters : k \in {}}) /\ CoverKept(list, list, {})
      BY <1>0, EditedItself, NobodyFreed, Zenon
    <3>4. f \in 0 .. Len(list) /\ (f # 0 => Own(list[f], d) /\ Overlapping(list[f], d))
      <4>1. i \in Nat /\ i >= 1
        BY <1>5, <1>7, <1>10
      <4>2. QED
        BY <1>0, <2>3, <3>1, <4>1, FindOwnFacts, Zenon
    <3>5. 0 \in 0 .. Len(list)
      BY <1>7
    <3>6. AsStrong(l, desc)
      BY <1>3, <2>4 DEF AsStrong, is_stronger_or_equal
    <3>7. \A a \in Nat : desc.start =< a /\ a < d.start => HasAt(list, m, a, desc)
      <4>1. TAKE a \in Nat
      <4>2. HAVE desc.start =< a /\ a < d.start
      <4>3. Covers(l, a)
        BY <1>3, <1>6, <1>10, <2>1, <2>3, <4>2 DEF Covers
      <4>4. QED
        BY <1>8, <2>1, <3>6, <4>3 DEF HasAt
    <3>8. QED
      BY <1>1, <2>3, <3>2, <3>3, <3>4, <3>5, <3>7, LoopStep
  <2>5. CASE ~is_stronger_or_equal(l, e)
    <3>1. PICK u : u = Strengthened(Leftover(l, e.start, l.end), e)
      OBVIOUS
    <3>2. PICK v : v = Leftover(l, l.start, e.start)
      OBVIOUS
    <3>3. PICK x : x = SplitInto(list, i, u, v)
      OBVIOUS
    <3>4. PICK f : f = find_own(x.list, d, x.at)
      OBVIOUS
    <3>5. FrameLoop(<<d>> \o Tail(frame.todo), f, 0) /\ Edit(x.list, {l}, pc)
      BY <1>3, <1>4, <1>8, <1>10, <2>2, <2>5, <3>1, <3>2, <3>3, <3>4 DEF MeltBegin
    <3>6. PICK w \in Rec : /\ w = Leftover(l, e.start, l.end) /\ w.start = e.start /\ w.end = l.end
                           /\ w.mand = l.mand /\ w.waiters = {} /\ AsStrong(w, l)
      BY <1>6, <2>1, LeftoverFacts
    <3>7. /\ u \in Rec /\ u.start = e.start /\ u.end = l.end /\ u.mand = l.mand /\ u.waiters = {}
          /\ AsStrong(u, w) /\ AsStrong(u, e)
      BY <3>1, <3>6, StrengthenedFacts
    <3>8. AsStrong(u, l)
      BY <2>1, <3>6, <3>7, RecFields, AsStrongChain
    <3>9. /\ v \in Rec /\ v.start = l.start /\ v.end = e.start /\ v.mand = l.mand
          /\ v.waiters = {} /\ AsStrong(v, l)
      <4>1. l.start \in Nat /\ e.start \in Nat /\ l.start < e.start
        BY <1>6, <1>10, <2>1
      <4>2. PICK p \in Nat : p = l.start
        BY <4>1
      <4>3. PICK q \in Nat : q = e.start
        BY <4>1
      <4>4. p < q /\ v = Leftover(l, p, q)
        BY <3>2, <4>1, <4>2, <4>3
      <4>5. /\ v \in Rec /\ v.start = p /\ v.end = q /\ v.mand = l.mand
            /\ v.waiters = {} /\ AsStrong(v, l)
        BY <2>1, <4>4, LeftoverIs
      <4>6. QED
        BY <4>2, <4>3, <4>5
    <3>10. /\ Edited(list, x.list, list[i].waiters)
           /\ x.at \in DOMAIN x.list /\ x.list[x.at] = u
           /\ \E h \in DOMAIN x.list : x.list[h] = v
           /\ \A k \in DOMAIN list \ {i} : \E h \in DOMAIN x.list : x.list[h] = list[k]
      BY <1>0, <2>1, <3>3, <3>7, <3>9, SplitEdits, SMTT(30)
    <3>11. PICK s \in Seq(Rec) : s = x.list
      BY <3>10 DEF Edited
    <3>12. PICK g \in DOMAIN s : s[g] = v
      BY <3>10, <3>11
    <3>13. PICK h \in DOMAIN s : h = x.at /\ s[h] = u
      BY <3>10, <3>11
    <3>14. CoverKept(list, s, {})
      <4>1. \A a \in Nat : Covers(list[i], a) => Covers(s[h], a) \/ Covers(s[g], a)
        BY <1>6, <1>8, <2>1, <3>7, <3>9, <3>12, <3>13 DEF Covers
      <4>2. /\ s[h].mand = list[i].mand /\ s[g].mand = list[i].mand
            /\ AsStrong(s[h], list[i]) /\ AsStrong(s[g], list[i])
        BY <1>8, <3>7, <3>8, <3>9, <3>12, <3>13
      <4>3. \A k \in DOMAIN list \ {i} : \E n \in DOMAIN s : s[n] = list[k]
        BY <3>10, <3>11
      <4>4. QED
        BY <1>0, <2>1, <4>1, <4>2, <4>3, SplitCovers
    <3>15. Edited(list, s, UNION {k.waiters : k \in {l}})
      BY <1>8, <3>10, <3>11, OneFreed, Zenon
    <3>16. Len(s) \in Nat /\ DOMAIN s = 1 .. Len(s)
      OBVIOUS
    <3>17. f \in 0 .. Len(s) /\ (f # 0 => Own(s[f], d) /\ Overlapping(s[f], d))
      <4>1. h \in Nat /\ h >= 1 /\ f = find_own(s, d, h)
        BY <3>4, <3>11, <3>13, <3>16
      <4>2. QED
        BY <2>3, <4>1, FindOwnFacts, Zenon
    <3>18. 0 \in 0 .. Len(s)
      BY <3>16
    <3>19. \A a \in Nat : desc.start =< a /\ a < d.start => HasAt(s, m, a, desc)
      <4>1. TAKE a \in Nat
      <4>2. HAVE desc.start =< a /\ a < d.start
      <4>3. Covers(u, a)
        BY <1>3, <2>3, <3>7, <4>2 DEF Covers
      <4>4. QED
        BY <1>3, <2>1, <3>7, <3>13, <4>3 DEF HasAt
    <3>20. Edit(s, {l}, pc)
      BY <3>5, <3>11, Zenon
    <3>21. \A k \in {l} : \E j \in DOMAIN list : k.waiters = list[j].waiters
      BY <1>8, <2>1
    <3>22. QED
      BY <1>1, <2>3, <3>5, <3>14, <3>15, <3>17, <3>18, <3>19, <3>20, <3>21, LoopStep
  <2>6. QED
    BY <2>4, <2>5
<1>11. QED
  BY <1>9, <1>10

(* The strength of a record is that of its type and obligation. *)
LEMMA SameStrength ==
  ASSUME NEW x, NEW y, Strong(x), x.type = y.type, x.oblig = y.oblig
  PROVE  AsStrong(y, x) /\ AsStrong(x, y)
<1>1. DataType(y) = DataType(x) /\ AddrType(y) = AddrType(x)
  BY DEF DataType, AddrType
<1>2. DataType(x) \in 0 .. 2 /\ AddrType(x) \in 0 .. 2
  BY PartsInRange
<1>3. DataType(y) >= DataType(x) /\ AddrType(y) >= AddrType(x)
  BY <1>1, <1>2
<1>4. DataType(x) >= DataType(y) /\ AddrType(x) >= AddrType(y)
  BY <1>1, <1>2
<1>5. QED
  BY <1>3, <1>4, Zenon DEF AsStrong

(* Up to b, the part of request e is in list s. *)
FilledTo(s, e, b) == \A a \in Nat : e.start =< a /\ a < b => HasAt(s, e.mand, a, e)

(***************************************************************************)
(* List s is made from s0 so that the own record, at k, with sleepers w,   *)
(* is where request e goes on: below it all is in the list.                *)
(***************************************************************************)
Filled(s0, s, k, e, w) ==
  /\ Edited(s0, s, {}) /\ CoverKept(s0, s, {})
  /\ k \in DOMAIN s /\ s[k].mand = e.mand /\ s[k].end > e.start /\ s[k].start < e.end
  /\ s[k].waiters = w
  /\ s[k].start =< e.start \/ FilledTo(s, e, s[k].start)

(***************************************************************************)
(* The space in front of an own record is filled: by stretching the record *)
(* down or the one before it up, or by a new record.                       *)
(***************************************************************************)
LEMMA GapFacts ==
  ASSUME IInv, NEW m \in Mandates, pc[m] = "melt", frame.op = "melt", frame.lock # 0,
         NEW x, x = GapFilled(frame.lock, frame.prev)
  PROVE  /\ frame.lock \in DOMAIN list
         /\ Filled(list, x.list, x.at, desc, list[frame.lock].waiters)
<1>0. list \in Seq(Rec) /\ WaitersApart(list)
  BY DEF IInv, RecordsOK, WaitersOK
<1>1. frame # None /\ desc \in Desc /\ desc.mand = m /\ frame \in Frame
  BY MeltFacts, DescFacts
<1>2. PICK e \in Desc : e = desc
  BY <1>1
<1>3. Len(list) \in Nat /\ DOMAIN list = 1 .. Len(list) /\ \A k \in DOMAIN list : list[k] \in Rec
  BY <1>0, SeqFacts
<1>4. frame.lock \in Nat /\ frame.prev \in Nat
  BY <1>1, FrameFields
<1>5. PICK i \in DOMAIN list : i = frame.lock /\ Own(list[i], e) /\ Overlapping(list[i], e)
  <2>1. /\ frame.lock =< Len(list)
        /\ Own(list[frame.lock], desc) /\ Overlapping(list[frame.lock], desc)
    BY <1>1 DEF IInv, FrameOK
  <2>2. QED
    BY <1>2, <1>3, <1>4, <2>1
<1>6. PICK j : j = frame.prev
  OBVIOUS
<1>7. j # 0 =>
        j \in DOMAIN list /\ list[j].mand = m /\ AsStrong(list[j], e) /\ list[j].end = e.start
  <2>1. frame.prev =< Len(list)
    BY <1>1 DEF IInv, FrameOK
  <2>2. frame.prev # 0 => /\ Own(list[frame.prev], desc) /\ AsStrong(list[frame.prev], desc)
                          /\ list[frame.prev].end = desc.start
    BY <1>1 DEF IInv, FrameOK
  <2>3. QED
    BY <1>1, <1>2, <1>3, <1>4, <1>6, <2>1, <2>2 DEF Own
<1>8. PICK l \in Rec : l = list[i]
  BY <1>3
<1>9. /\ l.start \in Nat /\ l.end \in Nat /\ l.start < l.end /\ l.mand = m
      /\ l.end > e.start /\ l.start < e.end /\ e.start \in Nat /\ e.end \in Nat /\ e.mand = m
      /\ Strong(l) /\ Strong(e)
  BY <1>1, <1>2, <1>5, <1>8, RecFields, DescFields DEF Own, Overlapping
<1>10. CASE l.start =< e.start
  <2>1. x = [list |-> list, at |-> i]
    BY <1>2, <1>5, <1>6, <1>8, <1>10 DEF GapFilled
  <2>2. x.list = list /\ x.at = i
    BY <2>1
  <2>3. Edited(list, list, {}) /\ CoverKept(list, list, {})
    BY <1>0, EditedItself, Zenon
  <2>4. Filled(list, list, i, e, l.waiters)
    BY <1>8, <1>9, <1>10, <2>3 DEF Filled
  <2>5. QED
    BY <1>2, <1>5, <1>8, <2>2, <2>4
<1>11. CASE ~(l.start =< e.start) /\ is_weaker_or_equal(l, e)
  <2>1. PICK r : r = [l EXCEPT !.start = e.start]
    OBVIOUS
  <2>2. /\ r \in Rec /\ r.start = e.start /\ r.end = l.end /\ r.mand = l.mand /\ r.type = l.type
        /\ r.oblig = l.oblig /\ r.waiters = l.waiters
    BY <1>9, <1>11, <2>1 DEF Rec, LockRec
  <2>3. PICK s : s = [list EXCEPT ![i] = r]
    OBVIOUS
  <2>4. x = [list |-> s, at |-> i]
    BY <1>2, <1>5, <1>6, <1>8, <1>11, <2>1, <2>3 DEF GapFilled
  <2>5. x.list = s /\ x.at = i
    BY <2>4
  <2>6. Grown(list[i], r)
    BY <1>8, <1>9, <1>11, <2>2, SameStrength DEF Grown
  <2>7. Edited(list, s, {}) /\ CoverKept(list, s, {}) /\ i \in DOMAIN s /\ s[i] = r
    BY <1>0, <2>2, <2>3, <2>6, UpdateEdits
  <2>8. Filled(list, s, i, e, l.waiters)
    BY <1>9, <1>11, <2>2, <2>7 DEF Filled
  <2>9. QED
    BY <1>2, <1>5, <1>8, <2>5, <2>8
<1>12. CASE /\ ~(l.start =< e.start) /\ ~is_weaker_or_equal(l, e)
            /\ j # 0 /\ is_equally_strong(list[j], e)
  <2>1. PICK k \in Rec : k = list[j]
    BY <1>3, <1>7, <1>12
  <2>2. PICK r : r = [k EXCEPT !.end = l.start]
    OBVIOUS
  <2>3. /\ j \in DOMAIN list /\ k.mand = m /\ AsStrong(k, e) /\ k.end = e.start /\ j # i
        /\ k.start \in Nat /\ k.start < k.end /\ Strong(k)
    BY <1>7, <1>8, <1>9, <1>12, <2>1, RecFields
  <2>4. /\ r \in Rec /\ r.start = k.start /\ r.end = l.start /\ r.mand = k.mand /\ r.type = k.type
        /\ r.oblig = k.oblig /\ r.waiters = k.waiters
    BY <1>9, <1>12, <2>2, <2>3 DEF Rec, LockRec
  <2>5. PICK s : s = [list EXCEPT ![j] = r]
    OBVIOUS
  <2>6. x = [list |-> s, at |-> i]
    BY <1>2, <1>5, <1>6, <1>8, <1>12, <2>1, <2>2, <2>5 DEF GapFilled
  <2>7. x.list = s /\ x.at = i
    BY <2>6
  <2>8. AsStrong(r, k) /\ Strong(r)
    BY <2>3, <2>4, SameStrength, RecFields
  <2>9. Grown(list[j], r)
    BY <1>9, <1>12, <2>1, <2>3, <2>4, <2>8 DEF Grown
  <2>10. /\ Edited(list, s, {}) /\ CoverKept(list, s, {}) /\ DOMAIN s = DOMAIN list
         /\ s[j] = r /\ s[i] = l
    BY <1>0, <1>8, <2>3, <2>4, <2>5, <2>9, UpdateEdits
  <2>11. AsStrong(r, e)
    BY <1>9, <2>3, <2>8, AsStrongChain
  <2>12. FilledTo(s, e, l.start)
    <3>1. SUFFICES ASSUME NEW a \in Nat, e.start =< a, a < l.start
                   PROVE  HasAt(s, e.mand, a, e)
      BY Zenon DEF FilledTo
    <3>2. Covers(r, a)
      BY <1>9, <2>3, <2>4, <3>1 DEF Covers
    <3>3. QED
      BY <1>9, <2>3, <2>4, <2>10, <2>11, <3>2 DEF HasAt
  <2>13. Filled(list, s, i, e, l.waiters)
    BY <1>9, <2>10, <2>12 DEF Filled
  <2>14. QED
    BY <1>2, <1>5, <1>8, <2>7, <2>13
<1>13. CASE /\ ~(l.start =< e.start) /\ ~is_weaker_or_equal(l, e)
            /\ ~(j # 0 /\ is_equally_strong(list[j], e))
  <2>1. PICK r : r = Record(WithEnd(e, l.start))
    OBVIOUS
  <2>2. /\ r \in Rec /\ r.start = e.start /\ r.end = l.start /\ r.mand = e.mand /\ r.type = e.type
        /\ r.oblig = e.oblig /\ r.waiters = {}
    <3>1. PICK d : d = WithEnd(e, l.start)
      OBVIOUS
    <3>2. /\ d.start = e.start /\ d.end = l.start /\ d.mand = e.mand /\ d.type = e.type
          /\ d.oblig = e.oblig
      BY <3>1 DEF WithEnd, Desc
    <3>3. r = [start |-> d.start, end |-> d.end, mand |-> d.mand, type |-> d.type,
               oblig |-> d.oblig, waiters |-> {}]
      BY <2>1, <3>1, Zenon DEF Record
    <3>4. QED
      BY <1>9, <1>13, <3>2, <3>3, DescFields DEF Rec, LockRec
  <2>3. PICK s : s = InsertSorted(list, r)
    OBVIOUS
  <2>4. PICK n : n = Moved(list, r, i)
    OBVIOUS
  <2>5. x = [list |-> s, at |-> n]
    BY <1>2, <1>5, <1>6, <1>8, <1>13, <2>1, <2>3, <2>4 DEF GapFilled
  <2>6. x.list = s /\ x.at = n
    BY <2>5
  <2>7. /\ Edited(list, s, {}) /\ CoverKept(list, s, {}) /\ \E h \in DOMAIN s : s[h] = r
    BY <1>0, <2>2, <2>3, InsertEdits, Zenon
  <2>8. n \in DOMAIN s /\ s[n] = l
    BY <1>0, <1>5, <1>8, <2>2, <2>3, <2>4, MovedTracks, Zenon
  <2>9. AsStrong(r, e)
    BY <1>9, <2>2, SameStrength
  <2>10. FilledTo(s, e, l.start)
    <3>1. SUFFICES ASSUME NEW a \in Nat, e.start =< a, a < l.start
                   PROVE  HasAt(s, e.mand, a, e)
      BY Zenon DEF FilledTo
    <3>2. Covers(r, a)
      BY <2>2, <3>1 DEF Covers
    <3>3. QED
      BY <2>2, <2>7, <2>9, <3>2, Zenon DEF HasAt
  <2>11. Filled(list, s, n, e, l.waiters)
    BY <1>9, <2>7, <2>8, <2>10 DEF Filled
  <2>12. QED
    BY <1>2, <1>5, <1>8, <2>6, <2>11
<1>14. QED
  BY <1>10, <1>11, <1>12, <1>13

(* The last part of a turn: the record is strengthened. *)
LEMMA TurnEnds ==
  ASSUME IInv, NEW m \in Mandates, pc[m] = "melt", UNCHANGED <<call, held, retracts>>,
         NEW y \in Seq(Rec), NEW F, Edited(list, y, UNION {l.waiters : l \in F}),
         \A l \in F : \E i \in DOMAIN list : l.waiters = list[i].waiters,
         CoverKept(list, y, {}), NEW h \in DOMAIN y, y[h].mand = m,
         y[h].start =< desc.start \/ FilledTo(y, desc, y[h].start),
         NEW x, x.list = y, x.at = h, TurnEnd(x, F)
  PROVE  IInv'
<1>0. list \in Seq(Rec) /\ WaitersApart(y)
  BY DEF IInv, RecordsOK, Edited
<1>1. frame # None /\ desc \in Desc /\ desc.mand = m
  BY MeltFacts, DescFacts
<1>2. PICK e \in Desc : e = desc
  BY <1>1
<1>3. PICK k \in Rec : k = y[h]
  BY SeqFacts
<1>4. PICK r : r = Strengthened(k, e)
  OBVIOUS
<1>5. /\ r \in Rec /\ r.start = k.start /\ r.end = k.end /\ r.mand = k.mand
      /\ r.waiters = k.waiters /\ AsStrong(r, k) /\ AsStrong(r, e)
  BY <1>4, StrengthenedFacts
<1>6. PICK s : s = [y EXCEPT ![h] = r]
  OBVIOUS
<1>6a. PICK d : d = WithStart(desc, s[h].end)
  OBVIOUS
<1>6b. PICK f : f = IF d.start >= d.end THEN 0 ELSE find_own(s, d, h)
  OBVIOUS
<1>6c. FrameLoop(<<d>> \o Tail(frame.todo), f, h) /\ Edit(s, F, pc)
  <2>1. s = [y EXCEPT ![h] = Strengthened(@, desc)]
    BY <1>2, <1>3, <1>4, <1>6
  <2>2. QED
    BY <2>1, <1>6a, <1>6b, Zenon DEF TurnEnd
<1>7. Grown(y[h], r)
  BY <1>3, <1>5, RecFields DEF Grown
<1>8. Edited(y, s, {}) /\ CoverKept(y, s, {}) /\ DOMAIN s = DOMAIN y /\ s[h] = r
  <2>1. /\ Edited(y, s, {}) /\ CoverKept(y, s, {}) /\ DOMAIN s = DOMAIN y
        /\ \A n \in DOMAIN y : s[n] = IF n = h THEN r ELSE y[n]
    BY <1>0, <1>5, <1>6, <1>7, UpdateEdits
  <2>2. QED
    BY <2>1
<1>9. s \in Seq(Rec)
  BY <1>8 DEF Edited
<1>10. Edited(list, s, UNION {l.waiters : l \in F})
  <2>1. PICK W : W = UNION {l.waiters : l \in F}
    OBVIOUS
  <2>2. Edited(list, y, W)
    BY <2>1, Zenon
  <2>3. Edited(list, s, W \cup {})
    BY <1>0, <1>8, <2>2, EditedChain, Zenon
  <2>4. W \cup {} = W
    OBVIOUS
  <2>5. QED
    BY <2>1, <2>3, <2>4, Zenon
<1>11. CoverKept(list, s, {})
  BY <1>0, <1>8, <1>9, CoverChain, Zenon
<1>12. /\ k.start \in Nat /\ k.end \in Nat /\ e.start \in Nat /\ e.end \in Nat /\ Strong(e)
  BY RecFields, DescFields
<1>13. /\ d \in Desc /\ d.start = k.end /\ d.end = desc.end /\ d.mand = desc.mand
       /\ d.type = desc.type /\ d.oblig = desc.oblig
  <2>1. d = WithStart(e, k.end)
    BY <1>2, <1>5, <1>6a, <1>8, Zenon
  <2>2. PICK b \in Nat : b = k.end
    BY <1>12
  <2>3. d = WithStart(e, b)
    BY <2>1, <2>2
  <2>4. /\ d \in Desc /\ d.start = b /\ d.end = e.end /\ d.mand = e.mand
        /\ d.type = e.type /\ d.oblig = e.oblig
    BY <2>3 DEF WithStart, Desc
  <2>5. QED
    BY <1>2, <2>2, <2>4
<1>14. \A a \in Nat : desc.start =< a /\ a < d.start => HasAt(s, m, a, desc)
  <2>1. SUFFICES ASSUME NEW a \in Nat, e.start =< a, a < k.end
                 PROVE  HasAt(s, m, a, e)
    BY <1>2, <1>13
  <2>2. CASE k.start =< a
    <3>1. Covers(r, a)
      BY <1>5, <2>1, <2>2 DEF Covers
    <3>2. QED
      BY <1>3, <1>5, <1>8, <3>1 DEF HasAt
  <2>3. CASE ~(k.start =< a)
    <3>1. FilledTo(y, e, k.start)
      BY <1>2, <1>3, <1>12, <2>1, <2>3
    <3>2. HasAt(y, m, a, e)
      BY <1>1, <1>2, <1>12, <2>1, <2>3, <3>1 DEF FilledTo
    <3>3. QED
      BY <1>8, <1>9, <1>12, <2>1, <3>2, HasKept
  <2>4. QED
    BY <2>2, <2>3
<1>15. Len(s) \in Nat /\ DOMAIN s = 1 .. Len(s) /\ h \in DOMAIN s
  BY <1>8, <1>9
<1>17. f \in 0 .. Len(s) /\ (f # 0 => Own(s[f], d) /\ Overlapping(s[f], d))
  <2>1. CASE d.start >= d.end
    BY <1>15, <1>6b, <2>1
  <2>2. CASE ~(d.start >= d.end)
    <3>1. h \in Nat /\ h >= 1 /\ f = find_own(s, d, h)
      BY <1>15, <1>6b, <2>2
    <3>2. QED
      BY <1>9, <1>13, <3>1, FindOwnFacts, Zenon
  <2>3. QED
    BY <2>1, <2>2
<1>18. h \in 0 .. Len(s) /\ Own(s[h], d) /\ s[h].end = d.start
  BY <1>1, <1>3, <1>5, <1>8, <1>13, <1>15 DEF Own
<1>19. AsStrong(s[h], d)
  <2>1. AsStrong(e, d)
    BY <1>2, <1>12, <1>13, SameStrength
  <2>2. Strong(r) /\ Strong(d)
    BY <1>5, <1>13, RecFields, DescFields
  <2>3. AsStrong(r, d)
    BY <1>5, <1>12, <2>1, <2>2, AsStrongChain
  <2>4. QED
    BY <1>8, <2>3
<1>21. QED
  BY <1>10, <1>11, <1>13, <1>14, <1>17, <1>18, <1>19, <1>6c, LoopStep

(* A turn of the loop of melt_lock_into_list. *)
LEMMA MeltTurns ==
  ASSUME IInv, NEW m \in Mandates, MeltTurn(m)
  PROVE  IInv'
<1>0. list \in Seq(Rec) /\ WaitersApart(list)
  BY DEF IInv, RecordsOK, WaitersOK
<1>1. pc[m] = "melt" /\ frame.op = "melt" /\ frame.lock # 0 /\ UNCHANGED <<call, held, retracts>>
  BY DEF MeltTurn
<1>2. frame # None /\ desc \in Desc /\ desc.mand = m
  BY <1>1, MeltFacts, DescFacts
<1>3. PICK e \in Desc : e = desc
  BY <1>2
<1>4. PICK x : x = GapFilled(frame.lock, frame.prev)
  OBVIOUS
<1>5. PICK i \in DOMAIN list : Filled(list, x.list, x.at, desc, list[i].waiters)
  BY <1>1, <1>4, GapFacts, Zenon
<1>6. PICK z \in Seq(Rec) : z = x.list /\ WaitersApart(z)
  BY <1>5 DEF Filled, Edited
<1>7. PICK k : k = x.at
  OBVIOUS
<1>8. /\ Edited(list, z, {}) /\ CoverKept(list, z, {})
      /\ k \in DOMAIN z /\ z[k].mand = e.mand /\ z[k].end > e.start /\ z[k].start < e.end
      /\ z[k].waiters = list[i].waiters
      /\ z[k].start =< e.start \/ FilledTo(z, e, z[k].start)
  BY <1>3, <1>5, <1>6, <1>7 DEF Filled
<1>9. PICK l \in Rec : l = z[k]
  BY <1>8, SeqFacts
<1>10. /\ l.start \in Nat /\ l.end \in Nat /\ l.start < l.end /\ e.start \in Nat /\ e.end \in Nat
       /\ Strong(e) /\ Strong(l)
  BY RecFields, DescFields
<1>11. CASE ~(l.end > e.end /\ ~is_stronger_or_equal(l, e))
  <2>1. TurnEnd(x, {})
    <3>1. ~(x.list[x.at].end > desc.end /\ ~is_stronger_or_equal(x.list[x.at], desc))
      BY <1>3, <1>6, <1>7, <1>9, <1>11, Zenon
    <3>2. QED
      BY <1>4, <3>1, Zenon DEF MeltTurn
  <2>4. Edited(list, z, UNION {j.waiters : j \in {}})
    BY <1>8, NobodyFreed, Zenon
  <2>5. z[k].mand = m /\ (z[k].start =< desc.start \/ FilledTo(z, desc, z[k].start))
    BY <1>2, <1>3, <1>8
  <2>6. QED
    BY <1>1, <1>6, <1>7, <1>8, <2>1, <2>4, <2>5, TurnEnds
<1>12. CASE l.end > e.end /\ ~is_stronger_or_equal(l, e)
  <2>1. PICK u : u = Leftover(l, l.start, e.end)
    OBVIOUS
  <2>2. PICK v : v = Leftover(l, e.end, l.end)
    OBVIOUS
  <2>3. PICK w : w = SplitInto(z, k, u, v)
    OBVIOUS
  <2>6. TurnEnd(w, {l})
    <3>1. x.list[x.at].end > desc.end /\ ~is_stronger_or_equal(x.list[x.at], desc)
      BY <1>3, <1>6, <1>7, <1>9, <1>12, Zenon
    <3>2. /\ l = x.list[x.at]
          /\ w = SplitInto(x.list, x.at, Leftover(l, l.start, desc.end),
                           Leftover(l, desc.end, l.end))
      BY <1>3, <1>6, <1>7, <1>9, <2>1, <2>2, <2>3, Zenon
    <3>3. QED
      BY <1>4, <3>1, <3>2, Zenon DEF MeltTurn
  <2>7. /\ u \in Rec /\ u.start = l.start /\ u.end = e.end /\ u.mand = l.mand
        /\ u.waiters = {} /\ AsStrong(u, l)
    <3>1. l.start < e.end
      BY <1>8, <1>9
    <3>2. PICK p \in Nat : p = l.start
      BY <1>10
    <3>3. PICK q \in Nat : q = e.end
      BY <1>10
    <3>4. p < q /\ u = Leftover(l, p, q)
      BY <2>1, <3>1, <3>2, <3>3
    <3>5. /\ u \in Rec /\ u.start = p /\ u.end = q /\ u.mand = l.mand
          /\ u.waiters = {} /\ AsStrong(u, l)
      BY <3>4, LeftoverIs
    <3>6. QED
      BY <3>2, <3>3, <3>5
  <2>8. /\ v \in Rec /\ v.start = e.end /\ v.end = l.end /\ v.mand = l.mand
        /\ v.waiters = {} /\ AsStrong(v, l)
    <3>1. e.end < l.end
      BY <1>10, <1>12
    <3>2. PICK p \in Nat : p = e.end
      BY <1>10
    <3>3. PICK q \in Nat : q = l.end
      BY <1>10
    <3>4. p < q /\ v = Leftover(l, p, q)
      BY <2>2, <3>1, <3>2, <3>3
    <3>5. /\ v \in Rec /\ v.start = p /\ v.end = q /\ v.mand = l.mand
          /\ v.waiters = {} /\ AsStrong(v, l)
      BY <3>4, LeftoverIs
    <3>6. QED
      BY <3>2, <3>3, <3>5
  <2>9. /\ Edited(z, w.list, z[k].waiters)
        /\ w.at \in DOMAIN w.list /\ w.list[w.at] = u
        /\ \E g \in DOMAIN w.list : w.list[g] = v
        /\ \A j \in DOMAIN z \ {k} : \E g \in DOMAIN w.list : w.list[g] = z[j]
    BY <1>6, <1>8, <2>3, <2>7, <2>8, SplitEdits, SMTT(30)
  <2>10. PICK y \in Seq(Rec) : y = w.list
    BY <2>9 DEF Edited
  <2>11. PICK g \in DOMAIN y : y[g] = v
    BY <2>9, <2>10
  <2>12. PICK h \in DOMAIN y : h = w.at /\ y[h] = u
    BY <2>9, <2>10
  <2>13. CoverKept(z, y, {})
    <3>1. \A a \in Nat : Covers(z[k], a) => Covers(y[h], a) \/ Covers(y[g], a)
      BY <1>9, <1>10, <2>7, <2>8, <2>11, <2>12 DEF Covers
    <3>2. /\ y[h].mand = z[k].mand /\ y[g].mand = z[k].mand
          /\ AsStrong(y[h], z[k]) /\ AsStrong(y[g], z[k])
      BY <1>9, <2>7, <2>8, <2>11, <2>12
    <3>3. \A j \in DOMAIN z \ {k} : \E n \in DOMAIN y : y[n] = z[j]
      BY <2>9, <2>10
    <3>4. QED
      BY <1>8, <3>1, <3>2, <3>3, SplitCovers
  <2>14. CoverKept(list, y, {})
    BY <1>0, <1>8, <2>13, CoverChain, Zenon
  <2>15. Edited(list, y, UNION {j.waiters : j \in {l}})
    <3>1. Edited(z, y, l.waiters)
      BY <1>9, <2>9, <2>10, Zenon
    <3>2. Edited(list, y, {} \cup l.waiters)
      BY <1>0, <1>8, <3>1, EditedChain, Zenon
    <3>3. {} \cup l.waiters = UNION {j.waiters : j \in {l}}
      OBVIOUS
    <3>4. QED
      BY <3>2, <3>3, Zenon
  <2>16. \A j \in {l} : \E n \in DOMAIN list : j.waiters = list[n].waiters
    BY <1>8, <1>9
  <2>17. y[h].mand = m /\ y[h].start = l.start
    BY <1>2, <1>3, <1>8, <1>9, <2>7, <2>12
  <2>18. y[h].start =< desc.start \/ FilledTo(y, desc, y[h].start)
    <3>1. CASE l.start =< e.start
      BY <1>3, <2>17, <3>1
    <3>2. CASE FilledTo(z, e, l.start)
      <4>1. FilledTo(y, e, l.start)
        <5>1. SUFFICES ASSUME NEW a \in Nat, e.start =< a, a < l.start
                       PROVE  HasAt(y, e.mand, a, e)
          BY Zenon DEF FilledTo
        <5>2. HasAt(z, e.mand, a, e)
          BY <3>2, <5>1, Zenon DEF FilledTo
        <5>3. QED
          BY <1>10, <2>13, <5>2, HasKept, Zenon
      <4>2. QED
        BY <1>3, <2>17, <4>1
    <3>3. QED
      BY <1>8, <1>9, <3>1, <3>2
  <2>20. QED
    BY <1>1, <2>6, <2>10, <2>12, <2>14, <2>15, <2>16, <2>17, <2>18, TurnEnds
<1>13. QED
  BY <1>11, <1>12

------------------------------------------------------------------------------
(* A part that is in the list is no longer to be melted in. *)
LEMMA MeltingDone ==
  ASSUME NEW m \in Mandates, NEW c \in CallRec, NEW todo \in Seq(Desc), Len(todo) >= 1,
         NEW s \in Seq(Rec), Melting(m, c, todo, s),
         \A a \in Nat : Covers(todo[1], a) => HasAt(s, m, a, todo[1])
  PROVE  \A a \in Nat : c.opt[1] =< a /\ a < c.opt[2] =>
           \/ Backed(s, m, a, Wanted(c, a))
           \/ \E i \in DOMAIN todo : i # 1 /\ ToDo(todo[i], c, a)
<1>1. PICK e \in Desc : e = todo[1]
  OBVIOUS
<1>2. e.start \in Nat /\ e.end \in Nat
  BY DescFields
<1>3. PICK b \in Nat : b = IF e.start < e.end THEN e.end ELSE e.start
  BY <1>2
<1>4. PICK d : d = WithStart(e, b)
  OBVIOUS
<1>5. /\ d \in Desc /\ d.start = b /\ d.end = e.end /\ d.mand = e.mand /\ d.type = e.type
      /\ d.oblig = e.oblig
  BY <1>4 DEF WithStart, Desc
<1>6. \A a \in Nat : e.start =< a /\ a < d.start => HasAt(s, m, a, e)
  <2>1. TAKE a \in Nat
  <2>2. HAVE e.start =< a /\ a < d.start
  <2>3. Covers(e, a)
    BY <1>2, <1>3, <1>5, <2>2 DEF Covers
  <2>4. QED
    BY <1>1, <2>3
<1>7. PICK t : t = <<d>> \o Tail(todo)
  OBVIOUS
<1>8. Melting(m, c, t, s)
  BY <1>1, <1>5, <1>6, <1>7, MeltingCut
<1>9. /\ DOMAIN t = DOMAIN todo /\ t[1] = d /\ \A i \in DOMAIN todo : i # 1 => t[i] = todo[i]
  BY <1>5, <1>7, HeadReplaced
<1>10. \A a \in Nat : ~ToDo(d, c, a)
  BY <1>2, <1>3, <1>5 DEF ToDo, Covers
<1>11. SUFFICES ASSUME NEW a \in Nat, c.opt[1] =< a, a < c.opt[2], ~Backed(s, m, a, Wanted(c, a))
                PROVE  \E i \in DOMAIN todo : i # 1 /\ ToDo(todo[i], c, a)
  BY Zenon
<1>12. PICK i \in DOMAIN t : ToDo(t[i], c, a)
  BY <1>8, <1>11, Zenon DEF Melting
<1>13. i # 1
  BY <1>9, <1>10, <1>12
<1>14. QED
  BY <1>9, <1>12, <1>13

(* What is left of a part is put into the list. *)
LEMMA EndEdits ==
  ASSUME NEW s0 \in Seq(Rec), WaitersApart(s0), NEW e \in Desc,
         NEW s, s = IF e.start < e.end THEN InsertSorted(s0, Record(e)) ELSE s0
  PROVE  /\ Edited(s0, s, {}) /\ CoverKept(s0, s, {})
         /\ \A a \in Nat : Covers(e, a) => HasAt(s, e.mand, a, e)
<1>1. e.start \in Nat /\ e.end \in Nat /\ Strong(e)
  BY DescFields
<1>2. CASE ~(e.start < e.end)
  <2>1. s = s0
    BY <1>2
  <2>2. \A a \in Nat : ~Covers(e, a)
    BY <1>1, <1>2 DEF Covers
  <2>3. Edited(s0, s0, {}) /\ CoverKept(s0, s0, {})
    BY EditedItself, Zenon
  <2>4. QED
    BY <2>1, <2>2, <2>3, Zenon
<1>3. CASE e.start < e.end
  <2>1. PICK r : r = Record(e)
    OBVIOUS
  <2>2. /\ r \in Rec /\ r.start = e.start /\ r.end = e.end /\ r.mand = e.mand /\ r.type = e.type
        /\ r.oblig = e.oblig /\ r.waiters = {}
    BY <1>1, <1>3, <2>1, DescFields DEF Record, Rec, LockRec
  <2>3. s = InsertSorted(s0, r)
    BY <1>3, <2>1
  <2>4. Edited(s0, s, {}) /\ CoverKept(s0, s, {}) /\ \E h \in DOMAIN s : s[h] = r
    <3>1. PICK u : u = InsertSorted(s0, r)
      OBVIOUS
    <3>2. Edited(s0, u, {}) /\ CoverKept(s0, u, {}) /\ \E h \in DOMAIN u : u[h] = r
      BY <2>2, <3>1, InsertEdits
    <3>3. QED
      BY <2>3, <3>1, <3>2
  <2>5. AsStrong(r, e)
    BY <1>1, <2>2, SameStrength
  <2>6. \A a \in Nat : Covers(e, a) => Covers(r, a)
    BY <2>2 DEF Covers
  <2>7. QED
    BY <2>2, <2>4, <2>5, <2>6, Zenon DEF HasAt
<1>4. QED
  BY <1>2, <1>3

(* Records that back two strengths back both together. *)
LEMMA BothBacked ==
  ASSUME NEW s, NEW m, NEW a, NEW x \in Strength, NEW y \in Strength,
         Backed(s, m, a, x), Backed(s, m, a, y)
  PROVE  Backed(s, m, a, Both(x, y))
<1>1. PICK z : z = Both(x, y)
  OBVIOUS
<1>2. /\ DataType(z) = Larger(DataType(x), DataType(y))
      /\ AddrType(z) = Larger(AddrType(x), AddrType(y))
      /\ z.oblig => x.oblig \/ y.oblig
  BY <1>1, BothFacts
<1>3. DataType(z) = DataType(x) \/ DataType(z) = DataType(y)
  BY <1>2, Zenon DEF Larger
<1>4. AddrType(z) = AddrType(x) \/ AddrType(z) = AddrType(y)
  BY <1>2, Zenon DEF Larger
<1>5. \E i \in DOMAIN s : s[i].mand = m /\ Covers(s[i], a) /\ DataType(s[i]) >= DataType(z)
  BY <1>3, Zenon DEF Backed
<1>6. \E i \in DOMAIN s : s[i].mand = m /\ Covers(s[i], a) /\ AddrType(s[i]) >= AddrType(z)
  BY <1>4, Zenon DEF Backed
<1>7. z.oblig => \E i \in DOMAIN s : s[i].mand = m /\ Covers(s[i], a) /\ s[i].oblig
  BY <1>2, Zenon DEF Backed
<1>8. QED
  BY <1>1, <1>5, <1>6, <1>7, Zenon DEF Backed

(* Who conflicts with neither of two strengths does not with both together. *)
LEMMA BothExcluded ==
  ASSUME NEW x \in Strength, NEW y \in Strength, NEW v \in MutexTypes,
         ~is_conflict(x.type, v), ~is_conflict(y.type, v)
  PROVE  ~is_conflict(Both(x, y).type, v)
<1>1. PICK z \in Strength : z = Both(x, y)
  BY BothFacts
<1>2. DataType(z) = DataType(x) \/ DataType(z) = DataType(y)
  BY <1>1, BothFacts, Zenon DEF Larger
<1>3. AddrType(z) = AddrType(x) \/ AddrType(z) = AddrType(y)
  BY <1>1, BothFacts, Zenon DEF Larger
<1>4. Strong(x) /\ Strong(y) /\ Strong(z)
  BY DEF Strength, Strong
<1>5. x.type \in MutexTypes /\ y.type \in MutexTypes /\ z.type \in MutexTypes
  BY <1>4 DEF Strong
<1>6. ~is_conflict(v, x.type) /\ ~is_conflict(v, y.type)
  BY <1>5, ConflictSymmetric
<1>7. ~is_conflict(v, z.type)
  <2>1. \A u \in {x, y} : ~Excludes(v % 4, DataType(u)) /\ ~Excludes(v \div 4, AddrType(u))
    BY <1>4, <1>6, ConflictInPart
  <2>2. ~Excludes(v % 4, DataType(z)) /\ ~Excludes(v \div 4, AddrType(z))
    BY <1>2, <1>3, <2>1, Zenon
  <2>3. QED
    BY <1>4, <2>2, ConflictInPart
<1>8. QED
  BY <1>1, <1>5, <1>7, ConflictSymmetric

(* The next part of the request is taken up. *)
LEMMA NextPart ==
  ASSUME IInv, NEW m \in Mandates, pc[m] = "melt", NEW s, Edited(list, s, {}),
         CoverKept(list, s, {}), \A a \in Nat : Covers(desc, a) => HasAt(s, m, a, desc),
         Len(frame.todo) > 1, frame.lock = 0, Edit(s, {}, pc),
         frame' = [frame EXCEPT !.op = "begin", !.todo = Tail(@), !.prev = 0],
         UNCHANGED <<call, held, retracts>>
  PROVE  IInv'
<1>0. TypeOK /\ list \in Seq(Rec) /\ CallsOK /\ s \in Seq(Rec)
  BY DEF IInv, RecordsOK, Edited
<1>1. /\ frame # None /\ desc.mand = m /\ call[m] \in CallRec
      /\ \A q \in Mandates : pc[q] = "melt" => q = m
  BY MeltFacts
<1>2. /\ frame \in Frame /\ frame.todo \in Seq(Desc) /\ desc \in Desc /\ desc = frame.todo[1]
  BY <1>1, DescFacts
<1>3. /\ RecordsOK' /\ WaitersOK' /\ SortedOK' /\ SleepersHaveReason'
      /\ list' = s /\ broken' \in BOOLEAN /\ (~broken' => ~broken)
      /\ pc' \in [Mandates -> PcVals]
      /\ \A q \in Mandates : pc'[q] = pc[q] \/ (pc'[q] = "lock" /\ pc[q] = "sleep")
  <2>1. Edited(list, s, UNION {l.waiters : l \in {}})
    BY NobodyFreed, Zenon
  <2>2. pc \in [Mandates -> PcVals]
    BY <1>0 DEF TypeOK, PcVals
  <2>3. \A l \in {} : \E i \in DOMAIN list : l.waiters = list[i].waiters
    OBVIOUS
  <2>4. QED
    BY <2>1, <2>2, <2>3, EditStep
<1>4. PICK todo \in Seq(Desc) : todo = frame.todo
  BY <1>2
<1>5. PICK t : t = Tail(todo)
  OBVIOUS
<1>6. /\ t \in Seq(Desc) /\ Len(t) = Len(todo) - 1 /\ Len(t) \in Nat /\ Len(t) >= 1
      /\ DOMAIN t = 1 .. Len(t) /\ DOMAIN todo = 1 .. Len(todo)
      /\ \A i \in DOMAIN t : i + 1 \in DOMAIN todo /\ t[i] = todo[i + 1]
  BY <1>4, <1>5
<1>7. /\ frame' \in Frame /\ frame'.op = "begin" /\ frame'.todo = t /\ frame'.lock = 0
      /\ frame'.prev = 0 /\ frame'.grant = frame.grant
  <2>1. frame' = [frame EXCEPT !.op = "begin", !.todo = t, !.prev = 0]
    BY <1>4, <1>5
  <2>2. QED
    BY <1>2, <1>6, <2>1 DEF Frame
<1>8. frame' # None
  BY <1>7, NoFrame
<1>9. TypeOK'
  <2>1. list' \in Seq(LockRec)
    <3>1. Rec \subseteq LockRec
      BY DEF Rec
    <3>2. QED
      BY <1>0, <1>3, <3>1
  <2>2. QED
    BY <1>0, <1>3, <1>7, <2>1 DEF TypeOK, PcVals
<1>10. \A q \in Mandates : pc'[q] = "melt" => pc[q] = "melt"
  BY <1>3
<1>11. CallsOK'
  <2>1. \A q \in Mandates : pc'[q] # "idle" => pc[q] # "idle"
    BY <1>3
  <2>2. QED
    BY <1>0, <2>1 DEF CallsOK
<1>12. HeldOK'
  <2>1. CoverKept(list, list', {})
    BY <1>3, Zenon
  <2>2. QED
    BY <1>3, <2>1, HeldKept DEF IInv
<1>13. UnheldOK' /\ UnlockOK'
  BY <1>7 DEF UnheldOK, UnlockOK, Unlocking
<1>14. GrantOK' /\ ExclusionWhileSorted'
  BY <1>3, <1>7, <1>10 DEF IInv, GrantOK, ExclusionWhileSorted, HoldersExcluded
<1>15. FrameOK'
  <2>1. Len(list') \in Nat
    BY <1>0, <1>3
  <2>2. QED
    BY <1>6, <1>7, <2>1 DEF FrameOK
<1>16. MeltOK'
  <2>1. SUFFICES ASSUME NEW q \in Mandates, pc'[q] = "melt"
                 PROVE  /\ frame' # None /\ frame'.op \in {"melt", "begin"}
                        /\ frame'.grant.type = call[q].type
                        /\ call[q].opt[1] =< frame'.grant.start
                        /\ frame'.grant.end =< call[q].opt[2]
                        /\ Melting(q, call[q], t, s)
    BY <1>3, <1>7, Zenon DEF MeltOK
  <2>2. q = m /\ pc[m] = "melt"
    BY <1>1, <1>10, <2>1
  <2>3. /\ frame.grant.type = call[m].type /\ call[m].opt[1] =< frame.grant.start
        /\ frame.grant.end =< call[m].opt[2] /\ Melting(m, call[m], frame.todo, list)
    BY <2>2 DEF IInv, MeltOK
  <2>4. PICK c \in CallRec : c = call[m]
    BY <1>1
  <2>5. Melting(m, c, todo, s)
    BY <1>0, <1>4, <2>3, <2>4, MeltingKept, Zenon
  <2>6. \A a \in Nat : Covers(todo[1], a) => HasAt(s, m, a, todo[1])
    BY <1>2, <1>4
  <2>7. \A a \in Nat : c.opt[1] =< a /\ a < c.opt[2] =>
           \/ Backed(s, m, a, Wanted(c, a))
           \/ \E i \in DOMAIN todo : i # 1 /\ ToDo(todo[i], c, a)
    <3>1. Len(todo) >= 1
      BY <1>4
    <3>2. QED
      BY <1>0, <2>5, <2>6, <3>1, MeltingDone, Zenon
  <2>8. \A i \in DOMAIN todo : i # 1 => \E j \in DOMAIN t : t[j] = todo[i]
    <3>1. TAKE i \in DOMAIN todo
    <3>2. HAVE i # 1
    <3>3. i - 1 \in DOMAIN t /\ (i - 1) + 1 = i
      BY <1>6, <3>2
    <3>4. QED
      BY <1>6, <3>3
  <2>9. \A j \in DOMAIN t : t[j].mand = m /\ t[j].type = c.type
    BY <1>6, <2>5 DEF Melting
  <2>10. Melting(m, c, t, s)
    BY <2>7, <2>8, <2>9, Zenon DEF Melting
  <2>11. QED
    BY <1>7, <1>8, <2>2, <2>3, <2>4, <2>10
<1>17. QED
  BY <1>3, <1>9, <1>11, <1>12, <1>13, <1>14, <1>15, <1>16 DEF IInv

(* What the users hold after m was granted request c in the region of d. *)
HeldAfter(h, m, d, c) ==
  /\ \A q \in Mandates, a \in Addrs : q # m => h[q][a] = held[q][a]
  /\ \A a \in Addrs : h[m][a] = IF ~Covers(d, a) THEN held[m][a]
                                ELSE IF held[m][a] = None THEN Wanted(c, a)
                                     ELSE Both(held[m][a], Wanted(c, a))
  /\ h \in [Mandates -> [Addrs -> Strength \cup {None}]]

(* What the user is told it holds when $lock returns. *)
LEMMA GrantedFacts ==
  ASSUME TypeOK, NEW m \in Mandates, NEW c \in CallRec, NEW d \in Desc, d.type = c.type,
         NEW h, h = [held EXCEPT ![m] = Granted(m, d, c.obl)]
  PROVE  HeldAfter(h, m, d, c)
<1>1. PICK g : g = Granted(m, d, c.obl)
  OBVIOUS
<1>2. g = [a \in Addrs |-> IF ~Covers(d, a) THEN held[m][a]
                           ELSE IF held[m][a] = None THEN Wanted(c, a)
                                ELSE Both(held[m][a], Wanted(c, a))]
  BY <1>1, Zenon DEF Granted, Wanted, Covers
<1>3. held \in [Mandates -> [Addrs -> Strength \cup {None}]]
  BY DEF TypeOK
<1>4. \A a \in Addrs : g[a] = IF ~Covers(d, a) THEN held[m][a]
                              ELSE IF held[m][a] = None THEN Wanted(c, a)
                                   ELSE Both(held[m][a], Wanted(c, a))
  BY <1>2
<1>5. g \in [Addrs -> Strength \cup {None}]
  <2>1. \A a \in Addrs : g[a] \in Strength \cup {None}
    <3>1. TAKE a \in Addrs
    <3>2. held[m][a] \in Strength \cup {None}
      BY <1>3
    <3>3. Wanted(c, a) \in Strength
      BY WantedStrong
    <3>4. held[m][a] # None => Both(held[m][a], Wanted(c, a)) \in Strength
      BY <3>2, <3>3, BothFacts
    <3>5. QED
      BY <1>4, <3>2, <3>3, <3>4
  <2>2. QED
    BY <1>2, <2>1
<1>6. h = [held EXCEPT ![m] = g]
  BY <1>1
<1>7. QED
  BY <1>3, <1>4, <1>5, <1>6 DEF HeldAfter

(* All parts are in the list: $lock returns. *)
LEMMA LockDone ==
  ASSUME IInv, NEW m \in Mandates, pc[m] = "melt", NEW s, Edited(list, s, {}),
         CoverKept(list, s, {}), \A a \in Nat : Covers(desc, a) => HasAt(s, m, a, desc),
         ~(Len(frame.todo) > 1), Edit(s, {}, [pc EXCEPT ![m] = "idle"]), frame' = None,
         call' = [call EXCEPT ![m] = None],
         held' = [held EXCEPT ![m] = Granted(m, frame.grant, call[m].obl)],
         UNCHANGED retracts
  PROVE  IInv'
<1>0. TypeOK /\ list \in Seq(Rec) /\ CallsOK /\ s \in Seq(Rec)
  BY DEF IInv, RecordsOK, Edited
<1>1. /\ frame # None /\ desc.mand = m /\ call[m] \in CallRec
      /\ \A q \in Mandates : pc[q] = "melt" => q = m
  BY MeltFacts
<1>2. /\ frame \in Frame /\ frame.todo \in Seq(Desc) /\ desc = frame.todo[1]
      /\ Len(frame.todo) >= 1 /\ frame.grant \in Desc
  BY <1>1, DescFacts, FrameFields
<1>3. PICK pcs : pcs = [pc EXCEPT ![m] = "idle"]
  OBVIOUS
<1>4. pcs \in [Mandates -> PcVals] /\ \A q \in Mandates : pcs[q] = IF q = m THEN "idle" ELSE pc[q]
  BY <1>0, <1>3 DEF TypeOK, PcVals
<1>5. call' \in [Mandates -> CallRec \cup {None}]
      /\ \A q \in Mandates : call'[q] = IF q = m THEN None ELSE call[q]
  BY <1>0 DEF TypeOK, CallRec
<1>6. /\ RecordsOK' /\ WaitersOK' /\ SortedOK' /\ SleepersHaveReason'
      /\ list' = s /\ broken' \in BOOLEAN /\ (~broken' => ~broken)
      /\ pc' \in [Mandates -> PcVals]
      /\ \A q \in Mandates : pc'[q] = pcs[q] \/ (pc'[q] = "lock" /\ pcs[q] = "sleep")
  <2>1. Edited(list, s, UNION {l.waiters : l \in {}})
    BY NobodyFreed, Zenon
  <2>2. \A q \in Mandates : pc[q] = "sleep" <=> pcs[q] = "sleep"
    BY <1>4
  <2>3. \A q \in Mandates : pc[q] = "sleep" => call'[q] = call[q]
    BY <1>5
  <2>4. Edit(s, {}, pcs)
    BY <1>3
  <2>5. \A l \in {} : \E i \in DOMAIN list : l.waiters = list[i].waiters
    OBVIOUS
  <2>6. QED
    BY <1>4, <2>1, <2>2, <2>3, <2>4, <2>5, EditStep
<1>7. PICK c \in CallRec : c = call[m]
  BY <1>1
<1>8. PICK g \in Desc : g = frame.grant
  BY <1>2
<1>9. g.type = c.type /\ c.opt[1] =< g.start /\ g.end =< c.opt[2] /\ Melting(m, c, frame.todo, list)
  BY <1>7, <1>8 DEF IInv, MeltOK
<1>10. /\ \A q \in Mandates, a \in Addrs : q # m => held'[q][a] = held[q][a]
       /\ \A a \in Addrs :
            held'[m][a] = IF ~Covers(g, a) THEN held[m][a]
                          ELSE IF held[m][a] = None THEN Wanted(c, a)
                               ELSE Both(held[m][a], Wanted(c, a))
       /\ held' \in [Mandates -> [Addrs -> Strength \cup {None}]]
  <2>1. held' = [held EXCEPT ![m] = Granted(m, g, c.obl)]
    BY <1>7, <1>8
  <2>2. PICK h : h = held'
    OBVIOUS
  <2>3. TypeOK /\ g.type = c.type /\ h = [held EXCEPT ![m] = Granted(m, g, c.obl)]
    BY <1>0, <1>9, <2>1, <2>2
  <2>4. HeldAfter(h, m, g, c)
    BY <2>3, GrantedFacts, Zenon
  <2>5. QED
    BY <2>2, <2>4, Zenon DEF HeldAfter
<1>11. \A a \in Nat : c.opt[1] =< a /\ a < c.opt[2] => Backed(s, m, a, Wanted(c, a))
  <2>1. PICK todo \in Seq(Desc) : todo = frame.todo
    BY <1>2
  <2>2. Melting(m, c, todo, s)
    BY <1>0, <1>9, <2>1, MeltingKept, Zenon
  <2>3. Len(todo) >= 1 /\ \A i \in DOMAIN todo : i = 1
    BY <1>2, <2>1
  <2>4. \A a \in Nat : Covers(todo[1], a) => HasAt(s, m, a, todo[1])
    BY <1>2, <2>1
  <2>5. \A a \in Nat : c.opt[1] =< a /\ a < c.opt[2] =>
           \/ Backed(s, m, a, Wanted(c, a))
           \/ \E i \in DOMAIN todo : i # 1 /\ ToDo(todo[i], c, a)
    BY <1>0, <2>2, <2>3, <2>4, MeltingDone, Zenon
  <2>6. QED
    BY <2>3, <2>5, Zenon
<1>12. TypeOK'
  <2>1. list' \in Seq(LockRec)
    <3>1. Rec \subseteq LockRec
      BY DEF Rec
    <3>2. QED
      BY <1>0, <1>6, <3>1
  <2>2. QED
    BY <1>0, <1>5, <1>6, <1>10, <2>1 DEF TypeOK, PcVals, CallRec
<1>13. \A q \in Mandates : pc'[q] # "melt"
  BY <1>1, <1>4, <1>6
<1>14. CallsOK'
  <2>1. \A q \in Mandates : pc'[q] # "idle" => pc[q] # "idle" /\ q # m
    BY <1>4, <1>6
  <2>2. QED
    BY <1>0, <1>5, <2>1 DEF CallsOK
<1>15. MeltOK' /\ GrantOK' /\ UnheldOK' /\ UnlockOK' /\ FrameOK'
  BY <1>13 DEF MeltOK, GrantOK, UnheldOK, UnlockOK, Unlocking, FrameOK
<1>16. \A q \in Mandates, a \in Addrs : held[q][a] # None => Backed(s, q, a, held[q][a])
  <2>1. SUFFICES ASSUME NEW q \in Mandates, NEW a \in Addrs, held[q][a] # None
                 PROVE  Backed(s, q, a, held[q][a])
    BY Zenon
  <2>2. PICK x : x = held[q][a]
    OBVIOUS
  <2>3. Backed(list, q, a, x) /\ Strong(x) /\ a \in Nat
    BY <1>0, <2>1, <2>2, HeldStrong, AddrsNat DEF IInv, HeldOK
  <2>4. PICK E : E = {} /\ CoverKept(list, s, E)
    BY Zenon
  <2>5. <<q, a>> \notin E
    BY <2>4
  <2>6. Backed(s, q, a, x)
    BY <1>0, <2>3, <2>4, <2>5, BackedKept, Zenon
  <2>7. QED
    BY <2>2, <2>6, Zenon
<1>17. \A a \in Addrs : Covers(g, a) => Backed(s, m, a, Wanted(c, a))
  <2>1. TAKE a \in Addrs
  <2>2. HAVE Covers(g, a)
  <2>3. c.opt[1] =< a /\ a < c.opt[2] /\ a \in Nat
    BY <1>9, <2>2, AddrsNat, CallFields, DescFields DEF Covers
  <2>4. QED
    BY <1>11, <2>3
<1>18. HeldOK'
  <2>1. SUFFICES ASSUME NEW q \in Mandates, NEW a \in Addrs, held'[q][a] # None
                 PROVE  Backed(s, q, a, held'[q][a])
    BY <1>6, Zenon DEF HeldOK
  <2>2. CASE q # m \/ ~Covers(g, a)
    <3>1. held'[q][a] = held[q][a]
      BY <1>10, <2>2
    <3>2. QED
      BY <1>16, <2>1, <3>1, Zenon
  <2>3. CASE q = m /\ Covers(g, a) /\ held[m][a] = None
    BY <1>10, <1>17, <2>3
  <2>4. CASE q = m /\ Covers(g, a) /\ held[m][a] # None
    <3>1. PICK x \in Strength : x = held[m][a]
      BY <1>0, <2>4, HeldStrong
    <3>2. PICK y \in Strength : y = Wanted(c, a)
      BY WantedStrong
    <3>3. Backed(s, m, a, x) /\ Backed(s, m, a, y)
      BY <1>16, <1>17, <2>4, <3>1, <3>2
    <3>4. Backed(s, m, a, Both(x, y))
      BY <3>3, BothBacked, Zenon
    <3>5. held'[q][a] = Both(x, y)
      BY <1>10, <2>4, <3>1, <3>2
    <3>6. QED
      BY <2>4, <3>4, <3>5, Zenon
  <2>5. QED
    BY <2>2, <2>3, <2>4
<1>19. ASSUME ~broken, NEW k \in Mandates, NEW a \in Addrs, k # m, held'[m][a] # None,
              held[k][a] # None
       PROVE  ~is_conflict(held'[m][a].type, held[k][a].type)
  <2>1. PICK v \in MutexTypes : v = held[k][a].type
    BY <1>0, <1>19, HeldStrong
  <2>2. held[m][a] # None => ~is_conflict(held[m][a].type, v)
    BY <1>19, <2>1 DEF IInv, ExclusionWhileSorted, HoldersExcluded
  <2>3. Covers(g, a) => ~is_conflict(c.type, v)
    BY <1>7, <1>8, <1>19, <2>1 DEF IInv, GrantOK
  <2>4. PICK y \in Strength : y = Wanted(c, a) /\ y.type = c.type
    BY WantedStrong DEF Wanted
  <2>5. CASE ~Covers(g, a)
    BY <1>10, <1>19, <2>1, <2>2, <2>5
  <2>6. CASE Covers(g, a) /\ held[m][a] = None
    BY <1>10, <2>1, <2>3, <2>4, <2>6
  <2>7. CASE Covers(g, a) /\ held[m][a] # None
    <3>1. PICK x \in Strength : x = held[m][a]
      BY <1>0, <2>7, HeldStrong
    <3>2. ~is_conflict(x.type, v) /\ ~is_conflict(y.type, v)
      BY <2>2, <2>3, <2>4, <2>7, <3>1
    <3>3. ~is_conflict(Both(x, y).type, v)
      BY <3>2, BothExcluded, Zenon
    <3>4. held'[m][a] = Both(x, y)
      BY <1>10, <2>4, <2>7, <3>1
    <3>5. QED
      BY <2>1, <3>3, <3>4, Zenon
  <2>8. QED
    BY <2>5, <2>6, <2>7
<1>20. ExclusionWhileSorted'
  <2>1. SUFFICES ASSUME ~broken, NEW p \in Mandates, NEW k \in Mandates, NEW a \in Addrs, p # k,
                        held'[p][a] # None, held'[k][a] # None
                 PROVE  ~is_conflict(held'[p][a].type, held'[k][a].type)
    BY <1>6, Zenon DEF ExclusionWhileSorted, HoldersExcluded
  <2>2. PICK u \in MutexTypes : u = held'[p][a].type
    BY <1>10, <2>1 DEF Strength
  <2>3. PICK v \in MutexTypes : v = held'[k][a].type
    BY <1>10, <2>1 DEF Strength
  <2>4. CASE p = m
    <3>1. k # m /\ held'[k][a] = held[k][a]
      BY <1>10, <2>1, <2>4
    <3>2. QED
      BY <1>19, <2>1, <2>4, <3>1
  <2>5. CASE k = m
    <3>1. p # m /\ held'[p][a] = held[p][a]
      BY <1>10, <2>1, <2>5
    <3>2. ~is_conflict(v, u)
      BY <1>19, <2>1, <2>2, <2>3, <2>5, <3>1
    <3>3. QED
      BY <2>2, <2>3, <3>2, ConflictSymmetric
  <2>6. CASE p # m /\ k # m
    <3>1. held'[k][a] = held[k][a] /\ held'[p][a] = held[p][a]
      BY <1>10, <2>6
    <3>2. QED
      BY <2>1, <3>1 DEF IInv, ExclusionWhileSorted, HoldersExcluded
  <2>7. QED
    BY <2>4, <2>5, <2>6
<1>21. QED
  BY <1>6, <1>12, <1>14, <1>15, <1>18, <1>20 DEF IInv

(***************************************************************************)
(* melt_lock_into_list is done with a part: the space behind the last own  *)
(* record is filled and the next part, if any, is taken up.                *)
(***************************************************************************)
LEMMA MeltEnds ==
  ASSUME IInv, NEW m \in Mandates, MeltEnd(m)
  PROVE  IInv'
<1>0. list \in Seq(Rec) /\ WaitersApart(list)
  BY DEF IInv, RecordsOK, WaitersOK
<1>1. pc[m] = "melt" /\ frame.lock = 0 /\ UNCHANGED retracts
  BY DEF MeltEnd
<1>2. desc \in Desc /\ desc.mand = m
  BY <1>1, MeltFacts, DescFacts
<1>3. PICK s : s = IF desc.start < desc.end THEN InsertSorted(list, Record(desc)) ELSE list
  OBVIOUS
<1>4. /\ Edited(list, s, {}) /\ CoverKept(list, s, {})
      /\ \A a \in Nat : Covers(desc, a) => HasAt(s, m, a, desc)
  <2>1. PICK e \in Desc : e = desc
    BY <1>2
  <2>2. s = IF e.start < e.end THEN InsertSorted(list, Record(e)) ELSE list
    BY <1>3, <2>1
  <2>3. /\ Edited(list, s, {}) /\ CoverKept(list, s, {})
        /\ \A a \in Nat : Covers(e, a) => HasAt(s, e.mand, a, e)
    BY <1>0, <2>2, EndEdits, Zenon
  <2>4. QED
    BY <1>2, <2>1, <2>3
<1>5. CASE Len(frame.todo) > 1
  <2>1. /\ frame' = [frame EXCEPT !.op = "begin", !.todo = Tail(@), !.prev = 0]
        /\ Edit(s, {}, pc) /\ UNCHANGED <<call, held>>
    BY <1>3, <1>5 DEF MeltEnd
  <2>2. QED
    BY <1>1, <1>4, <1>5, <2>1, NextPart
<1>6. CASE ~(Len(frame.todo) > 1)
  <2>1. /\ frame' = None /\ Edit(s, {}, [pc EXCEPT ![m] = "idle"])
        /\ call' = [call EXCEPT ![m] = None]
        /\ held' = [held EXCEPT ![m] = Granted(m, frame.grant, call[m].obl)]
    BY <1>3, <1>6 DEF MeltEnd
  <2>2. QED
    BY <1>1, <1>4, <1>6, <2>1, LockDone
<1>7. QED
  BY <1>5, <1>6

------------------------------------------------------------------------------
(***************************************************************************)
(* A turn of $unlock.  In list x.list, the record l is at x.i, and the     *)
(* walk goes on at x.j, behind it.                                         *)
(***************************************************************************)
Walk(x, l) == /\ x.list \in Seq(Rec) /\ x.i \in DOMAIN x.list /\ x.list[x.i] = l
              /\ x.j \in Nat /\ x.i < x.j /\ x.j =< Len(x.list) + 1

(* In front of x.j only l is left to unlock. *)
Passed(x, d) == \A k \in DOMAIN x.list : k < x.j /\ k # x.i => ~ToUnlock(x.list[k], d)

(* The walk is at the end of the list. *)
AtEnd(x) == x.j = Len(x.list) + 1

(* Record r is in the list. *)
Has(x, r) == \E h \in DOMAIN x.list : x.list[h] = r

(* Adding r to x gives y, and the walk is where it was. *)
Follows(x, y, l, d, r) == /\ Walk(y, l) /\ y.list = InsertSorted(x.list, r)
                          /\ Passed(x, d) => Passed(y, d)
                          /\ AtEnd(x) => AtEnd(y)

(* Putting a leftover back moves the record at work by at most one place. *)
LEMMA AddingTracks ==
  ASSUME NEW x, NEW l, NEW d, Walk(x, l), NEW r \in Rec, ~ToUnlock(r, d), NEW y, y = Adding(x, r)
  PROVE  Follows(x, y, l, d, r)
<1>1. PICK s \in Seq(Rec) : s = x.list
  BY DEF Walk
<1>2. PICK n \in Nat : n = Len(s) /\ DOMAIN s = 1 .. n
  OBVIOUS
<1>3. PICK i \in 1 .. n : i = x.i
  BY <1>1, <1>2 DEF Walk
<1>4. PICK j \in Nat : j = x.j
  BY DEF Walk
<1>5. s[i] = l /\ i < j /\ j =< n + 1
  BY <1>1, <1>2, <1>3, <1>4 DEF Walk
<1>6. PICK t : t = InsertSorted(s, r)
  OBVIOUS
<1>7. PICK p \in 1 .. (n + 1) : p = PlaceOf(s, r)
  BY <1>2, PlaceInList, Zenon
<1>8. /\ t \in Seq(Rec) /\ Len(t) = n + 1
      /\ \A k \in 1 .. (n + 1) : t[k] = IF k < p THEN s[k] ELSE IF k = p THEN r ELSE s[k - 1]
  <2>1. /\ t \in Seq(Rec) /\ Len(t) = Len(s) + 1
        /\ \A k \in 1 .. (Len(s) + 1) : t[k] = IF k < p THEN s[k] ELSE IF k = p THEN r ELSE s[k - 1]
    BY <1>6, <1>7, InsertSortedFacts, ZenonT(30)
  <2>2. QED
    BY <1>2, <2>1
<1>9. DOMAIN t = 1 .. (n + 1)
  BY <1>2, <1>8
<1>10. PICK i2 : i2 = IF p =< i THEN i + 1 ELSE i
  OBVIOUS
<1>11. PICK j2 : j2 = IF p =< j THEN j + 1 ELSE j
  OBVIOUS
<1>12. y.list = t /\ y.i = i2 /\ y.j = j2
  <2>1. y = [list |-> t, i |-> i2, j |-> j2]
    BY <1>1, <1>3, <1>4, <1>6, <1>7, <1>10, <1>11, Zenon DEF Adding, Moved
  <2>2. QED
    BY <2>1
<1>13. i2 \in 1 .. (n + 1) /\ t[i2] = l
  <2>1. CASE p =< i
    <3>1. i2 = i + 1 /\ i2 \in 1 .. (n + 1) /\ ~(i2 < p) /\ i2 # p /\ i2 - 1 = i
      BY <2>1, <1>10
    <3>2. QED
      BY <3>1, <1>5, <1>8
  <2>2. CASE ~(p =< i)
    <3>1. i2 = i /\ i2 \in 1 .. (n + 1) /\ i2 < p
      BY <2>2, <1>10
    <3>2. QED
      BY <3>1, <1>5, <1>8
  <2>3. QED
    BY <2>1, <2>2
<1>14. j2 \in Nat /\ i2 < j2 /\ j2 =< (n + 1) + 1
  BY <1>5, <1>10, <1>11
<1>15. Walk(y, l)
  BY <1>8, <1>9, <1>12, <1>13, <1>14 DEF Walk
<1>16. ASSUME Passed(x, d)
       PROVE  Passed(y, d)
  <2>1. SUFFICES ASSUME NEW k \in 1 .. (n + 1), k < j2, k # i2
                 PROVE  ~ToUnlock(t[k], d)
    BY <1>9, <1>12, Zenon DEF Passed
  <2>2. \A h \in 1 .. n : h < j /\ h # i => ~ToUnlock(s[h], d)
    BY <1>1, <1>2, <1>3, <1>4, <1>16, Zenon DEF Passed
  <2>3. CASE k < p
    <3>1. k \in 1 .. n /\ k < j /\ k # i
      BY <1>10, <1>11, <2>1, <2>3
    <3>2. t[k] = s[k]
      BY <1>8, <2>3
    <3>3. QED
      BY <2>2, <3>1, <3>2
  <2>4. CASE k = p
    <3>1. t[k] = r
      BY <1>8, <2>4
    <3>2. QED
      BY <3>1
  <2>5. CASE k > p
    <3>1. k - 1 \in 1 .. n /\ k - 1 < j /\ k - 1 # i
      BY <1>10, <1>11, <2>1, <2>5
    <3>2. t[k] = s[k - 1]
      BY <1>8, <2>5
    <3>3. QED
      BY <2>2, <3>1, <3>2
  <2>6. QED
    BY <2>3, <2>4, <2>5
<1>17. ASSUME AtEnd(x)
       PROVE  AtEnd(y)
  <2>1. j = n + 1
    BY <1>1, <1>2, <1>4, <1>17 DEF AtEnd
  <2>2. j2 = (n + 1) + 1
    BY <1>11, <2>1
  <2>3. QED
    BY <1>8, <1>12, <2>2, Zenon DEF AtEnd
<1>18. QED
  BY <1>1, <1>6, <1>12, <1>15, <1>16, <1>17, Zenon DEF Follows

(* The list x.list is made from s by adding records that nobody sleeps on. *)
Added(s, x, l, d, b) ==
  /\ Walk(x, l) /\ Edited(s, x.list, {}) /\ CoverKept(s, x.list, {})
  /\ "sorted" \in b => Passed(x, d)
  /\ "last" \in b => AtEnd(x)

(* One leftover is put back. *)
LEMMA AddedOne ==
  ASSUME NEW s \in Seq(Rec), NEW x, NEW l, NEW d, NEW b, Added(s, x, l, d, b),
         NEW r \in Rec, r.waiters = {}, ~ToUnlock(r, d), NEW y, y = Adding(x, r)
  PROVE  /\ Added(s, y, l, d, b) /\ Has(y, r) /\ \A q : Has(x, q) => Has(y, q)
<1>1. Walk(x, l) /\ Edited(s, x.list, {}) /\ CoverKept(s, x.list, {})
  BY DEF Added
<1>2. /\ Walk(y, l) /\ y.list = InsertSorted(x.list, r)
      /\ Passed(x, d) => Passed(y, d)
      /\ AtEnd(x) => AtEnd(y)
  <2>1. Follows(x, y, l, d, r)
    BY <1>1, AddingTracks
  <2>2. QED
    BY <2>1, Zenon DEF Follows
<1>3. PICK t \in Seq(Rec) : t = x.list /\ WaitersApart(t)
  BY <1>1 DEF Edited
<1>4. PICK u : u = InsertSorted(t, r)
  OBVIOUS
<1>5. /\ Edited(t, u, {}) /\ CoverKept(t, u, {}) /\ \E h \in DOMAIN u : u[h] = r
  BY <1>3, <1>4, InsertEdits
<1>6. y.list = u /\ u \in Seq(Rec)
  BY <1>2, <1>3, <1>4, <1>5 DEF Edited
<1>7. Edited(s, u, {})
  <2>1. Edited(s, t, {})
    BY <1>1, <1>3
  <2>2. Edited(s, u, {} \cup {})
    BY <1>5, <2>1, EditedChain, Zenon
  <2>3. {} \cup {} = {}
    OBVIOUS
  <2>4. QED
    BY <2>2, <2>3, Zenon
<1>8. CoverKept(s, u, {})
  <2>1. CoverKept(s, t, {})
    BY <1>1, <1>3
  <2>2. QED
    BY <1>5, <1>6, <2>1, CoverChain, Zenon
<1>9. AllKept(t, u)
  BY <1>4, InsertKeepsRecords, Zenon
<1>10. \A q : Has(x, q) => Has(y, q)
  BY <1>3, <1>6, <1>9, Zenon DEF Has, AllKept
<1>11. Has(y, r)
  BY <1>5, <1>6, Zenon DEF Has
<1>12. Added(s, y, l, d, b)
  BY <1>2, <1>6, <1>7, <1>8, Zenon DEF Added
<1>13. QED
  BY <1>10, <1>11, <1>12

(* The leftovers below and above are in the list, if there are any. *)
LeftoversIn(x, l, d) ==
  /\ l.start < d.start => Has(x, Leftover(l, l.start, d.start))
  /\ l.end > d.end => Has(x, Leftover(l, d.end, l.end))

(* A leftover lies outside of what is unlocked. *)
LEMMA LeftoverOutside ==
  ASSUME NEW l \in Rec, NEW d \in Desc, NEW a \in Nat, NEW b \in Nat, a < b,
         b =< d.start \/ a >= d.end
  PROVE  /\ Leftover(l, a, b) \in Rec /\ Leftover(l, a, b).waiters = {}
         /\ ~ToUnlock(Leftover(l, a, b), d)
<1>1. PICK r : r = Leftover(l, a, b)
  OBVIOUS
<1>2. r \in Rec /\ r.start = a /\ r.end = b /\ r.waiters = {}
  BY <1>1, LeftoverIs
<1>3. d.start \in Nat /\ d.end \in Nat
  BY DescFields
<1>4. ~ToUnlock(r, d)
  BY <1>2, <1>3 DEF ToUnlock, Overlapping
<1>5. QED
  BY <1>1, <1>2, <1>4

(* Both leftovers of the record at work are put back. *)
LEMMA AddedLeftovers ==
  ASSUME NEW s \in Seq(Rec), NEW x0, NEW l \in Rec, NEW b, desc \in Desc,
         Added(s, x0, l, desc, b), ToUnlock(l, desc),
         NEW x, x = AddingAbove(AddingBelow(x0, l), l)
  PROVE  Added(s, x, l, desc, b) /\ LeftoversIn(x, l, desc)
<1>1. PICK d \in Desc : d = desc
  OBVIOUS
<1>2. /\ l.start \in Nat /\ l.end \in Nat /\ l.start < l.end /\ d.start \in Nat /\ d.end \in Nat
      /\ l.end > d.start /\ l.start < d.end
  BY <1>1, RecFields, DescFields DEF ToUnlock, Overlapping
<1>3. PICK u : u = Leftover(l, l.start, d.start)
  OBVIOUS
<1>4. PICK v : v = Leftover(l, d.end, l.end)
  OBVIOUS
<1>5. PICK x1 : x1 = AddingBelow(x0, l)
  OBVIOUS
<1>6. Added(s, x1, l, d, b) /\ (l.start < d.start => Has(x1, u))
  <2>1. CASE l.start < d.start
    <3>1. x1 = Adding(x0, u)
      BY <1>1, <1>3, <1>5, <2>1, Zenon DEF AddingBelow
    <3>2. u \in Rec /\ u.waiters = {} /\ ~ToUnlock(u, d)
      BY <1>2, <1>3, <2>1, LeftoverOutside
    <3>3. Added(s, x0, l, d, b)
      BY <1>1
    <3>4. QED
      BY <3>1, <3>2, <3>3, AddedOne, Zenon
  <2>2. CASE ~(l.start < d.start)
    <3>1. x1 = x0
      BY <1>1, <1>5, <2>2, Zenon DEF AddingBelow
    <3>2. QED
      BY <1>1, <2>2, <3>1
  <2>3. QED
    BY <2>1, <2>2
<1>7. Added(s, x, l, d, b) /\ (l.end > d.end => Has(x, v)) /\ \A q : Has(x1, q) => Has(x, q)
  <2>1. CASE l.end > d.end
    <3>1. x = Adding(x1, v)
      BY <1>1, <1>4, <1>5, <2>1, Zenon DEF AddingAbove
    <3>2. v \in Rec /\ v.waiters = {} /\ ~ToUnlock(v, d)
      BY <1>2, <1>4, <2>1, LeftoverOutside
    <3>3. QED
      BY <1>6, <3>1, <3>2, AddedOne, Zenon
  <2>2. CASE ~(l.end > d.end)
    <3>1. x = x1
      BY <1>1, <1>5, <2>2, Zenon DEF AddingAbove
    <3>2. QED
      BY <1>6, <2>2, <3>1
  <2>3. QED
    BY <2>1, <2>2
<1>8. QED
  BY <1>1, <1>3, <1>4, <1>6, <1>7, Zenon DEF LeftoversIn

(* What the walk has left to unlock once l is taken out. *)
LEMMA TakenOut ==
  ASSUME NEW x, NEW l, NEW d, Walk(x, l), NEW s, s = RemoveAt(x.list, x.i)
  PROVE  /\ s \in Seq(Rec) /\ x.j - 1 \in Nat /\ x.j - 1 >= 1
         /\ AtEnd(x) => \A k \in DOMAIN s : k < x.j - 1
         /\ Passed(x, d) => \A k \in DOMAIN s : k < x.j - 1 => ~ToUnlock(s[k], d)
<1>1. PICK t \in Seq(Rec) : t = x.list
  BY DEF Walk
<1>2. PICK n \in Nat : n = Len(t) /\ DOMAIN t = 1 .. n
  OBVIOUS
<1>3. PICK i \in 1 .. Len(t) : i = x.i
  BY <1>1 DEF Walk
<1>4. PICK j \in Nat : j = x.j /\ i < j
  BY <1>3 DEF Walk
<1>5. /\ s \in Seq(Rec) /\ Len(s) = Len(t) - 1
      /\ \A k \in 1 .. (Len(t) - 1) : s[k] = IF k < i THEN t[k] ELSE t[k + 1]
  BY <1>1, <1>3, RemoveAtFacts
<1>6. DOMAIN s = 1 .. (n - 1)
  BY <1>2, <1>5
<1>7. AtEnd(x) => \A k \in DOMAIN s : k < j - 1
  <2>1. HAVE AtEnd(x)
  <2>2. j = n + 1
    BY <1>1, <1>2, <1>4, <2>1 DEF AtEnd
  <2>3. QED
    BY <1>6, <2>2
<1>8. Passed(x, d) => \A k \in DOMAIN s : k < j - 1 => ~ToUnlock(s[k], d)
  <2>1. HAVE Passed(x, d)
  <2>2. \A k \in DOMAIN t : k < j /\ k # i => ~ToUnlock(t[k], d)
    BY <1>1, <1>3, <1>4, <2>1, Zenon DEF Passed
  <2>3. TAKE k \in DOMAIN s
  <2>4. HAVE k < j - 1
  <2>5. CASE k < i
    <3>1. s[k] = t[k] /\ k \in DOMAIN t /\ k < j /\ k # i
      BY <1>2, <1>4, <1>5, <1>6, <2>5
    <3>2. QED
      BY <2>2, <3>1
  <2>6. CASE ~(k < i)
    <3>1. s[k] = t[k + 1] /\ k + 1 \in DOMAIN t /\ k + 1 < j /\ k + 1 # i
      BY <1>2, <1>4, <1>5, <1>6, <2>4, <2>6
    <3>2. QED
      BY <2>2, <3>1
  <2>7. QED
    BY <2>5, <2>6
<1>9. j - 1 \in Nat /\ j - 1 >= 1
  BY <1>3, <1>4
<1>10. QED
  BY <1>4, <1>5, <1>7, <1>8, <1>9

(* Outside of desc, what the record covered is still covered. *)
LEMMA TakenOutCovers ==
  ASSUME NEW x, NEW l \in Rec, NEW d \in Desc, Walk(x, l), WaitersApart(x.list), ToUnlock(l, d),
         LeftoversIn(x, l, d), NEW s, s = RemoveAt(x.list, x.i),
         NEW E, E = {p \in Mandates \X Nat : p[1] = d.mand /\ Covers(d, p[2])}
  PROVE  CoverKept(x.list, s, E) /\ Edited(x.list, s, l.waiters)
<1>1. PICK t \in Seq(Rec) : t = x.list
  BY DEF Walk
<1>2. PICK i \in DOMAIN t : i = x.i /\ t[i] = l
  BY <1>1 DEF Walk
<1>3. /\ Edited(t, s, t[i].waiters)
      /\ \A k \in DOMAIN t \ {i} : \E h \in DOMAIN s : s[h] = t[k]
  <2>1. WaitersApart(t) /\ s = RemoveAt(t, i)
    BY <1>1, <1>2
  <2>2. QED
    BY <2>1, RemoveEdits
<1>4. \A k \in DOMAIN t : AsStrong(t[k], t[k])
  BY SeqFacts, RecFields, AsStrongItself
<1>5. /\ l.start \in Nat /\ l.end \in Nat /\ l.start < l.end /\ d.start \in Nat /\ d.end \in Nat
      /\ l.end > d.start /\ l.start < d.end /\ l.mand = d.mand /\ d.mand \in Mandates
  BY RecFields, DescFields DEF ToUnlock, Own, Overlapping
<1>6. ASSUME NEW a \in Nat, Covers(l, a), ~Covers(d, a)
      PROVE  HasAt(s, l.mand, a, l)
  <2>1. CASE a < d.start
    <3>1. l.start < d.start /\ l.start =< a
      BY <1>5, <1>6, <2>1 DEF Covers
    <3>2. PICK u : u = Leftover(l, l.start, d.start)
      OBVIOUS
    <3>3. u.start = l.start /\ u.end = d.start /\ u.mand = l.mand /\ AsStrong(u, l)
      <4>1. PICK p \in Nat : p = l.start
        BY <1>5
      <4>2. PICK q \in Nat : q = d.start
        BY <1>5
      <4>3. p < q /\ u = Leftover(l, p, q)
        BY <3>1, <3>2, <4>1, <4>2
      <4>4. u.start = p /\ u.end = q /\ u.mand = l.mand /\ AsStrong(u, l)
        BY <4>3, LeftoverIs
      <4>5. QED
        BY <4>1, <4>2, <4>4
    <3>4. PICK k \in DOMAIN t : t[k] = u
      BY <1>1, <3>1, <3>2 DEF LeftoversIn, Has
    <3>5. k # i
      BY <1>2, <1>5, <3>3, <3>4
    <3>6. PICK h \in DOMAIN s : s[h] = u
      BY <1>3, <3>4, <3>5
    <3>7. Covers(u, a)
      BY <2>1, <3>1, <3>3 DEF Covers
    <3>8. QED
      BY <3>3, <3>6, <3>7, Zenon DEF HasAt
  <2>2. CASE ~(a < d.start)
    <3>1. d.end =< a /\ a < l.end /\ l.end > d.end
      BY <1>5, <1>6, <2>2 DEF Covers
    <3>2. PICK u : u = Leftover(l, d.end, l.end)
      OBVIOUS
    <3>3. u.start = d.end /\ u.end = l.end /\ u.mand = l.mand /\ AsStrong(u, l)
      <4>1. PICK p \in Nat : p = d.end
        BY <1>5
      <4>2. PICK q \in Nat : q = l.end
        BY <1>5
      <4>3. p < q /\ u = Leftover(l, p, q)
        BY <3>1, <3>2, <4>1, <4>2
      <4>4. u.start = p /\ u.end = q /\ u.mand = l.mand /\ AsStrong(u, l)
        BY <4>3, LeftoverIs
      <4>5. QED
        BY <4>1, <4>2, <4>4
    <3>4. PICK k \in DOMAIN t : t[k] = u
      BY <1>1, <3>1, <3>2 DEF LeftoversIn, Has
    <3>5. k # i
      BY <1>2, <1>5, <3>3, <3>4
    <3>6. PICK h \in DOMAIN s : s[h] = u
      BY <1>3, <3>4, <3>5
    <3>7. Covers(u, a)
      BY <3>1, <3>3 DEF Covers
    <3>8. QED
      BY <3>3, <3>6, <3>7, Zenon DEF HasAt
  <2>3. QED
    BY <2>1, <2>2
<1>7. CoverKept(t, s, E)
  <2>1. SUFFICES ASSUME NEW k \in DOMAIN t, NEW a \in Nat, Covers(t[k], a),
                        <<t[k].mand, a>> \notin E
                 PROVE  HasAt(s, t[k].mand, a, t[k])
    BY Zenon DEF CoverKept
  <2>2. CASE k = i
    <3>1. ~Covers(d, a)
      BY <1>2, <1>5, <2>1, <2>2
    <3>2. QED
      BY <1>2, <1>6, <2>1, <2>2, <3>1
  <2>3. CASE k # i
    <3>1. PICK h \in DOMAIN s : s[h] = t[k]
      BY <1>3, <2>3
    <3>2. QED
      BY <1>4, <2>1, <3>1, Zenon DEF HasAt
  <2>4. QED
    BY <2>2, <2>3
<1>8. QED
  BY <1>1, <1>2, <1>3, <1>7

(***************************************************************************)
(* A turn of the loop of $unlock: the leftovers are put back, the record   *)
(* is removed and its sleepers are sent on.                                *)
(***************************************************************************)
LEMMA UnlockTurns ==
  ASSUME IInv, UnlockTurn
  PROVE  IInv'
<1>0. TypeOK /\ list \in Seq(Rec) /\ WaitersApart(list) /\ CallsOK
  BY DEF IInv, RecordsOK, WaitersOK
<1>1. frame # None /\ frame.op = "unlock" /\ frame.lock # 0 /\ UNCHANGED <<call, held, retracts>>
  BY DEF UnlockTurn
<1>2. frame \in Frame /\ desc \in Desc /\ frame.todo \in Seq(Desc) /\ Len(frame.todo) >= 1
  BY <1>1, DescFacts
<1>3. Len(list) \in Nat /\ DOMAIN list = 1 .. Len(list) /\ \A k \in DOMAIN list : list[k] \in Rec
  BY <1>0, SeqFacts
<1>4. PICK f \in DOMAIN list : f = frame.lock /\ ToUnlock(list[f], desc)
  <2>1. frame.lock =< Len(list) /\ frame.lock \in Nat
    BY <1>1, <1>2, FrameFields DEF IInv, FrameOK
  <2>2. Own(list[frame.lock], desc) /\ Overlapping(list[frame.lock], desc)
    BY <1>1 DEF IInv, FrameOK
  <2>3. QED
    BY <1>1, <1>3, <2>1, <2>2 DEF ToUnlock
<1>5. PICK l \in Rec : l = list[f]
  BY <1>3
<1>6. PICK b : ("sorted" \in b <=> ~broken) /\ ("last" \in b <=> f = Len(list))
  <2>1. PICK b : b = {v \in {"sorted", "last"} : IF v = "sorted" THEN ~broken ELSE f = Len(list)}
    OBVIOUS
  <2>2. QED
    BY <2>1
<1>7. PICK x0 : x0 = [list |-> list, i |-> f, j |-> f + 1]
  OBVIOUS
<1>8. x0.list = list /\ x0.i = f /\ x0.j = f + 1
  BY <1>7
<1>9. Added(list, x0, l, desc, b)
  <2>1. Walk(x0, l)
    BY <1>0, <1>3, <1>5, <1>8 DEF Walk
  <2>2. Edited(list, list, {}) /\ CoverKept(list, list, {})
    BY <1>0, EditedItself, Zenon
  <2>3. "sorted" \in b => Passed(x0, desc)
    <3>1. HAVE "sorted" \in b
    <3>2. \A k \in DOMAIN list : ToUnlock(list[k], desc) => k >= f
      BY <1>1, <1>4, <1>6, <3>1 DEF IInv, UnlockOK, Unlocking
    <3>3. \A k \in DOMAIN list : k < f + 1 /\ k # f => ~(k >= f)
      BY <1>3
    <3>4. QED
      BY <1>8, <3>2, <3>3, Zenon DEF Passed
  <2>4. "last" \in b => AtEnd(x0)
    BY <1>6, <1>8 DEF AtEnd
  <2>5. QED
    BY <1>8, <2>1, <2>2, <2>3, <2>4, Zenon DEF Added
<1>10. PICK x : x = AddingAbove(AddingBelow(x0, l), l)
  OBVIOUS
<1>11. Added(list, x, l, desc, b) /\ LeftoversIn(x, l, desc)
  BY <1>0, <1>2, <1>4, <1>5, <1>9, <1>10, AddedLeftovers
<1>12. PICK s : s = RemoveAt(x.list, x.i)
  OBVIOUS
<1>13. PICK g : g = IF f = Len(list) THEN 0 ELSE find_own(s, desc, x.j - 1)
  OBVIOUS
<1>14. Edit(s, {l}, pc) /\ frame' = [frame EXCEPT !.lock = g]
  BY <1>4, <1>5, <1>7, <1>10, <1>12, <1>13 DEF UnlockTurn
<1>15. Walk(x, l) /\ Edited(list, x.list, {}) /\ CoverKept(list, x.list, {})
  BY <1>11, Zenon DEF Added
<1>16. PICK t \in Seq(Rec) : t = x.list /\ WaitersApart(t)
  BY <1>15 DEF Edited
<1>17. PICK E : E = {p \in Mandates \X Nat : p[1] = desc.mand /\ Covers(desc, p[2])}
  OBVIOUS
<1>18. CoverKept(t, s, E) /\ Edited(t, s, l.waiters)
  <2>1. PICK d \in Desc : d = desc
    BY <1>2
  <2>2. /\ ToUnlock(l, d) /\ LeftoversIn(x, l, d) /\ WaitersApart(x.list)
        /\ E = {p \in Mandates \X Nat : p[1] = d.mand /\ Covers(d, p[2])}
    BY <1>4, <1>5, <1>11, <1>16, <1>17, <2>1
  <2>3. CoverKept(x.list, s, E) /\ Edited(x.list, s, l.waiters)
    BY <1>12, <1>15, <2>2, TakenOutCovers, Zenon
  <2>4. QED
    BY <1>16, <2>3, Zenon
<1>19. Edited(list, s, UNION {k.waiters : k \in {l}})
  <2>1. Edited(list, t, {})
    BY <1>15, <1>16, Zenon
  <2>2. Edited(list, s, {} \cup l.waiters)
    BY <1>0, <1>18, <2>1, EditedChain, Zenon
  <2>3. {} \cup l.waiters = UNION {k.waiters : k \in {l}}
    OBVIOUS
  <2>4. QED
    BY <2>2, <2>3, Zenon
<1>20. /\ RecordsOK' /\ WaitersOK' /\ SortedOK' /\ SleepersHaveReason'
       /\ list' = s /\ broken' \in BOOLEAN /\ (~broken' => ~broken)
       /\ pc' \in [Mandates -> PcVals]
       /\ \A q \in Mandates : pc'[q] = pc[q] \/ (pc'[q] = "lock" /\ pc[q] = "sleep")
  <2>1. pc \in [Mandates -> PcVals]
    BY <1>0 DEF TypeOK, PcVals
  <2>2. \A k \in {l} : \E j \in DOMAIN list : k.waiters = list[j].waiters
    BY <1>5
  <2>3. QED
    BY <1>1, <1>14, <1>19, <2>1, <2>2, EditStep
<1>21. PICK j : j = x.j - 1
  OBVIOUS
<1>22. /\ s \in Seq(Rec) /\ j \in Nat /\ j >= 1
       /\ f = Len(list) => \A k \in DOMAIN s : k < j
       /\ ~broken => \A k \in DOMAIN s : k < j => ~ToUnlock(s[k], desc)
  <2>1. PICK d : d = desc
    OBVIOUS
  <2>2. /\ s \in Seq(Rec) /\ x.j - 1 \in Nat /\ x.j - 1 >= 1
        /\ AtEnd(x) => \A k \in DOMAIN s : k < x.j - 1
        /\ Passed(x, d) => \A k \in DOMAIN s : k < x.j - 1 => ~ToUnlock(s[k], d)
    BY <1>12, <1>15, TakenOut
  <2>3. (f = Len(list) => AtEnd(x)) /\ (~broken => Passed(x, d))
    BY <1>6, <1>11, <2>1 DEF Added
  <2>4. QED
    BY <1>21, <2>1, <2>2, <2>3
<1>23. /\ g \in 0 .. Len(s)
       /\ g # 0 => Own(s[g], desc) /\ Overlapping(s[g], desc)
       /\ f # Len(list) /\ SortedByStart(s) =>
            \A k \in DOMAIN s : k >= j /\ ToUnlock(s[k], desc) => g # 0 /\ g =< k
  <2>1. CASE f = Len(list)
    <3>1. g = 0 /\ Len(s) \in Nat
      BY <1>13, <1>22, <2>1
    <3>2. QED
      BY <2>1, <3>1
  <2>2. CASE f # Len(list)
    <3>1. g = find_own(s, desc, j)
      BY <1>13, <1>21, <2>2
    <3>2. /\ g \in 0 .. Len(s)
          /\ g # 0 => g \in DOMAIN s /\ g >= j /\ Own(s[g], desc) /\ Overlapping(s[g], desc)
          /\ SortedByStart(s) =>
               \A k \in DOMAIN s : k >= j /\ Own(s[k], desc) /\ Overlapping(s[k], desc)
                                     => g # 0 /\ g =< k
      BY <1>2, <1>22, <3>1, FindOwnFacts, Zenon
    <3>3. QED
      BY <3>2, Zenon DEF ToUnlock
  <2>3. QED
    BY <2>1, <2>2
<1>24. /\ frame' \in Frame /\ frame'.op = "unlock" /\ frame'.todo = frame.todo /\ frame'.lock = g
       /\ frame'.prev = 0
  <2>1. frame.prev = 0
    BY <1>1 DEF IInv, FrameOK
  <2>2. g \in Nat
    BY <1>22, <1>23
  <2>3. QED
    BY <1>1, <1>2, <1>14, <2>1, <2>2 DEF Frame
<1>25. frame' # None /\ desc' = desc
  BY <1>24, NoFrame DEF desc
<1>26. TypeOK'
  <2>1. list' \in Seq(LockRec)
    <3>1. Rec \subseteq LockRec
      BY DEF Rec
    <3>2. QED
      BY <1>20, <1>22, <3>1
  <2>2. QED
    BY <1>0, <1>1, <1>20, <1>24, <2>1 DEF TypeOK, PcVals
<1>27. CallsOK'
  <2>1. \A q \in Mandates : pc'[q] # "idle" => pc[q] # "idle"
    BY <1>20
  <2>2. QED
    BY <1>0, <1>1, <2>1 DEF CallsOK
<1>28. MeltOK' /\ GrantOK'
  <2>1. \A q \in Mandates : pc[q] # "melt"
    BY <1>1 DEF IInv, MeltOK
  <2>2. \A q \in Mandates : pc'[q] # "melt"
    BY <1>20, <2>1
  <2>3. QED
    BY <2>2 DEF MeltOK, GrantOK
<1>29. ExclusionWhileSorted'
  BY <1>1, <1>20 DEF IInv, ExclusionWhileSorted, HoldersExcluded
<1>30. UnheldOK'
  BY <1>1, <1>25 DEF IInv, UnheldOK, Unlocking
<1>31. HeldOK'
  <2>1. SUFFICES ASSUME NEW q \in Mandates, NEW a \in Addrs, held[q][a] # None
                 PROVE  Backed(s, q, a, held[q][a])
    BY <1>1, <1>20, Zenon DEF HeldOK
  <2>2. PICK z : z = held[q][a]
    OBVIOUS
  <2>3. Backed(list, q, a, z) /\ Strong(z) /\ a \in Nat
    BY <1>0, <2>1, <2>2, HeldStrong, AddrsNat DEF IInv, HeldOK
  <2>4. Backed(t, q, a, z)
    <3>1. PICK N : N = {} /\ CoverKept(list, t, N)
      BY <1>15, <1>16, Zenon
    <3>2. <<q, a>> \notin N
      BY <3>1
    <3>3. QED
      BY <1>0, <2>3, <3>1, <3>2, BackedKept, Zenon
  <2>5. <<q, a>> \notin E
    <3>1. ~(q = desc.mand /\ Covers(desc, a))
      BY <1>1, <2>1 DEF IInv, UnheldOK, Unlocking
    <3>2. QED
      BY <1>17, <3>1
  <2>6. Backed(s, q, a, z)
    BY <1>18, <1>22, <2>3, <2>4, <2>5, BackedKept, Zenon
  <2>7. QED
    BY <2>2, <2>6, Zenon
<1>32. FrameOK'
  <2>1. 0 =< Len(s) /\ g =< Len(s)
    BY <1>22, <1>23
  <2>2. frame'.lock # 0 => Own(s[frame'.lock], desc) /\ Overlapping(s[frame'.lock], desc)
    BY <1>23, <1>24, Zenon
  <2>3. QED
    BY <1>2, <1>20, <1>24, <1>25, <2>1, <2>2 DEF FrameOK
<1>33. UnlockOK'
  <2>1. SUFFICES ASSUME ~broken', NEW k \in DOMAIN s, ToUnlock(s[k], desc)
                 PROVE  g # 0 /\ k >= g
    BY <1>20, <1>24, <1>25, Zenon DEF UnlockOK
  <2>2. ~broken /\ SortedByStart(s)
    BY <1>20, <2>1 DEF SortedOK
  <2>3. k \in Nat /\ ~(k < j)
    BY <1>22, <2>1, <2>2
  <2>4. f # Len(list) /\ k >= j
    BY <1>22, <2>3
  <2>5. g # 0 /\ g =< k
    BY <1>23, <2>1, <2>2, <2>4, Zenon
  <2>6. QED
    BY <1>22, <1>23, <2>3, <2>5
<1>34. QED
  BY <1>20, <1>26, <1>27, <1>28, <1>29, <1>30, <1>31, <1>32, <1>33 DEF IInv

------------------------------------------------------------------------------
(* The invariant holds of the empty list. *)
LEMMA InitOK ==
  ASSUME Init
  PROVE  IInv
<1>1. list = << >> /\ list \in Seq(Rec) /\ list \in Seq(LockRec) /\ DOMAIN list = {}
  BY DEF Init
<1>2. /\ frame = None /\ retracts = {} /\ broken = FALSE
      /\ \A m \in Mandates : pc[m] = "idle"
      /\ \A m \in Mandates, a \in Addrs : held[m][a] = None
  BY DEF Init
<1>3. TypeOK
  BY <1>1 DEF Init, TypeOK
<1>4. CallsOK /\ RecordsOK /\ FrameOK /\ MeltOK /\ HeldOK /\ UnheldOK /\ GrantOK /\ UnlockOK
  BY <1>1, <1>2 DEF CallsOK, RecordsOK, FrameOK, MeltOK, HeldOK, UnheldOK, GrantOK, UnlockOK,
                    Unlocking
<1>5. WaitersOK /\ SortedOK
  BY <1>1 DEF WaitersOK, WaitersApart, SortedOK, SortedByStart
<1>6. ExclusionWhileSorted /\ SleepersHaveReason
  BY <1>2 DEF ExclusionWhileSorted, HoldersExcluded, SleepersHaveReason
<1>7. QED
  BY <1>3, <1>4, <1>5, <1>6 DEF IInv

(* Every step keeps the invariant. *)
LEMMA StepOK ==
  ASSUME IInv, [Next]_vars
  PROVE  IInv'
<1>1. CASE UNCHANGED vars
  BY <1>1 DEF vars, IInv, TypeOK, CallsOK, RecordsOK, WaitersOK, FrameOK, MeltOK, HeldOK, UnheldOK,
              Unlocking, SortedOK, GrantOK, ExclusionWhileSorted, HoldersExcluded, UnlockOK,
              SleepersHaveReason, SleptOn, Obligatory, desc
<1>2. ASSUME NEW m \in Mandates, NEW r \in Requests, NEW y \in Types, NEW a \in Actions,
             CallLock(m, r, y, a)
      PROVE  IInv'
  BY <1>2, LockCalled
<1>3. ASSUME NEW m \in Mandates, lock_op(m)
      PROVE  IInv'
  BY <1>3, LockReturned, LockSleeps, Granting, MeltBegins, MeltTurns, MeltEnds, Zenon DEF lock_op
<1>4. ASSUME NEW m \in Mandates, SpuriousWakeup(m)
      PROVE  IInv'
  BY <1>4, Wakes
<1>5. ASSUME NEW m \in Mandates, NEW r \in UnlockRegions, CallUnlock(m, r)
      PROVE  IInv'
  <2>1. r \in Nat \X Nat
    BY MandAssumption
  <2>2. UnlockBegin(m, r) /\ retracts' \subseteq retracts
    BY <1>5 DEF CallUnlock
  <2>3. QED
    BY <2>1, <2>2, UnlockBegins
<1>6. ASSUME NEW r \in retracts, AnswerRetract(r)
      PROVE  IInv'
  <2>1. r.mand \in Mandates /\ <<r.start, r.end>> \in Nat \X Nat
    BY DEF IInv, TypeOK
  <2>2. UnlockBegin(r.mand, <<r.start, r.end>>) /\ retracts' \subseteq retracts
    BY <1>6 DEF AnswerRetract
  <2>3. QED
    BY <2>1, <2>2, UnlockBegins
<1>7. ASSUME unlock_op
      PROVE  IInv'
  BY <1>7, UnlockTurns, UnlockEnds DEF unlock_op
<1>8. QED
  BY <1>1, <1>2, <1>3, <1>4, <1>5, <1>6, <1>7, Zenon DEF Next

(***************************************************************************)
(* IInv holds in every reachable state of lock_mand, for every set of      *)
(* mandates, requests, types and actions.                                  *)
(***************************************************************************)
THEOREM Invariant == Spec => []IInv
BY InitOK, StepOK, PTL DEF Spec

(***************************************************************************)
(* The list, the local variables of the call that has the mutex and what   *)
(* the users hold keep their shape through every turn of the loops of      *)
(* melt_lock_into_list and $unlock; the indexes kept in them never leave   *)
(* the list.                                                               *)
(***************************************************************************)
THEOREM TypeCorrect == Spec => []TypeOK
<1>1. IInv => TypeOK
  BY DEF IInv
<1>2. QED
  BY <1>1, Invariant, PTL

(***************************************************************************)
(* What $lock has granted is in the list of lock_mand, at every address    *)
(* and as strong as it was granted, until its mandate unlocks it: no       *)
(* splitting, cutting, strengthening or joining of records in              *)
(* melt_lock_into_list and no leftover of $unlock loses any of it.         *)
(***************************************************************************)
THEOREM HoldingsInList == Spec => []HoldingsBacked
<1>1. IInv => HoldingsBacked
  <2>1. SUFFICES ASSUME IInv, NEW m \in Mandates, NEW a \in Addrs, held[m][a] # None,
                        NEW own, own = {i \in DOMAIN list : list[i].mand = m /\ Covers(list[i], a)}
                 PROVE  /\ \E i \in own : DataType(list[i]) >= DataType(held[m][a])
                        /\ \E i \in own : AddrType(list[i]) >= AddrType(held[m][a])
                        /\ held[m][a].oblig => \E i \in own : list[i].oblig
    BY Zenon DEF HoldingsBacked
  <2>2. Backed(list, m, a, held[m][a])
    BY <2>1 DEF IInv, HeldOK
  <2>3. QED
    BY <2>1, <2>2, Zenon DEF Backed
<1>2. QED
  BY <1>1, Invariant, PTL

(***************************************************************************)
(* As long as lock_mand's list is in the order its searches rely on, no    *)
(* two mandates hold conflicting locks on an address, whatever was cut     *)
(* from the optional parts of their requests.                              *)
(***************************************************************************)
THEOREM Exclusion == Spec => []ExclusionWhileSorted
<1>1. IInv => ExclusionWhileSorted
  BY DEF IInv
<1>2. QED
  BY <1>1, Invariant, PTL

(***************************************************************************)
(* As long as the list is in order, a running $unlock has left no own      *)
(* record in the region it unlocks behind the record it looks at, so that  *)
(* none is left when it returns.                                           *)
(***************************************************************************)
THEOREM UnlockReleasesAll == Spec => []UnlockComplete
<1>1. IInv => UnlockComplete
  BY DEF IInv, UnlockOK, Unlocking, UnlockComplete, ToUnlock
<1>2. QED
  BY <1>1, Invariant, PTL

(***************************************************************************)
(* No lost wakeup in lock_mand: whoever sleeps in $lock is linked into the *)
(* waiters of a record of another mandate that still conflicts with what   *)
(* it waits for; every edit that takes the record out sends the sleepers   *)
(* on.                                                                     *)
(***************************************************************************)
THEOREM NoLostWakeup == Spec => []SleepersHaveReason
<1>1. IInv => SleepersHaveReason
  BY DEF IInv
<1>2. QED
  BY <1>1, Invariant, PTL

------------------------------------------------------------------------------
(***************************************************************************)
(* The records of a mandate stay apart.  Of a list with a hole, the record *)
(* at i does not count; 0 is no hole.                                      *)
(***************************************************************************)
Clash(p, q) == p.mand = q.mand /\ Overlapping(p, q)
HoleApart(s, i) == \A k, h \in DOMAIN s : k # i /\ h # i /\ k # h => ~Clash(s[k], s[h])

(* Record r does not clash with any other. *)
Free(s, i, r) == \A k \in DOMAIN s : k # i => ~Clash(s[k], r)

(* Record q is a part of l. *)
Within(q, l) == q.mand = l.mand /\ l.start =< q.start /\ q.end =< l.end

(* Overlapping is symmetric. *)
LEMMA ClashSymmetric ==
  ASSUME NEW p \in Rec, NEW q \in Rec
  PROVE  Clash(p, q) <=> Clash(q, p)
BY RecFields DEF Clash, Overlapping

(* A record that is apart from another is apart from its parts. *)
LEMMA FreeWithin ==
  ASSUME NEW s \in Seq(Rec), NEW i, NEW l \in Rec, Free(s, i, l), NEW q \in Rec, Within(q, l)
  PROVE  Free(s, i, q)
<1>1. SUFFICES ASSUME NEW k \in DOMAIN s, k # i, Clash(s[k], q)
               PROVE  FALSE
  BY DEF Free
<1>2. PICK e \in Rec : e = s[k]
  BY SeqFacts
<1>3. ~Clash(e, l) /\ Clash(e, q)
  BY <1>1, <1>2 DEF Free
<1>4. QED
  BY <1>3, RecFields DEF Clash, Overlapping, Within

(* Each record of a list without a hole may be taken for the hole. *)
LEMMA HoleFree ==
  ASSUME NEW s \in Seq(Rec), HoleApart(s, 0), NEW i \in DOMAIN s
  PROVE  HoleApart(s, i) /\ Free(s, i, s[i])
<1>1. \A k \in DOMAIN s : k # 0
  BY SeqFacts
<1>2. QED
  BY <1>1, Zenon DEF HoleApart, Free

(* A record that clashes with none is linked in. *)
LEMMA InsertApart ==
  ASSUME NEW s \in Seq(Rec), NEW i \in 0 .. Len(s), NEW r \in Rec, HoleApart(s, i), Free(s, i, r),
         NEW y, y = InsertSorted(s, r), NEW j, j = Moved(s, r, i)
  PROVE  /\ y \in Seq(Rec) /\ j \in 0 .. Len(y) /\ (i = 0 => j = 0) /\ (i # 0 => j # 0)
         /\ HoleApart(y, j) /\ \A q \in Rec : Free(s, i, q) /\ ~Clash(r, q) => Free(y, j, q)
<1>1. PICK n \in Nat : n = Len(s) /\ DOMAIN s = 1 .. n
  BY SeqFacts
<1>2. PICK p \in 1 .. (n + 1) : p = PlaceOf(s, r)
  BY <1>1, PlaceInList
<1>3. /\ y \in Seq(Rec) /\ Len(y) = n + 1
      /\ \A k \in 1 .. (n + 1) : y[k] = IF k < p THEN s[k] ELSE IF k = p THEN r ELSE s[k - 1]
  <2>1. /\ y \in Seq(Rec) /\ Len(y) = Len(s) + 1
        /\ \A k \in 1 .. (Len(s) + 1) :
             y[k] = IF k < PlaceOf(s, r) THEN s[k] ELSE IF k = PlaceOf(s, r) THEN r ELSE s[k - 1]
    BY InsertSortedFacts, Zenon
  <2>2. QED
    BY <1>1, <1>2, <2>1
<1>4. DOMAIN y = 1 .. (n + 1)
  BY <1>3
<1>5. j = IF p =< i THEN i + 1 ELSE i
  BY <1>2 DEF Moved
<1>6. PICK b : b = [k \in 1 .. (n + 1) |-> IF k < p THEN k ELSE k - 1]
  OBVIOUS
<1>7. /\ \A k \in 1 .. (n + 1) : k # p => b[k] \in 1 .. n /\ (k # j => b[k] # i)
      /\ \A k, h \in 1 .. (n + 1) : k # p /\ h # p /\ k # h => b[k] # b[h]
  BY <1>1, <1>5, <1>6
<1>8. \A k \in 1 .. (n + 1) : k # p => y[k] = s[b[k]]
  BY <1>3, <1>6
<1>9. y[p] = r
  BY <1>3
<1>10. \A k \in 1 .. n : s[k] \in Rec
  BY <1>1, SeqFacts
<1>11. HoleApart(y, j)
  <2>1. SUFFICES ASSUME NEW k \in 1 .. (n + 1), NEW h \in 1 .. (n + 1), k # j, h # j, k # h
                 PROVE  ~Clash(y[k], y[h])
    BY <1>4 DEF HoleApart
  <2>2. CASE k # p /\ h # p
    <3>1. b[k] \in DOMAIN s /\ b[h] \in DOMAIN s /\ b[k] # i /\ b[h] # i /\ b[k] # b[h]
      BY <1>1, <1>7, <2>1, <2>2, Zenon
    <3>2. ~Clash(s[b[k]], s[b[h]])
      BY <3>1, Zenon DEF HoleApart
    <3>3. QED
      BY <1>8, <2>2, <3>2, Zenon
  <2>3. CASE k = p
    <3>1. b[h] \in DOMAIN s /\ b[h] # i /\ y[h] = s[b[h]] /\ s[b[h]] \in Rec
      BY <1>1, <1>7, <1>8, <1>10, <2>1, <2>3, Zenon
    <3>2. ~Clash(y[h], r) /\ y[h] \in Rec
      BY <3>1, Zenon DEF Free
    <3>3. QED
      BY <1>9, <2>3, <3>2, ClashSymmetric, Zenon
  <2>4. CASE h = p
    <3>1. b[k] \in DOMAIN s /\ b[k] # i /\ y[k] = s[b[k]]
      BY <1>1, <1>7, <1>8, <2>1, <2>4, Zenon
    <3>2. ~Clash(y[k], r)
      BY <3>1, Zenon DEF Free
    <3>3. QED
      BY <1>9, <2>4, <3>2, Zenon
  <2>5. QED
    BY <2>2, <2>3, <2>4, Zenon
<1>12. ASSUME NEW q \in Rec, Free(s, i, q), ~Clash(r, q)
       PROVE  Free(y, j, q)
  <2>1. SUFFICES ASSUME NEW k \in 1 .. (n + 1), k # j
                 PROVE  ~Clash(y[k], q)
    BY <1>4 DEF Free
  <2>2. CASE k = p
    BY <1>9, <1>12, <2>2, Zenon
  <2>3. CASE k # p
    <3>1. b[k] \in DOMAIN s /\ b[k] # i /\ y[k] = s[b[k]]
      BY <1>1, <1>7, <1>8, <2>1, <2>3, Zenon
    <3>2. QED
      BY <1>12, <3>1, Zenon DEF Free
  <2>4. QED
    BY <2>2, <2>3
<1>13. j \in 0 .. Len(y) /\ (i = 0 => j = 0) /\ (i # 0 => j # 0)
  BY <1>1, <1>3, <1>5
<1>14. QED
  BY <1>3, <1>11, <1>12, <1>13, Zenon

(* The record in the hole is taken out. *)
LEMMA RemoveApart ==
  ASSUME NEW s \in Seq(Rec), NEW i \in DOMAIN s, HoleApart(s, i), NEW y, y = RemoveAt(s, i)
  PROVE  /\ y \in Seq(Rec) /\ HoleApart(y, 0)
         /\ \A q : Free(s, i, q) => Free(y, 0, q)
<1>1. PICK n \in Nat : n = Len(s) /\ DOMAIN s = 1 .. n
  BY SeqFacts
<1>2. /\ y \in Seq(Rec) /\ Len(y) = n - 1
      /\ \A k \in 1 .. (n - 1) : y[k] = IF k < i THEN s[k] ELSE s[k + 1]
  BY <1>1, RemoveAtFacts, Zenon
<1>3. DOMAIN y = 1 .. (n - 1)
  BY <1>2
<1>4. PICK b : b = [k \in 1 .. (n - 1) |-> IF k < i THEN k ELSE k + 1]
  OBVIOUS
<1>5. /\ \A k \in DOMAIN y : b[k] \in DOMAIN s /\ b[k] # i
      /\ \A k, h \in DOMAIN y : k # h => b[k] # b[h]
  BY <1>1, <1>3, <1>4
<1>6. \A k \in DOMAIN y : y[k] = s[b[k]]
  BY <1>2, <1>3, <1>4
<1>7. HoleApart(y, 0)
  <2>1. SUFFICES ASSUME NEW k \in DOMAIN y, NEW h \in DOMAIN y, k # h
                 PROVE  ~Clash(y[k], y[h])
    BY DEF HoleApart
  <2>2. b[k] \in DOMAIN s /\ b[h] \in DOMAIN s /\ b[k] # i /\ b[h] # i /\ b[k] # b[h]
    BY <1>5, <2>1, Zenon
  <2>3. ~Clash(s[b[k]], s[b[h]])
    BY <2>2, Zenon DEF HoleApart
  <2>4. QED
    BY <1>6, <2>3, Zenon
<1>8. ASSUME NEW q, Free(s, i, q)
      PROVE  Free(y, 0, q)
  BY <1>5, <1>6, <1>8, Zenon DEF Free
<1>9. QED
  BY <1>2, <1>7, <1>8, Zenon

(* A record is changed where it stands, and clashes with no other. *)
LEMMA UpdateApart ==
  ASSUME NEW s \in Seq(Rec), NEW i \in DOMAIN s, HoleApart(s, i), NEW l \in Rec, Free(s, i, l),
         NEW y, y = [s EXCEPT ![i] = l]
  PROVE  y \in Seq(Rec) /\ DOMAIN y = DOMAIN s /\ y[i] = l /\ HoleApart(y, 0)
<1>1. y \in Seq(Rec)
  BY SeqFacts
<1>2. DOMAIN y = DOMAIN s /\ y[i] = l /\ \A k \in DOMAIN s : k # i => y[k] = s[k]
  OBVIOUS
<1>3. \A k \in DOMAIN s : s[k] \in Rec
  BY SeqFacts
<1>4. SUFFICES ASSUME NEW k \in DOMAIN s, NEW h \in DOMAIN s, k # h
               PROVE  ~Clash(y[k], y[h])
  BY <1>1, <1>2, Zenon DEF HoleApart
<1>5. CASE k # i /\ h # i
  BY <1>2, <1>4, <1>5, Zenon DEF HoleApart
<1>6. CASE h = i
  BY <1>2, <1>4, <1>6, Zenon DEF Free
<1>7. CASE k = i
  <2>1. ~Clash(s[h], l)
    BY <1>4, <1>7, Zenon DEF Free
  <2>2. QED
    BY <1>2, <1>3, <1>4, <1>7, <2>1, ClashSymmetric, Zenon
<1>8. QED
  BY <1>5, <1>6, <1>7, Zenon

(* A record is replaced by two parts of it. *)
LEMMA SplitApart ==
  ASSUME NEW s \in Seq(Rec), HoleApart(s, 0), NEW i \in DOMAIN s, NEW u \in Rec, NEW v \in Rec,
         Within(u, s[i]), Within(v, s[i]), ~Clash(u, v), NEW x, x = SplitInto(s, i, u, v)
  PROVE  HoleApart(x.list, 0)
<1>1. PICK l \in Rec : l = s[i]
  BY SeqFacts
<1>2. HoleApart(s, i) /\ Free(s, i, l)
  BY <1>1, HoleFree
<1>3. Free(s, i, u) /\ Free(s, i, v)
  BY <1>1, <1>2, FreeWithin
<1>4. PICK t : t = RemoveAt(s, i)
  OBVIOUS
<1>5. t \in Seq(Rec) /\ HoleApart(t, 0) /\ Free(t, 0, u) /\ Free(t, 0, v)
  BY <1>2, <1>3, <1>4, RemoveApart, Zenon
<1>6. PICK y : y = InsertSorted(t, u)
  OBVIOUS
<1>7. 0 \in 0 .. Len(t)
  BY <1>5
<1>8. y \in Seq(Rec) /\ HoleApart(y, 0) /\ Free(y, 0, v)
  BY <1>5, <1>6, <1>7, InsertApart, ZenonT(30)
<1>9. 0 \in 0 .. Len(y)
  BY <1>8
<1>10. HoleApart(InsertSorted(y, v), 0)
  BY <1>8, <1>9, InsertApart, Zenon
<1>11. x.list = InsertSorted(y, v)
  BY <1>4, <1>6 DEF SplitInto
<1>12. QED
  BY <1>10, <1>11, Zenon

(***************************************************************************)
(* Where a part of a request begins at the end of an own record, what is   *)
(* in its way stands behind that record.                                   *)
(***************************************************************************)
LEMMA Behind ==
  ASSUME NEW s \in Seq(Rec), SortedByStart(s), HoleApart(s, 0), NEW h \in DOMAIN s, NEW d \in Desc,
         s[h].end = d.start, s[h].mand = d.mand, NEW k \in DOMAIN s, ToUnlock(s[k], d)
  PROVE  k > h /\ d.start < d.end
<1>1. PICK p \in Rec : p = s[h]
  BY SeqFacts
<1>2. PICK q \in Rec : q = s[k]
  BY SeqFacts
<1>3. h \in Nat /\ k \in Nat /\ k # 0 /\ h # 0
  BY SeqFacts
<1>4. k # h => ~Clash(q, p)
  BY <1>1, <1>2, <1>3, Zenon DEF HoleApart
<1>5. q.start >= d.start /\ q.start > p.start /\ d.start < d.end
  BY <1>1, <1>2, <1>4, RecFields, DescFields DEF Clash, ToUnlock, Own, Overlapping
<1>6. k < h => q.start =< p.start
  BY <1>1, <1>2 DEF SortedByStart
<1>7. k # h
  BY <1>1, <1>2, <1>5, RecFields
<1>8. QED
  BY <1>3, <1>5, <1>6, <1>7, RecFields

------------------------------------------------------------------------------
(***************************************************************************)
(* What else is invariant while the list is in order: the records of a     *)
(* mandate are apart at any time;                                          *)
(***************************************************************************)
ApartOK == ~broken => HoleApart(list, 0)

(* own records in the way of the part being melted in are yet to be met;   *)
GapOK ==
  ~broken /\ frame # None /\ frame.op = "melt" =>
    \A k \in DOMAIN list : ToUnlock(list[k], desc) => frame.lock # 0 /\ k >= frame.lock

(* no region to be unlocked is empty or inverted. *)
RangesOK == /\ \A r \in retracts : r.start < r.end
            /\ Unlocking => desc.start < desc.end

DInv == ApartOK /\ GapOK /\ RangesOK

(* A part of a request goes on behind an own record. *)
LEMMA GapAfter ==
  ASSUME IInv, IInv', frame # None, NEW d \in Desc, NEW f, NEW p,
         FrameLoop(<<d>> \o Tail(frame.todo), f, p), ApartOK',
         NEW h \in DOMAIN list', list'[h].end = d.start, list'[h].mand = d.mand,
         f = find_own(list', d, h) \/ (d.start >= d.end /\ f = 0)
  PROVE  GapOK'
<1>1. frame \in Frame /\ frame.todo \in Seq(Desc) /\ Len(frame.todo) >= 1
  BY DescFacts
<1>2. PICK t : t = <<d>> \o Tail(frame.todo)
  OBVIOUS
<1>3. Head(t) = d
  BY <1>1, <1>2, HeadReplaced
<1>4. frame'.todo = t /\ frame'.lock = f
  BY <1>1, <1>2 DEF FrameLoop, Frame
<1>5. desc' = d
  BY <1>3, <1>4 DEF desc
<1>6. PICK s \in Seq(Rec) : s = list'
  BY DEF IInv, RecordsOK
<1>7. SUFFICES ASSUME ~broken', NEW k \in DOMAIN s, ToUnlock(s[k], d)
               PROVE  f # 0 /\ k >= f
  BY <1>4, <1>5, <1>6, Zenon DEF GapOK
<1>8. SortedByStart(s) /\ HoleApart(s, 0)
  BY <1>6, <1>7 DEF IInv, SortedOK, ApartOK
<1>9. h \in DOMAIN s /\ s[h].end = d.start /\ s[h].mand = d.mand
  BY <1>6
<1>10. k > h /\ d.start < d.end
  BY <1>7, <1>8, <1>9, Behind
<1>11. d.start \in Nat /\ d.end \in Nat /\ h \in Nat /\ h >= 1 /\ k \in Nat /\ Len(s) \in Nat
  BY <1>6, <1>9, SeqFacts, DescFields
<1>12. f = find_own(s, d, h)
  BY <1>6, <1>10, <1>11
<1>13. /\ f \in 0 .. Len(s)
       /\ \A n \in DOMAIN s : n >= h /\ Own(s[n], d) /\ Overlapping(s[n], d) => f # 0 /\ f =< n
  BY <1>8, <1>11, <1>12, FindOwnFacts, Zenon
<1>14. k >= h
  BY <1>10, <1>11
<1>15. f # 0 /\ f =< k
  BY <1>7, <1>13, <1>14, Zenon DEF ToUnlock
<1>16. QED
  BY <1>11, <1>13, <1>15

(* Steps that leave the list and the local variables alone. *)
LEMMA SameApart ==
  ASSUME IInv, DInv, list' = list, broken' = broken, retracts' \subseteq retracts,
         frame' = None \/ frame' = frame \/ frame'.op = "begin"
  PROVE  DInv'
<1>1. ApartOK'
  BY DEF DInv, ApartOK
<1>2. GapOK'
  BY DEF DInv, GapOK, desc
<1>3. RangesOK'
  BY DEF DInv, RangesOK, Unlocking, desc
<1>4. QED
  BY <1>1, <1>2, <1>3 DEF DInv

(* Only the sleepers change. *)
LEMMA ShapeApart ==
  ASSUME IInv, DInv, SameShape(list, list'), UNCHANGED <<frame, broken>>
  PROVE  ApartOK' /\ GapOK' /\ (Unlocking' => desc'.start < desc'.end)
<1>1. /\ DOMAIN list' = DOMAIN list
      /\ \A k \in DOMAIN list : /\ list'[k].start = list[k].start /\ list'[k].end = list[k].end
                                /\ list'[k].mand = list[k].mand
  BY DEF SameShape
<1>2. desc' = desc
  BY DEF desc
<1>3. ApartOK'
  BY <1>1 DEF DInv, ApartOK, HoleApart, Clash, Overlapping
<1>4. GapOK'
  BY <1>1, <1>2 DEF DInv, GapOK, ToUnlock, Own, Overlapping
<1>5. QED
  BY <1>2, <1>3, <1>4 DEF DInv, RangesOK, Unlocking

(* A waiter is linked in; what it asks back is in its way and not empty. *)
LEMMA SleepsApart ==
  ASSUME IInv, DInv, NEW m \in Mandates, LockWait(m)
  PROVE  DInv'
<1>0. list \in Seq(Rec) /\ CallsOK
  BY DEF IInv, RecordsOK
<1>1. /\ pc[m] = "lock" /\ frame = None /\ Conflictor(m) # 0 /\ ~EmptyObligatory(m)
      /\ UNCHANGED <<frame, call, held, broken>>
  BY DEF LockWait, Locking, Blocked
<1>2. PICK d \in Desc : d = Obligatory(m) /\ d.start < d.end
  <2>1. call[m] \in CallRec /\ Ordered(call[m])
    BY <1>0, <1>1 DEF CallsOK
  <2>2. call[m].obl[1] < call[m].obl[2]
    BY <1>1, <2>1, CallFields DEF EmptyObligatory, Ordered
  <2>3. QED
    BY <1>0, <1>1, <2>2, ObligatoryFacts
<1>3. PICK i \in DOMAIN list : i = Conflictor(m) /\ Overlapping(list[i], d)
  BY <1>0, <1>1, <1>2, ConflictorFacts, Zenon DEF Conflictor
<1>4. PICK l \in Rec : l = list[i]
  BY <1>0, SeqFacts
<1>5. PICK r : r = [l EXCEPT !.waiters = @ \cup {m}]
  OBVIOUS
<1>6. /\ r.start = l.start /\ r.end = l.end /\ r.mand = l.mand /\ r.type = l.type
      /\ r.oblig = l.oblig
  BY <1>5 DEF Rec, LockRec
<1>7. list' = [list EXCEPT ![i] = r] /\ retracts' = retracts \cup RetractsFor(l, d)
  BY <1>2, <1>3, <1>4, <1>5 DEF LockWait
<1>8. SameShape(list, list')
  <2>1. DOMAIN list' = DOMAIN list /\ Len(list') = Len(list)
    BY <1>0, <1>7
  <2>2. \A k \in DOMAIN list : list'[k] = IF k = i THEN r ELSE list[k]
    BY <1>7
  <2>3. QED
    BY <1>4, <1>6, <2>1, <2>2 DEF SameShape
<1>9. ApartOK' /\ GapOK' /\ (Unlocking' => desc'.start < desc'.end)
  BY <1>1, <1>8, ShapeApart
<1>10. \A e \in RetractsFor(l, d) : e.start < e.end
  <2>1. PICK e : e = PartInTheWay(l, d)
    OBVIOUS
  <2>2. e.start = Larger(l.start, d.start) /\ e.end = Smaller(l.end, d.end)
    BY <2>1 DEF PartInTheWay
  <2>3. l.end > d.start /\ l.start < d.end /\ l.start < l.end
    BY <1>3, <1>4, RecFields DEF Overlapping
  <2>4. e.start < e.end
    BY <1>2, <2>2, <2>3, RecFields, DescFields DEF Larger, Smaller
  <2>5. QED
    BY <2>1, <2>4 DEF RetractsFor
<1>11. QED
  BY <1>7, <1>9, <1>10 DEF DInv, RangesOK

(* A sleeper wakes and unlinks itself. *)
LEMMA WakesApart ==
  ASSUME IInv, DInv, NEW m \in Mandates, SpuriousWakeup(m)
  PROVE  DInv'
<1>0. list \in Seq(Rec)
  BY DEF IInv, RecordsOK
<1>1. /\ list' = [i \in DOMAIN list |-> [list[i] EXCEPT !.waiters = @ \ {m}]]
      /\ UNCHANGED <<frame, retracts, broken>>
  BY DEF SpuriousWakeup
<1>2. ASSUME NEW k \in DOMAIN list
      PROVE  /\ list'[k].start = list[k].start /\ list'[k].end = list[k].end
             /\ list'[k].mand = list[k].mand /\ list'[k].type = list[k].type
             /\ list'[k].oblig = list[k].oblig
  <2>1. PICK l \in Rec : l = list[k]
    BY <1>0, SeqFacts
  <2>2. list'[k] = [l EXCEPT !.waiters = @ \ {m}]
    BY <1>1, <2>1
  <2>3. QED
    BY <2>1, <2>2 DEF Rec, LockRec
<1>3. DOMAIN list' = DOMAIN list /\ Len(list') = Len(list)
  BY <1>0, <1>1
<1>4. SameShape(list, list')
  BY <1>2, <1>3 DEF SameShape
<1>5. ApartOK' /\ GapOK' /\ (Unlocking' => desc'.start < desc'.end)
  BY <1>1, <1>4, ShapeApart
<1>6. QED
  BY <1>1, <1>5 DEF DInv, RangesOK

(* While a request is melted in no $unlock runs. *)
LEMMA MeltRanges ==
  ASSUME DInv, UNCHANGED retracts, frame' = None \/ frame'.op \in {"begin", "melt"}
  PROVE  RangesOK'
BY DEF DInv, RangesOK, Unlocking

(* The first own record is found and, if weaker, split. *)
LEMMA BeginApart ==
  ASSUME IInv, IInv', DInv, NEW m \in Mandates, MeltBegin(m)
  PROVE  DInv'
<1>0. list \in Seq(Rec) /\ frame \in Frame
  BY MeltFacts, DescFacts DEF IInv, RecordsOK, MeltBegin
<1>1. pc[m] = "melt" /\ UNCHANGED retracts
  BY DEF MeltBegin
<1>2. frame # None /\ desc \in Desc /\ desc.mand = m
  BY <1>1, MeltFacts, DescFacts
<1>3. PICK e \in Desc : e = desc
  BY <1>2
<1>4. PICK i : i = find_own(list, e, 1)
  OBVIOUS
<1>5. /\ i \in 0 .. Len(list)
      /\ i # 0 => i \in DOMAIN list /\ i >= 1 /\ Own(list[i], e) /\ Overlapping(list[i], e)
      /\ SortedByStart(list) =>
           \A k \in DOMAIN list : k >= 1 /\ Own(list[k], e) /\ Overlapping(list[k], e)
                                    => i # 0 /\ i =< k
  <2>1. 1 \in Nat /\ 1 >= 1
    OBVIOUS
  <2>2. QED
    BY <1>0, <1>4, <2>1, FindOwnFacts, Zenon
<1>6. e.start \in Nat /\ e.end \in Nat
  BY DescFields
<1>7. Len(list) \in Nat /\ DOMAIN list = 1 .. Len(list) /\ \A k \in DOMAIN list : list[k] \in Rec
  BY <1>0, SeqFacts
<1>8. PICK l : l = list[i]
  OBVIOUS
<1>9. CASE ~(i # 0 /\ l.start < e.start)
  <2>1. FrameLoop(<<e>> \o Tail(frame.todo), i, 0) /\ Edit(list, {}, pc)
    BY <1>3, <1>4, <1>8, <1>9 DEF MeltBegin
  <2>2. list' = list /\ broken' = (broken \/ ~SortedByStart(list))
    BY <2>1 DEF Edit
  <2>3. ApartOK'
    BY <2>2 DEF DInv, ApartOK
  <2>4. PICK t : t = <<e>> \o Tail(frame.todo)
    OBVIOUS
  <2>5. Head(t) = e
    BY <1>2, <2>4, DescFacts, HeadReplaced
  <2>6. frame'.todo = t /\ frame'.lock = i /\ frame'.op = "melt"
    BY <1>0, <2>1, <2>4 DEF FrameLoop, Frame
  <2>7. desc' = e
    BY <2>5, <2>6 DEF desc
  <2>8. \A k \in DOMAIN list : k >= 1 /\ (i # 0 /\ i =< k => i # 0 /\ k >= i)
    BY <1>5, <1>7
  <2>9. GapOK'
    BY <1>5, <2>2, <2>6, <2>7, <2>8, Zenon DEF GapOK, ToUnlock
  <2>10. RangesOK'
    BY <1>1, <2>6, MeltRanges
  <2>11. QED
    BY <2>3, <2>9, <2>10 DEF DInv
<1>10. ASSUME i # 0, l.start < e.start
       PROVE  DInv'
  <2>1. /\ i \in DOMAIN list /\ l \in Rec /\ l.mand = m /\ l.end > e.start /\ l.start < e.end
        /\ l.start \in Nat /\ l.end \in Nat
    BY <1>2, <1>3, <1>5, <1>7, <1>8, <1>10, RecFields DEF Own, Overlapping
  <2>2. PICK d : d = WithStart(e, l.end)
    OBVIOUS
  <2>3. d \in Desc /\ d.start = l.end /\ d.mand = m
    BY <1>2, <1>3, <2>1, <2>2, WithStartFacts
  <2>4. CASE is_stronger_or_equal(l, e)
    <3>1. PICK f : f = find_own(list, d, i)
      OBVIOUS
    <3>2. FrameLoop(<<d>> \o Tail(frame.todo), f, 0) /\ Edit(list, {}, pc)
      BY <1>3, <1>4, <1>8, <1>10, <2>2, <2>4, <3>1 DEF MeltBegin
    <3>3. list' = list /\ broken' = (broken \/ ~SortedByStart(list))
      BY <3>2 DEF Edit
    <3>4. ApartOK'
      BY <3>3 DEF DInv, ApartOK
    <3>5. GapOK'
      BY <1>2, <1>8, <2>1, <2>3, <3>1, <3>2, <3>3, <3>4, GapAfter
    <3>6. frame'.op = "melt"
      BY <1>0, <3>2 DEF FrameLoop, Frame
    <3>7. QED
      BY <1>1, <3>4, <3>5, <3>6, MeltRanges DEF DInv
  <2>5. CASE ~is_stronger_or_equal(l, e)
    <3>1. PICK u : u = Strengthened(Leftover(l, e.start, l.end), e)
      OBVIOUS
    <3>2. PICK v : v = Leftover(l, l.start, e.start)
      OBVIOUS
    <3>3. PICK x : x = SplitInto(list, i, u, v)
      OBVIOUS
    <3>4. PICK f : f = find_own(x.list, d, x.at)
      OBVIOUS
    <3>5. FrameLoop(<<d>> \o Tail(frame.todo), f, 0) /\ Edit(x.list, {l}, pc)
      BY <1>3, <1>4, <1>8, <1>10, <2>2, <2>5, <3>1, <3>2, <3>3, <3>4 DEF MeltBegin
    <3>6. PICK w \in Rec : /\ w = Leftover(l, e.start, l.end) /\ w.start = e.start /\ w.end = l.end
                           /\ w.mand = l.mand /\ w.waiters = {}
      BY <1>6, <2>1, LeftoverFacts
    <3>7. u \in Rec /\ u.start = e.start /\ u.end = l.end /\ u.mand = l.mand /\ u.waiters = {}
      BY <3>1, <3>6, StrengthenedFacts
    <3>8. v \in Rec /\ v.start = l.start /\ v.end = e.start /\ v.mand = l.mand /\ v.waiters = {}
      <4>1. PICK p \in Nat : p = l.start
        BY <2>1
      <4>2. PICK q \in Nat : q = e.start
        BY <1>6
      <4>3. p < q /\ v = Leftover(l, p, q)
        BY <1>10, <3>2, <4>1, <4>2
      <4>4. v \in Rec /\ v.start = p /\ v.end = q /\ v.mand = l.mand /\ v.waiters = {}
        BY <2>1, <4>3, LeftoverIs
      <4>5. QED
        BY <4>1, <4>2, <4>4
    <3>9. Within(u, list[i]) /\ Within(v, list[i]) /\ ~Clash(u, v)
      BY <1>6, <1>8, <1>10, <2>1, <3>7, <3>8 DEF Within, Clash, Overlapping
    <3>10. list' = x.list /\ broken' = (broken \/ ~SortedByStart(x.list))
      BY <3>5 DEF Edit
    <3>11. ApartOK'
      <4>1. SUFFICES ASSUME ~broken'
                     PROVE  HoleApart(x.list, 0)
        BY <3>10 DEF ApartOK
      <4>2. HoleApart(list, 0)
        BY <3>10, <4>1 DEF DInv, ApartOK
      <4>3. QED
        BY <1>0, <2>1, <3>3, <3>7, <3>8, <3>9, <4>2, SplitApart, Zenon
    <3>12. x.at \in DOMAIN x.list /\ x.list[x.at] = u
      <4>1. WaitersApart(list)
        BY DEF IInv, WaitersOK
      <4>2. QED
        BY <1>0, <2>1, <3>3, <3>7, <3>8, <4>1, SplitEdits
    <3>13. PICK h \in DOMAIN list' : h = x.at /\ list'[h] = u
      BY <3>10, <3>12
    <3>14. GapOK'
      BY <1>2, <2>1, <2>3, <3>4, <3>5, <3>7, <3>10, <3>11, <3>13, GapAfter
    <3>15. frame'.op = "melt"
      BY <1>0, <3>5 DEF FrameLoop, Frame
    <3>16. QED
      BY <1>1, <3>11, <3>14, <3>15, MeltRanges DEF DInv
  <2>6. QED
    BY <2>4, <2>5
<1>11. QED
  BY <1>9, <1>10

(***************************************************************************)
(* The space between the start of the part and the next own record is      *)
(* free, so filling it makes no records clash.                             *)
(***************************************************************************)
LEMMA GapApart ==
  ASSUME IInv, DInv, ~broken, NEW m \in Mandates, pc[m] = "melt", frame.op = "melt",
         frame.lock # 0, NEW x, x = GapFilled(frame.lock, frame.prev)
  PROVE  HoleApart(x.list, 0)
<1>0. list \in Seq(Rec) /\ SortedByStart(list) /\ HoleApart(list, 0)
  BY DEF IInv, RecordsOK, SortedOK, DInv, ApartOK
<1>1. frame # None /\ desc \in Desc /\ desc.mand = m /\ frame \in Frame
  BY MeltFacts, DescFacts
<1>2. PICK e \in Desc : e = desc
  BY <1>1
<1>3. Len(list) \in Nat /\ DOMAIN list = 1 .. Len(list) /\ \A k \in DOMAIN list : list[k] \in Rec
  BY <1>0, SeqFacts
<1>4. frame.lock \in Nat /\ frame.prev \in Nat
  BY <1>1, FrameFields
<1>5. PICK i \in DOMAIN list : i = frame.lock /\ Own(list[i], e) /\ Overlapping(list[i], e)
  <2>1. /\ frame.lock =< Len(list)
        /\ Own(list[frame.lock], desc) /\ Overlapping(list[frame.lock], desc)
    BY <1>1 DEF IInv, FrameOK
  <2>2. QED
    BY <1>2, <1>3, <1>4, <2>1
<1>6. PICK j : j = frame.prev
  OBVIOUS
<1>7. j # 0 => j \in DOMAIN list /\ list[j].mand = m /\ list[j].end = e.start
  <2>1. frame.prev =< Len(list)
    BY <1>1 DEF IInv, FrameOK
  <2>2. frame.prev # 0 => Own(list[frame.prev], desc) /\ list[frame.prev].end = desc.start
    BY <1>1 DEF IInv, FrameOK
  <2>3. QED
    BY <1>1, <1>2, <1>3, <1>4, <1>6, <2>1, <2>2 DEF Own
<1>8. PICK l \in Rec : l = list[i]
  BY <1>3
<1>9. /\ l.start \in Nat /\ l.end \in Nat /\ l.start < l.end /\ l.mand = m
      /\ l.end > e.start /\ l.start < e.end /\ e.start \in Nat /\ e.end \in Nat /\ e.mand = m
  BY <1>1, <1>2, <1>5, <1>8, RecFields, DescFields DEF Own, Overlapping
<1>10. ASSUME NEW k \in DOMAIN list, list[k].mand = m
       PROVE  list[k].end =< e.start \/ list[k].start >= l.start
  <2>1. PICK q \in Rec : q = list[k]
    BY <1>3
  <2>2. CASE ToUnlock(q, e)
    <3>1. k >= i
      BY <1>1, <1>2, <1>5, <2>1, <2>2 DEF DInv, GapOK
    <3>2. k = i \/ i < k
      BY <1>3, <3>1
    <3>3. l.start =< q.start
      BY <1>0, <1>8, <1>9, <2>1, <3>2 DEF SortedByStart
    <3>4. QED
      BY <1>9, <2>1, <3>3, RecFields
  <2>3. CASE ~ToUnlock(q, e)
    BY <1>9, <1>10, <2>1, <2>3, RecFields DEF ToUnlock, Own, Overlapping
  <2>4. QED
    BY <2>2, <2>3
<1>11. CASE l.start =< e.start
  <2>1. x = [list |-> list, at |-> i]
    BY <1>2, <1>5, <1>6, <1>8, <1>11 DEF GapFilled
  <2>2. QED
    BY <1>0, <2>1
<1>12. CASE ~(l.start =< e.start) /\ is_weaker_or_equal(l, e)
  <2>1. PICK r : r = [l EXCEPT !.start = e.start]
    OBVIOUS
  <2>2. r \in Rec /\ r.start = e.start /\ r.end = l.end /\ r.mand = l.mand
    BY <1>9, <1>12, <2>1 DEF Rec, LockRec
  <2>3. PICK s : s = [list EXCEPT ![i] = r]
    OBVIOUS
  <2>4. x = [list |-> s, at |-> i]
    BY <1>2, <1>5, <1>6, <1>8, <1>12, <2>1, <2>3 DEF GapFilled
  <2>5. HoleApart(list, i) /\ Free(list, i, l)
    BY <1>0, <1>8, HoleFree
  <2>6. Free(list, i, r)
    <3>1. SUFFICES ASSUME NEW k \in DOMAIN list, k # i
                   PROVE  ~Clash(list[k], r)
      BY DEF Free
    <3>2. PICK q \in Rec : q = list[k]
      BY <1>3
    <3>3. ~Clash(q, l)
      BY <2>5, <3>1, <3>2 DEF Free
    <3>4. q.mand = m => q.end =< e.start \/ q.start >= l.start
      BY <1>10, <3>2
    <3>5. QED
      BY <1>9, <1>12, <2>2, <3>2, <3>3, <3>4, RecFields DEF Clash, Overlapping
  <2>7. HoleApart(s, 0)
    BY <1>0, <2>2, <2>3, <2>5, <2>6, UpdateApart, Zenon
  <2>8. QED
    BY <2>4, <2>7
<1>13. CASE /\ ~(l.start =< e.start) /\ ~is_weaker_or_equal(l, e)
            /\ j # 0 /\ is_equally_strong(list[j], e)
  <2>1. PICK p \in Rec : p = list[j]
    BY <1>3, <1>7, <1>13
  <2>2. PICK r : r = [p EXCEPT !.end = l.start]
    OBVIOUS
  <2>3. j \in DOMAIN list /\ p.mand = m /\ p.end = e.start /\ p.start \in Nat /\ p.start < p.end
    BY <1>7, <1>13, <2>1, RecFields
  <2>4. r \in Rec /\ r.start = p.start /\ r.end = l.start /\ r.mand = p.mand
    BY <1>9, <1>13, <2>2, <2>3 DEF Rec, LockRec
  <2>5. PICK s : s = [list EXCEPT ![j] = r]
    OBVIOUS
  <2>6. x = [list |-> s, at |-> i]
    BY <1>2, <1>5, <1>6, <1>8, <1>13, <2>1, <2>2, <2>5 DEF GapFilled
  <2>7. HoleApart(list, j) /\ Free(list, j, p)
    BY <1>0, <2>1, <2>3, HoleFree
  <2>8. Free(list, j, r)
    <3>1. SUFFICES ASSUME NEW k \in DOMAIN list, k # j
                   PROVE  ~Clash(list[k], r)
      BY DEF Free
    <3>2. PICK q \in Rec : q = list[k]
      BY <1>3
    <3>3. ~Clash(q, p)
      BY <2>7, <3>1, <3>2 DEF Free
    <3>4. q.mand = m => q.end =< e.start \/ q.start >= l.start
      BY <1>10, <3>2
    <3>5. QED
      BY <1>9, <1>13, <2>3, <2>4, <3>2, <3>3, <3>4, RecFields DEF Clash, Overlapping
  <2>9. HoleApart(s, 0)
    BY <1>0, <2>3, <2>4, <2>5, <2>7, <2>8, UpdateApart, Zenon
  <2>10. QED
    BY <2>6, <2>9
<1>14. CASE /\ ~(l.start =< e.start) /\ ~is_weaker_or_equal(l, e)
            /\ ~(j # 0 /\ is_equally_strong(list[j], e))
  <2>1. PICK r : r = Record(WithEnd(e, l.start))
    OBVIOUS
  <2>2. r \in Rec /\ r.start = e.start /\ r.end = l.start /\ r.mand = e.mand
    <3>1. PICK d : d = WithEnd(e, l.start)
      OBVIOUS
    <3>2. /\ d.start = e.start /\ d.end = l.start /\ d.mand = e.mand /\ d.type = e.type
          /\ d.oblig = e.oblig
      BY <3>1 DEF WithEnd, Desc
    <3>3. r = [start |-> d.start, end |-> d.end, mand |-> d.mand, type |-> d.type,
               oblig |-> d.oblig, waiters |-> {}]
      BY <2>1, <3>1, Zenon DEF Record
    <3>4. QED
      BY <1>9, <1>14, <3>2, <3>3, DescFields DEF Rec, LockRec
  <2>3. PICK s : s = InsertSorted(list, r)
    OBVIOUS
  <2>4. x.list = s
    <3>1. PICK n : n = Moved(list, r, i)
      OBVIOUS
    <3>2. x = [list |-> s, at |-> n]
      BY <1>2, <1>5, <1>6, <1>8, <1>14, <2>1, <2>3, <3>1 DEF GapFilled
    <3>3. QED
      BY <3>2
  <2>5. Free(list, 0, r)
    <3>1. SUFFICES ASSUME NEW k \in DOMAIN list
                   PROVE  ~Clash(list[k], r)
      BY DEF Free
    <3>2. PICK q \in Rec : q = list[k]
      BY <1>3
    <3>3. q.mand = m => q.end =< e.start \/ q.start >= l.start
      BY <1>10, <3>2
    <3>4. QED
      BY <1>9, <2>2, <3>2, <3>3, RecFields DEF Clash, Overlapping
  <2>6. 0 \in 0 .. Len(list)
    BY <1>3
  <2>7. HoleApart(s, 0)
    BY <1>0, <2>2, <2>3, <2>5, <2>6, InsertApart
  <2>8. QED
    BY <2>4, <2>7
<1>15. QED
  BY <1>11, <1>12, <1>13, <1>14

(* The end of a turn: the record is strengthened where it stands. *)
LEMMA TurnEndApart ==
  ASSUME IInv, IInv', DInv, NEW m \in Mandates, pc[m] = "melt", UNCHANGED retracts,
         NEW y \in Seq(Rec), ~broken => HoleApart(y, 0), NEW h \in DOMAIN y, y[h].mand = m,
         NEW x, x.list = y, x.at = h, NEW F, TurnEnd(x, F)
  PROVE  DInv'
<1>1. frame # None /\ frame \in Frame /\ desc \in Desc /\ desc.mand = m
  BY MeltFacts, DescFacts
<1>2. PICK e \in Desc : e = desc
  BY <1>1
<1>3. PICK k \in Rec : k = y[h]
  BY SeqFacts
<1>4. PICK r : r = Strengthened(k, e)
  OBVIOUS
<1>5. r \in Rec /\ r.start = k.start /\ r.end = k.end /\ r.mand = k.mand
  BY <1>4, StrengthenedFacts
<1>6. PICK s : s = [y EXCEPT ![h] = r]
  OBVIOUS
<1>7. PICK d : d = WithStart(desc, s[h].end)
  OBVIOUS
<1>8. PICK f : f = IF d.start >= d.end THEN 0 ELSE find_own(s, d, h)
  OBVIOUS
<1>9. FrameLoop(<<d>> \o Tail(frame.todo), f, h) /\ Edit(s, F, pc)
  <2>1. s = [y EXCEPT ![h] = Strengthened(@, desc)]
    BY <1>2, <1>3, <1>4, <1>6
  <2>2. QED
    BY <1>7, <1>8, <2>1, Zenon DEF TurnEnd
<1>10. list' = s /\ broken' = (broken \/ ~SortedByStart(s))
  BY <1>9 DEF Edit
<1>11. DOMAIN s = DOMAIN y /\ s[h] = r
  BY <1>6
<1>12. ApartOK'
  <2>1. SUFFICES ASSUME ~broken'
                 PROVE  HoleApart(s, 0)
    BY <1>10 DEF ApartOK
  <2>2. HoleApart(y, 0)
    BY <1>10, <2>1
  <2>3. HoleApart(y, h) /\ Free(y, h, k)
    BY <1>3, <2>2, HoleFree
  <2>4. Within(r, k)
    BY <1>5, RecFields DEF Within
  <2>5. Free(y, h, r)
    BY <1>5, <2>3, <2>4, FreeWithin
  <2>6. QED
    BY <1>5, <1>6, <2>3, <2>5, UpdateApart, Zenon
<1>13. d \in Desc /\ d.start = r.end /\ d.mand = m
  <2>1. r.end \in Nat
    BY <1>5, RecFields
  <2>2. PICK b \in Nat : b = r.end
    BY <2>1
  <2>3. d = WithStart(e, b)
    BY <1>2, <1>7, <1>11, <2>2
  <2>4. d \in Desc /\ d.start = b /\ d.mand = e.mand
    BY <2>3, WithStartFacts, SMTT(30)
  <2>5. QED
    BY <1>1, <1>2, <2>2, <2>4
<1>14. GapOK'
  <2>1. h \in DOMAIN list' /\ list'[h].end = d.start /\ list'[h].mand = d.mand
    BY <1>3, <1>5, <1>10, <1>11, <1>13
  <2>2. f = find_own(list', d, h) \/ (d.start >= d.end /\ f = 0)
    BY <1>8, <1>10
  <2>3. QED
    BY <1>1, <1>9, <1>12, <1>13, <2>1, <2>2, GapAfter
<1>15. frame'.op = "melt"
  BY <1>1, <1>9 DEF FrameLoop, Frame
<1>16. QED
  BY <1>12, <1>14, <1>15, MeltRanges DEF DInv

(* A turn of melt_lock_into_list. *)
LEMMA TurnApart ==
  ASSUME IInv, IInv', DInv, NEW m \in Mandates, MeltTurn(m)
  PROVE  DInv'
<1>1. pc[m] = "melt" /\ frame.op = "melt" /\ frame.lock # 0 /\ UNCHANGED retracts
  BY DEF MeltTurn
<1>2. frame # None /\ desc \in Desc /\ desc.mand = m
  BY <1>1, MeltFacts, DescFacts
<1>3. PICK e \in Desc : e = desc
  BY <1>2
<1>4. PICK x : x = GapFilled(frame.lock, frame.prev)
  OBVIOUS
<1>5. PICK i \in DOMAIN list : Filled(list, x.list, x.at, desc, list[i].waiters)
  BY <1>1, <1>4, GapFacts, Zenon
<1>6. PICK z \in Seq(Rec) : z = x.list /\ WaitersApart(z)
  BY <1>5 DEF Filled, Edited
<1>7. PICK k \in DOMAIN z : k = x.at
  BY <1>5, <1>6 DEF Filled
<1>8. z[k].mand = m /\ z[k].start < e.end
  BY <1>2, <1>3, <1>5, <1>6, <1>7 DEF Filled
<1>9. PICK l \in Rec : l = z[k]
  BY SeqFacts
<1>10. l.start \in Nat /\ l.end \in Nat /\ l.start < l.end /\ e.start \in Nat /\ e.end \in Nat
  BY RecFields, DescFields
<1>11. ~broken => HoleApart(z, 0)
  BY <1>1, <1>4, <1>6, GapApart
<1>12. CASE ~(l.end > e.end /\ ~is_stronger_or_equal(l, e))
  <2>1. TurnEnd(x, {})
    <3>1. ~(x.list[x.at].end > desc.end /\ ~is_stronger_or_equal(x.list[x.at], desc))
      BY <1>3, <1>6, <1>7, <1>9, <1>12, Zenon
    <3>2. QED
      BY <1>4, <3>1, Zenon DEF MeltTurn
  <2>2. QED
    BY <1>1, <1>6, <1>7, <1>8, <1>11, <2>1, TurnEndApart
<1>13. CASE l.end > e.end /\ ~is_stronger_or_equal(l, e)
  <2>1. PICK u : u = Leftover(l, l.start, e.end)
    OBVIOUS
  <2>2. PICK v : v = Leftover(l, e.end, l.end)
    OBVIOUS
  <2>3. PICK w : w = SplitInto(z, k, u, v)
    OBVIOUS
  <2>4. TurnEnd(w, {l})
    <3>1. x.list[x.at].end > desc.end /\ ~is_stronger_or_equal(x.list[x.at], desc)
      BY <1>3, <1>6, <1>7, <1>9, <1>13, Zenon
    <3>2. /\ l = x.list[x.at]
          /\ w = SplitInto(x.list, x.at, Leftover(l, l.start, desc.end),
                           Leftover(l, desc.end, l.end))
      BY <1>3, <1>6, <1>7, <1>9, <2>1, <2>2, <2>3, Zenon
    <3>3. QED
      BY <1>4, <3>1, <3>2, Zenon DEF MeltTurn
  <2>5. PICK p \in Nat : p = l.start
    BY <1>10
  <2>6. PICK q \in Nat : q = e.end
    BY <1>10
  <2>7. PICK b \in Nat : b = l.end
    BY <1>10
  <2>8. p < q /\ q < b /\ u = Leftover(l, p, q) /\ v = Leftover(l, q, b)
    BY <1>8, <1>9, <1>13, <2>1, <2>2, <2>5, <2>6, <2>7
  <2>9. u \in Rec /\ u.start = p /\ u.end = q /\ u.mand = l.mand /\ u.waiters = {}
    BY <2>8, LeftoverIs
  <2>10. v \in Rec /\ v.start = q /\ v.end = b /\ v.mand = l.mand /\ v.waiters = {}
    BY <2>8, LeftoverIs
  <2>11. Within(u, z[k]) /\ Within(v, z[k]) /\ ~Clash(u, v)
    BY <1>9, <2>5, <2>7, <2>8, <2>9, <2>10 DEF Within, Clash, Overlapping
  <2>12. w.at \in DOMAIN w.list /\ w.list[w.at] = u /\ w.list \in Seq(Rec)
    <3>1. /\ Edited(z, w.list, z[k].waiters)
          /\ w.at \in DOMAIN w.list /\ w.list[w.at] = u
      BY <1>6, <2>3, <2>9, <2>10, SplitEdits, SMTT(30)
    <3>2. QED
      BY <3>1 DEF Edited
  <2>13. ~broken => HoleApart(w.list, 0)
    BY <1>6, <1>11, <2>3, <2>9, <2>10, <2>11, SplitApart
  <2>14. PICK y \in Seq(Rec) : y = w.list
    BY <2>12
  <2>15. PICK h \in DOMAIN y : h = w.at /\ y[h].mand = m
    BY <1>8, <1>9, <2>9, <2>12, <2>14
  <2>16. QED
    BY <1>1, <2>4, <2>13, <2>14, <2>15, TurnEndApart
<1>14. QED
  BY <1>12, <1>13

(* The rest of a part is put into the list: no own record is in its way. *)
LEMMA EndApart ==
  ASSUME IInv, IInv', DInv, NEW m \in Mandates, MeltEnd(m)
  PROVE  DInv'
<1>0. list \in Seq(Rec)
  BY DEF IInv, RecordsOK
<1>1. pc[m] = "melt" /\ frame.op = "melt" /\ frame.lock = 0 /\ UNCHANGED retracts
  BY DEF MeltEnd
<1>2. frame # None /\ frame \in Frame /\ desc \in Desc /\ desc.mand = m
  BY <1>1, MeltFacts, DescFacts
<1>3. PICK s : s = IF desc.start < desc.end THEN InsertSorted(list, Record(desc)) ELSE list
  OBVIOUS
<1>4. list' = s /\ broken' = (broken \/ ~SortedByStart(s)) /\ (frame' = None \/ frame'.op = "begin")
  BY <1>2, <1>3 DEF MeltEnd, Edit, Frame
<1>5. ASSUME ~broken
      PROVE  HoleApart(s, 0)
  <2>1. HoleApart(list, 0) /\ \A k \in DOMAIN list : ~ToUnlock(list[k], desc)
    BY <1>1, <1>2, <1>5 DEF DInv, ApartOK, GapOK
  <2>2. CASE ~(desc.start < desc.end)
    BY <1>3, <2>1, <2>2
  <2>3. CASE desc.start < desc.end
    <3>1. PICK e \in Desc : e = desc
      BY <1>2
    <3>2. PICK r : r = Record(e)
      OBVIOUS
    <3>3. r \in Rec /\ r.start = e.start /\ r.end = e.end /\ r.mand = e.mand
      BY <2>3, <3>1, <3>2, DescFields DEF Record, Rec, LockRec
    <3>4. Free(list, 0, r)
      BY <2>1, <3>1, <3>3 DEF Free, Clash, ToUnlock, Own, Overlapping
    <3>5. 0 \in 0 .. Len(list)
      BY <1>0
    <3>6. s = InsertSorted(list, r)
      BY <1>3, <2>3, <3>1, <3>2
    <3>7. QED
      BY <1>0, <2>1, <3>3, <3>4, <3>5, <3>6, InsertApart
  <2>4. QED
    BY <2>2, <2>3
<1>6. ApartOK'
  BY <1>4, <1>5 DEF ApartOK
<1>7. GapOK'
  BY <1>4 DEF GapOK
<1>8. RangesOK'
  BY <1>1, <1>4, MeltRanges
<1>9. QED
  BY <1>6, <1>7, <1>8 DEF DInv

(* An $unlock of a region begins. *)
LEMMA UnlockBeginsApart ==
  ASSUME IInv, DInv, NEW m \in Mandates, NEW r \in Nat \X Nat, r[1] < r[2], UnlockBegin(m, r),
         retracts' \subseteq retracts
  PROVE  DInv'
<1>1. PICK d : d = UnlockDesc(m, r)
  OBVIOUS
<1>2. d.start = r[1] /\ d.end = r[2]
  BY <1>1 DEF UnlockDesc, MkDesc
<1>3. UNCHANGED <<list, broken>> /\ frame'.op = "unlock" /\ frame'.todo = <<d>>
  BY <1>1 DEF UnlockBegin
<1>4. desc' = d
  BY <1>3 DEF desc
<1>5. ApartOK' /\ GapOK'
  BY <1>3 DEF DInv, ApartOK, GapOK
<1>6. RangesOK'
  BY <1>2, <1>4 DEF DInv, RangesOK
<1>7. QED
  BY <1>5, <1>6 DEF DInv

(* The list of a walk, but for the record at work, is without clashes. *)
HoleOK(x) == x.list \in Seq(Rec) /\ x.i \in DOMAIN x.list /\ HoleApart(x.list, x.i)
FreeIn(x, r) == Free(x.list, x.i, r)

(* A leftover is put back. *)
LEMMA AddingApart ==
  ASSUME NEW x, HoleOK(x), NEW r \in Rec, FreeIn(x, r), NEW y, y = Adding(x, r)
  PROVE  HoleOK(y) /\ \A q \in Rec : FreeIn(x, q) /\ ~Clash(r, q) => FreeIn(y, q)
<1>1. PICK s \in Seq(Rec) : s = x.list
  BY DEF HoleOK
<1>2. PICK i \in DOMAIN s : i = x.i
  BY <1>1 DEF HoleOK
<1>3. Len(s) \in Nat /\ DOMAIN s = 1 .. Len(s) /\ i \in 0 .. Len(s) /\ i # 0
  BY SeqFacts
<1>4. HoleApart(s, i) /\ Free(s, i, r)
  BY <1>1, <1>2 DEF HoleOK, FreeIn
<1>5. PICK t : t = InsertSorted(s, r)
  OBVIOUS
<1>6. PICK j : j = Moved(s, r, i)
  OBVIOUS
<1>7. y.list = t /\ y.i = j
  BY <1>1, <1>2, <1>5, <1>6 DEF Adding
<1>8. /\ t \in Seq(Rec) /\ j \in 0 .. Len(t) /\ j # 0 /\ HoleApart(t, j)
      /\ \A q \in Rec : Free(s, i, q) /\ ~Clash(r, q) => Free(t, j, q)
  BY <1>3, <1>4, <1>5, <1>6, InsertApart, Zenon
<1>9. j \in DOMAIN t
  BY <1>8
<1>10. QED
  BY <1>1, <1>2, <1>7, <1>8, <1>9, Zenon DEF HoleOK, FreeIn

(* A turn of $unlock: a record gives way to its leftovers. *)
LEMMA UnlockTurnApart ==
  ASSUME IInv, IInv', DInv, UnlockTurn
  PROVE  DInv'
<1>0. list \in Seq(Rec)
  BY DEF IInv, RecordsOK
<1>1. frame # None /\ frame.op = "unlock" /\ frame.lock # 0 /\ UNCHANGED retracts
  BY DEF UnlockTurn
<1>2. frame \in Frame /\ desc \in Desc
  BY <1>1, DescFacts
<1>3. Len(list) \in Nat /\ DOMAIN list = 1 .. Len(list) /\ \A k \in DOMAIN list : list[k] \in Rec
  BY <1>0, SeqFacts
<1>4. PICK f \in DOMAIN list : f = frame.lock /\ ToUnlock(list[f], desc)
  <2>1. frame.lock =< Len(list) /\ frame.lock \in Nat
    BY <1>1, <1>2, FrameFields DEF IInv, FrameOK
  <2>2. Own(list[frame.lock], desc) /\ Overlapping(list[frame.lock], desc)
    BY <1>1 DEF IInv, FrameOK
  <2>3. QED
    BY <1>1, <1>3, <2>1, <2>2 DEF ToUnlock
<1>5. PICK l \in Rec : l = list[f]
  BY <1>3
<1>6. PICK d \in Desc : d = desc /\ d.start < d.end
  BY <1>1, <1>2 DEF DInv, RangesOK, Unlocking
<1>7. PICK x0 : x0 = [list |-> list, i |-> f, j |-> f + 1]
  OBVIOUS
<1>8. PICK x1 : x1 = AddingBelow(x0, l)
  OBVIOUS
<1>9. PICK x2 : x2 = AddingAbove(x1, l)
  OBVIOUS
<1>10. PICK s : s = RemoveAt(x2.list, x2.i)
  OBVIOUS
<1>11. Edit(s, {l}, pc) /\ frame'.op = "unlock" /\ frame'.todo = frame.todo
  <2>1. /\ Edit(s, {l}, pc)
        /\ frame' = [frame EXCEPT !.lock = IF frame.lock = Len(list) THEN 0
                                           ELSE find_own(s, desc, x2.j - 1)]
    BY <1>4, <1>5, <1>7, <1>8, <1>9, <1>10 DEF UnlockTurn
  <2>2. QED
    BY <1>1, <1>2, <2>1 DEF Frame
<1>12. list' = s /\ broken' = (broken \/ ~SortedByStart(s)) /\ desc' = desc
  BY <1>11 DEF Edit, desc
<1>13. /\ l.start \in Nat /\ l.end \in Nat /\ l.start < l.end /\ d.start \in Nat /\ d.end \in Nat
       /\ l.end > d.start /\ l.start < d.end
  BY <1>4, <1>5, <1>6, RecFields, DescFields DEF ToUnlock, Overlapping
<1>14. ASSUME ~broken
       PROVE  HoleApart(s, 0)
  <2>1. HoleApart(list, 0)
    BY <1>14 DEF DInv, ApartOK
  <2>2. HoleOK(x0) /\ FreeIn(x0, l)
    <3>1. HoleApart(list, f) /\ Free(list, f, l)
      BY <1>0, <1>5, <2>1, HoleFree
    <3>2. x0.list = list /\ x0.i = f
      BY <1>7
    <3>3. QED
      BY <1>0, <3>1, <3>2, Zenon DEF HoleOK, FreeIn
  <2>3. \A q \in Rec : Within(q, l) => FreeIn(x0, q)
    BY <2>2, FreeWithin, Zenon DEF HoleOK, FreeIn
  <2>4. /\ HoleOK(x1)
        /\ \A q \in Rec : Within(q, l) /\ q.start >= d.end => FreeIn(x1, q)
    <3>1. CASE l.start < d.start
      <4>1. PICK p \in Nat : p = l.start
        BY <1>13
      <4>2. PICK b \in Nat : b = d.start
        BY <1>13
      <4>3. PICK u : u = Leftover(l, p, b)
        OBVIOUS
      <4>4. u \in Rec /\ u.start = p /\ u.end = b /\ u.mand = l.mand
        BY <3>1, <4>1, <4>2, <4>3, LeftoverIs
      <4>5. x1 = Adding(x0, u)
        BY <1>6, <1>8, <3>1, <4>1, <4>2, <4>3, Zenon DEF AddingBelow
      <4>6. Within(u, l)
        BY <1>13, <4>1, <4>2, <4>4 DEF Within
      <4>7. HoleOK(x1) /\ \A q \in Rec : FreeIn(x0, q) /\ ~Clash(u, q) => FreeIn(x1, q)
        BY <2>2, <2>3, <4>4, <4>5, <4>6, AddingApart, Zenon
      <4>8. \A q \in Rec : q.start >= d.end => ~Clash(u, q)
        BY <1>6, <1>13, <4>2, <4>4, RecFields DEF Clash, Overlapping
      <4>9. QED
        BY <2>3, <4>7, <4>8, Zenon
    <3>2. CASE ~(l.start < d.start)
      <4>1. x1 = x0
        BY <1>6, <1>8, <3>2, Zenon DEF AddingBelow
      <4>2. QED
        BY <2>2, <2>3, <4>1, Zenon
    <3>3. QED
      BY <3>1, <3>2
  <2>5. HoleOK(x2)
    <3>1. CASE l.end > d.end
      <4>1. PICK p \in Nat : p = d.end
        BY <1>13
      <4>2. PICK b \in Nat : b = l.end
        BY <1>13
      <4>3. PICK v : v = Leftover(l, p, b)
        OBVIOUS
      <4>4. v \in Rec /\ v.start = p /\ v.end = b /\ v.mand = l.mand
        BY <3>1, <4>1, <4>2, <4>3, LeftoverIs
      <4>5. x2 = Adding(x1, v)
        BY <1>6, <1>9, <3>1, <4>1, <4>2, <4>3, Zenon DEF AddingAbove
      <4>6. Within(v, l) /\ v.start >= d.end
        BY <1>13, <4>1, <4>2, <4>4 DEF Within
      <4>7. QED
        BY <2>4, <4>4, <4>5, <4>6, AddingApart, Zenon
    <3>2. CASE ~(l.end > d.end)
      <4>1. x2 = x1
        BY <1>6, <1>9, <3>2, Zenon DEF AddingAbove
      <4>2. QED
        BY <2>4, <4>1
    <3>3. QED
      BY <3>1, <3>2
  <2>6. QED
    BY <1>10, <2>5, RemoveApart, Zenon DEF HoleOK
<1>15. ApartOK'
  BY <1>12, <1>14 DEF ApartOK
<1>16. GapOK'
  BY <1>11 DEF GapOK
<1>17. RangesOK'
  BY <1>1, <1>6, <1>12 DEF DInv, RangesOK
<1>18. QED
  BY <1>15, <1>16, <1>17 DEF DInv

(* Every step keeps the records of a mandate apart. *)
LEMMA StepApart ==
  ASSUME IInv, IInv', DInv, [Next]_vars
  PROVE  DInv'
<1>1. CASE UNCHANGED vars
  BY <1>1, SameApart DEF vars
<1>2. ASSUME NEW m \in Mandates, NEW r \in Requests, NEW y \in Types, NEW a \in Actions,
             CallLock(m, r, y, a)
      PROVE  DInv'
  BY <1>2, SameApart DEF CallLock
<1>3. ASSUME NEW m \in Mandates, LockNothing(m) \/ LockVoid(m) \/ LockGranted(m)
      PROVE  DInv'
  BY <1>3, SameApart DEF LockNothing, LockVoid, LockGranted
<1>4. ASSUME NEW m \in Mandates, lock_op(m)
      PROVE  DInv'
  BY <1>3, <1>4, SleepsApart, BeginApart, TurnApart, EndApart, Zenon DEF lock_op
<1>5. ASSUME NEW m \in Mandates, SpuriousWakeup(m)
      PROVE  DInv'
  BY <1>5, WakesApart
<1>6. ASSUME NEW m \in Mandates, NEW r \in UnlockRegions, CallUnlock(m, r)
      PROVE  DInv'
  <2>1. r \in Nat \X Nat
    BY MandAssumption
  <2>2. UnlockBegin(m, r) /\ retracts' \subseteq retracts
    BY <1>6 DEF CallUnlock
  <2>3. PICK a \in r[1] .. (r[2] - 1) : TRUE
    BY <1>6 DEF CallUnlock
  <2>4. r[1] < r[2]
    BY <2>1, <2>3
  <2>5. QED
    BY <2>1, <2>2, <2>4, UnlockBeginsApart
<1>7. ASSUME NEW r \in retracts, AnswerRetract(r)
      PROVE  DInv'
  <2>1. r.mand \in Mandates /\ r.start \in Nat /\ r.end \in Nat /\ r.start < r.end
    BY DEF IInv, TypeOK, DInv, RangesOK
  <2>2. PICK p : p = <<r.start, r.end>>
    OBVIOUS
  <2>3. p \in Nat \X Nat /\ p[1] < p[2]
    BY <2>1, <2>2
  <2>4. UnlockBegin(r.mand, p) /\ retracts' \subseteq retracts
    BY <1>7, <2>2 DEF AnswerRetract
  <2>5. QED
    BY <2>1, <2>3, <2>4, UnlockBeginsApart
<1>8. ASSUME unlock_op
      PROVE  DInv'
  <2>1. CASE UnlockTurn
    BY <2>1, UnlockTurnApart
  <2>2. CASE UnlockEnd
    BY <2>2, SameApart DEF UnlockEnd
  <2>3. QED
    BY <1>8, <2>1, <2>2 DEF unlock_op
<1>9. QED
  BY <1>1, <1>2, <1>4, <1>5, <1>6, <1>7, <1>8, Zenon DEF Next

(***************************************************************************)
(* As long as lock_mand's list is in order, the records of a mandate never *)
(* overlap, whatever melt_lock_into_list splits, stretches and strengthens *)
(* and $unlock puts back: what print_lock_list tests in debug builds.      *)
(***************************************************************************)
THEOREM OwnRecordsApart == Spec => []OwnDisjoint
<1>1. Init => DInv
  <2>1. HAVE Init
  <2>2. list = << >> /\ frame = None /\ retracts = {}
    BY <2>1 DEF Init
  <2>3. DOMAIN list = {}
    BY <2>2
  <2>4. QED
    BY <2>2, <2>3 DEF DInv, ApartOK, HoleApart, GapOK, RangesOK, Unlocking
<1>2. IInv /\ IInv' /\ DInv /\ [Next]_vars => DInv'
  BY StepApart
<1>3. IInv /\ DInv => OwnDisjoint
  <2>1. SUFFICES ASSUME IInv, HoleApart(list, 0), NEW i \in DOMAIN list, NEW j \in DOMAIN list,
                        i # j, Own(list[i], list[j])
                 PROVE  ~Overlapping(list[i], list[j])
    BY DEF DInv, ApartOK, OwnDisjoint
  <2>2. i # 0 /\ j # 0
    BY SeqFacts DEF IInv, RecordsOK
  <2>3. QED
    BY <2>1, <2>2, Zenon DEF HoleApart, Clash, Own
<1>4. QED
  BY <1>1, <1>2, <1>3, Invariant, PTL DEF Spec
==============================================================================
