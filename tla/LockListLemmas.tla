--------------------------- MODULE LockListLemmas ----------------------------
(***************************************************************************)
(* What the proofs about lock_mutex and lock_mand need to know of the list *)
(* of LockList: linking a record in at its place and taking one out keep   *)
(* every other record and the order, and in a list in order the search of  *)
(* find_next_lock_from misses no overlapping record, although it stops     *)
(* early.                                                                  *)
(***************************************************************************)
EXTENDS LockList, TLAPS, WellFoundedInduction

(* First picks the least member of a set of positions. *)
LEMMA FirstIsLeast ==
  ASSUME NEW S, S \subseteq Nat, S # {}
  PROVE  First(S) \in S /\ \A j \in S : First(S) =< j
<1>1. PICK x \in S : \A y \in S : ~(<<y, x>> \in OpToRel(<, Nat))
  BY WFMin, NatLessThanWellFounded, Zenon
<1>2. \A y \in S : x =< y
  <2>1. TAKE y \in S
  <2>2. x \in Nat /\ y \in Nat
    OBVIOUS
  <2>3. ~(y < x)
    BY <1>1, <2>2, Zenon DEF OpToRel
  <2>4. QED
    BY <2>2, <2>3
<1>3. QED
  BY <1>2 DEF First

(* A set of natural numbers with an upper bound has a greatest member. *)
LEMMA GreatestExists ==
  ASSUME NEW S, S \subseteq Nat, S # {}, NEW b \in Nat, \A x \in S : x =< b
  PROVE  \E x \in S : \A y \in S : y =< x
<1> DEFINE T == {k \in Nat : b - k \in S}
<1>1. PICK x \in S : TRUE
  OBVIOUS
<1>2. b - x \in T
  BY x \in Nat, x =< b, b - (b - x) = x
<1>3. T \subseteq Nat /\ T # {}
  BY <1>2
<1> HIDE DEF T
<1>4. First(T) \in T /\ \A j \in T : First(T) =< j
  BY <1>3, FirstIsLeast
<1> USE DEF T
<1>5. PICK f \in Nat : b - f \in S /\ \A j \in T : f =< j
  BY <1>4
<1>6. \A y \in S : y =< b - f
  <2>1. TAKE y \in S
  <2>2. y \in Nat /\ y =< b /\ b - (b - y) = y
    OBVIOUS
  <2>3. b - y \in T
    BY <2>2
  <2>4. QED
    BY <2>2, <2>3, <1>5
<1>7. QED
  BY <1>5, <1>6

------------------------------------------------------------------------------
(* InsertAt, position by position. *)
LEMMA InsertAtFacts ==
  ASSUME NEW S, NEW s \in Seq(S), NEW p \in 1 .. (Len(s) + 1), NEW e \in S
  PROVE  /\ InsertAt(s, p, e) \in Seq(S)
         /\ Len(InsertAt(s, p, e)) = Len(s) + 1
         /\ \A k \in 1 .. (Len(s) + 1) :
              InsertAt(s, p, e)[k] = IF k < p THEN s[k] ELSE IF k = p THEN e ELSE s[k - 1]
<1> DEFINE a == SubSeq(s, 1, p - 1)  c == SubSeq(s, p, Len(s))
<1>1. a \in Seq(S) /\ Len(a) = p - 1 /\ \A k \in 1 .. (p - 1) : a[k] = s[k]
  OBVIOUS
<1>2. c \in Seq(S) /\ Len(c) = Len(s) - p + 1 /\ \A k \in 1 .. (Len(s) - p + 1) : c[k] = s[p + k - 1]
  OBVIOUS
<1> HIDE DEF a, c
<1>3. <<e>> \in Seq(S) /\ Len(<<e>>) = 1 /\ <<e>>[1] = e
  OBVIOUS
<1> DEFINE b == a \o <<e>>
<1>4. b \in Seq(S) /\ Len(b) = p /\ \A k \in 1 .. p : b[k] = IF k < p THEN s[k] ELSE e
  BY <1>1, <1>3
<1> HIDE DEF b
<1> DEFINE r == b \o c
<1>5. r \in Seq(S) /\ Len(r) = Len(s) + 1
  BY <1>2, <1>4
<1>6. \A k \in 1 .. (Len(s) + 1) : r[k] = IF k =< p THEN b[k] ELSE c[k - p]
  BY <1>2, <1>4
<1> HIDE DEF r
<1>7. \A k \in 1 .. (Len(s) + 1) : r[k] = IF k < p THEN s[k] ELSE IF k = p THEN e ELSE s[k - 1]
  <2>1. TAKE k \in 1 .. (Len(s) + 1)
  <2>2. CASE k =< p
    BY <2>2, <1>4, <1>6
  <2>3. CASE k > p
    <3>1. k - p \in 1 .. (Len(s) - p + 1) /\ p + (k - p) - 1 = k - 1
      BY <2>3
    <3>2. QED
      BY <2>3, <3>1, <1>2, <1>6
  <2>4. QED
    BY <2>2, <2>3
<1>8. QED
  BY <1>5, <1>7, Zenon DEF InsertAt, r, b, a, c

(* RemoveAt, position by position. *)
LEMMA RemoveAtFacts ==
  ASSUME NEW S, NEW s \in Seq(S), NEW p \in 1 .. Len(s)
  PROVE  /\ RemoveAt(s, p) \in Seq(S)
         /\ Len(RemoveAt(s, p)) = Len(s) - 1
         /\ \A k \in 1 .. (Len(s) - 1) :
              RemoveAt(s, p)[k] = IF k < p THEN s[k] ELSE s[k + 1]
<1> DEFINE a == SubSeq(s, 1, p - 1)  c == SubSeq(s, p + 1, Len(s))
<1>1. a \in Seq(S) /\ Len(a) = p - 1 /\ \A k \in 1 .. (p - 1) : a[k] = s[k]
  OBVIOUS
<1>2. c \in Seq(S) /\ Len(c) = Len(s) - p /\ \A k \in 1 .. (Len(s) - p) : c[k] = s[p + k]
  OBVIOUS
<1> HIDE DEF a, c
<1> DEFINE r == a \o c
<1>3. r \in Seq(S) /\ Len(r) = Len(s) - 1
  BY <1>1, <1>2
<1>4. \A k \in 1 .. (Len(s) - 1) : r[k] = IF k < p THEN a[k] ELSE c[k - p + 1]
  BY <1>1, <1>2
<1> HIDE DEF r
<1>5. \A k \in 1 .. (Len(s) - 1) : r[k] = IF k < p THEN s[k] ELSE s[k + 1]
  <2>1. TAKE k \in 1 .. (Len(s) - 1)
  <2>2. CASE k < p
    BY <2>2, <1>1, <1>4
  <2>3. CASE k >= p
    <3>1. k - p + 1 \in 1 .. (Len(s) - p) /\ p + (k - p + 1) = k + 1
      BY <2>3
    <3>2. QED
      BY <2>3, <3>1, <1>2, <1>4
  <2>4. QED
    BY <2>2, <2>3
<1>6. QED
  BY <1>3, <1>5, Zenon DEF RemoveAt, r, a, c

------------------------------------------------------------------------------
(* A record finds its place inside the list, behind all that start earlier. *)
LEMMA PlaceInList ==
  ASSUME NEW s, Len(s) \in Nat, NEW l
  PROVE  /\ PlaceOf(s, l) \in 1 .. (Len(s) + 1)
         /\ PlaceOf(s, l) = Len(s) + 1 \/ s[PlaceOf(s, l)].start >= l.start
         /\ \A k \in 1 .. (PlaceOf(s, l) - 1) : ~(s[k].start >= l.start)
<1> DEFINE P == {k \in 1 .. (Len(s) + 1) : k = Len(s) + 1 \/ s[k].start >= l.start}
<1>1. P \subseteq Nat /\ P # {}
  <2>1. Len(s) + 1 \in P
    OBVIOUS
  <2>2. QED
    BY <2>1
<1>2. First(P) \in P /\ \A j \in P : First(P) =< j
  <2> HIDE DEF P
  <2>1. QED
    BY <1>1, FirstIsLeast
<1>3. PICK f \in P : f = PlaceOf(s, l) /\ \A j \in P : f =< j
  BY <1>2, Zenon DEF PlaceOf
<1>4. \A k \in 1 .. (f - 1) : k \in 1 .. (Len(s) + 1) /\ k \notin P /\ k # Len(s) + 1
  BY <1>3
<1>5. QED
  BY <1>3, <1>4

(* Linking in, position by position. *)
LEMMA InsertSortedFacts ==
  ASSUME NEW S, NEW s \in Seq(S), NEW l \in S
  PROVE  /\ InsertSorted(s, l) \in Seq(S)
         /\ Len(InsertSorted(s, l)) = Len(s) + 1
         /\ \A k \in 1 .. (Len(s) + 1) :
              InsertSorted(s, l)[k] = IF k < PlaceOf(s, l) THEN s[k]
                                      ELSE IF k = PlaceOf(s, l) THEN l ELSE s[k - 1]
<1>1. Len(s) \in Nat
  OBVIOUS
<1>2. PICK p \in 1 .. (Len(s) + 1) : p = PlaceOf(s, l)
  BY <1>1, PlaceInList, Zenon
<1>3. /\ InsertAt(s, p, l) \in Seq(S)
      /\ Len(InsertAt(s, p, l)) = Len(s) + 1
      /\ \A k \in 1 .. (Len(s) + 1) :
           InsertAt(s, p, l)[k] = IF k < p THEN s[k] ELSE IF k = p THEN l ELSE s[k - 1]
  BY InsertAtFacts, SMTT(30)
<1>4. InsertSorted(s, l) = InsertAt(s, p, l)
  BY <1>2, Zenon DEF InsertSorted
<1>5. QED
  BY <1>2, <1>3, <1>4, Zenon

(* The records of a list. *)
Starts(S) == \A r \in S : r.start \in Int

(* Linking a record in at its place keeps the list in order. *)
LEMMA InsertKeepsOrder ==
  ASSUME NEW S, Starts(S), NEW s \in Seq(S), NEW l \in S, SortedByStart(s)
  PROVE  SortedByStart(InsertSorted(s, l))
<1> DEFINE p == PlaceOf(s, l)  r == InsertSorted(s, l)
<1>1. Len(s) \in Nat /\ DOMAIN s = 1 .. Len(s) /\ \A k \in 1 .. Len(s) : s[k].start \in Int
  BY DEF Starts
<1>2. l.start \in Int
  BY DEF Starts
<1>3. /\ p \in 1 .. (Len(s) + 1)
      /\ p = Len(s) + 1 \/ s[p].start >= l.start
      /\ \A k \in 1 .. (p - 1) : ~(s[k].start >= l.start)
  BY <1>1, PlaceInList, Zenon
<1>4. /\ r \in Seq(S) /\ Len(r) = Len(s) + 1
      /\ \A k \in 1 .. (Len(s) + 1) : r[k] = IF k < p THEN s[k] ELSE IF k = p THEN l ELSE s[k - 1]
  BY InsertSortedFacts, Zenon
<1> HIDE DEF p, r
<1>5. DOMAIN r = 1 .. (Len(s) + 1)
  BY <1>4
<1>6. SUFFICES ASSUME NEW i \in 1 .. (Len(s) + 1), NEW j \in 1 .. (Len(s) + 1), i < j
               PROVE  r[i].start =< r[j].start
  BY <1>5 DEF SortedByStart, r
<1>7. \A m, n \in 1 .. Len(s) : m < n => s[m].start =< s[n].start
  BY <1>1 DEF SortedByStart
<1>8. CASE j < p
  <2>1. i \in 1 .. Len(s) /\ j \in 1 .. Len(s)
    BY <1>1, <1>3, <1>6, <1>8
  <2>2. QED
    BY <2>1, <1>3, <1>4, <1>6, <1>7, <1>8
<1>9. CASE j = p
  <2>1. i \in 1 .. Len(s) /\ i \in 1 .. (p - 1)
    BY <1>1, <1>3, <1>6, <1>9
  <2>2. r[i] = s[i] /\ r[j] = l
    BY <2>1, <1>3, <1>4, <1>6, <1>9
  <2>3. QED
    BY <2>1, <2>2, <1>1, <1>2, <1>3
<1>10. CASE j > p /\ i = p
  <2>1. j - 1 \in 1 .. Len(s) /\ p \in 1 .. Len(s) /\ (p < j - 1 \/ p = j - 1)
    BY <1>1, <1>3, <1>6, <1>10
  <2>2. r[i] = l /\ r[j] = s[j - 1]
    BY <1>3, <1>4, <1>6, <1>10
  <2>3. s[p].start =< s[j - 1].start
    BY <2>1, <1>1, <1>7
  <2>4. s[p].start >= l.start
    BY <2>1, <1>3
  <2>5. QED
    BY <2>1, <2>2, <2>3, <2>4, <1>1, <1>2
<1>11. CASE j > p /\ i < p
  <2>1. i \in 1 .. Len(s) /\ j - 1 \in 1 .. Len(s) /\ i < j - 1 + 1 /\ i =< j - 1
    BY <1>1, <1>3, <1>6, <1>11
  <2>2. r[i] = s[i] /\ r[j] = s[j - 1]
    BY <1>3, <1>4, <1>6, <1>11
  <2>3. s[i].start =< s[j - 1].start
    BY <2>1, <1>1, <1>7
  <2>4. QED
    BY <2>2, <2>3
<1>12. CASE i > p
  <2>1. i - 1 \in 1 .. Len(s) /\ j - 1 \in 1 .. Len(s) /\ i - 1 < j - 1
    BY <1>1, <1>3, <1>6, <1>12
  <2>2. r[i] = s[i - 1] /\ r[j] = s[j - 1]
    BY <1>3, <1>4, <1>6, <1>12
  <2>3. QED
    BY <2>1, <2>2, <1>7
<1>13. QED
  BY <1>3, <1>6, <1>8, <1>9, <1>10, <1>11, <1>12

(* Every record of list s is in list r. *)
AllKept(s, r) == \A k \in DOMAIN s : \E m \in DOMAIN r : r[m] = s[k]

(* Of the positions of r, no two show the same position of s. *)
FromApart(s, r, P) == \A m, n \in P : m # n =>
                        \E k, h \in DOMAIN s : k # h /\ r[m] = s[k] /\ r[n] = s[h]

(* r has record l, and otherwise records of s. *)
OnlyAdded(s, r, l) ==
  \E p \in DOMAIN r :
    /\ r[p] = l
    /\ \A m \in DOMAIN r \ {p} : \E k \in DOMAIN s : r[m] = s[k]
    /\ FromApart(s, r, DOMAIN r \ {p})

(* r has the records of s, all but the one at position p. *)
OnlyRemoved(s, r, p) ==
  /\ \A k \in DOMAIN s \ {p} : \E m \in DOMAIN r : r[m] = s[k]
  /\ FromApart(s, r, DOMAIN r)

(* Linking a record in keeps the others and adds only it. *)
LEMMA InsertKeepsRecords ==
  ASSUME NEW S, NEW s \in Seq(S), NEW l \in S
  PROVE  /\ InsertSorted(s, l) \in Seq(S)
         /\ AllKept(s, InsertSorted(s, l))
         /\ OnlyAdded(s, InsertSorted(s, l), l)
<1> DEFINE p == PlaceOf(s, l)  r == InsertSorted(s, l)
<1>1. Len(s) \in Nat /\ DOMAIN s = 1 .. Len(s)
  OBVIOUS
<1>3. p \in 1 .. (Len(s) + 1)
  BY <1>1, PlaceInList, Zenon
<1>4. /\ r \in Seq(S) /\ Len(r) = Len(s) + 1
      /\ \A k \in 1 .. (Len(s) + 1) : r[k] = IF k < p THEN s[k] ELSE IF k = p THEN l ELSE s[k - 1]
  BY InsertSortedFacts, Zenon
<1> HIDE DEF p, r
<1>5. DOMAIN r = 1 .. (Len(s) + 1)
  BY <1>4
<1>6. \A k \in DOMAIN s : \E m \in DOMAIN r : r[m] = s[k]
  <2>1. TAKE k \in DOMAIN s
  <2>2. CASE k < p
    BY <2>2, <1>1, <1>4, <1>5
  <2>3. CASE k >= p
    <3>1. k + 1 \in 1 .. (Len(s) + 1) /\ k + 1 > p /\ k + 1 - 1 = k
      BY <2>3, <1>1, <1>3
    <3>2. r[k + 1] = s[k]
      BY <3>1, <1>3, <1>4
    <3>3. QED
      BY <3>1, <3>2, <1>5
  <2>4. QED
    BY <2>2, <2>3, <1>1, <1>3
<1> DEFINE From(m) == IF m < p THEN m ELSE m - 1
<1>7. \A m \in DOMAIN r \ {p} : From(m) \in DOMAIN s /\ r[m] = s[From(m)]
  BY <1>1, <1>3, <1>4, <1>5
<1>8. \A m, n \in DOMAIN r \ {p} : m # n => From(m) # From(n)
  BY <1>1, <1>3, <1>5
<1> HIDE DEF From
<1>9. p \in DOMAIN r /\ r[p] = l
  BY <1>3, <1>4, <1>5
<1>10. \A m \in DOMAIN r \ {p} : \E k \in DOMAIN s : r[m] = s[k]
  BY <1>7, Zenon
<1>11. FromApart(s, r, DOMAIN r \ {p})
  BY <1>7, <1>8, Zenon DEF FromApart
<1>12. AllKept(s, r) /\ OnlyAdded(s, r, l)
  BY <1>6, <1>9, <1>10, <1>11, Zenon DEF AllKept, OnlyAdded
<1>13. QED
  BY <1>4, <1>12, Zenon DEF r

(* Taking a record out keeps the order. *)
LEMMA RemoveKeepsOrder ==
  ASSUME NEW S, NEW s \in Seq(S), NEW p \in 1 .. Len(s), SortedByStart(s)
  PROVE  SortedByStart(RemoveAt(s, p))
<1> DEFINE r == RemoveAt(s, p)
<1>1. Len(s) \in Nat /\ DOMAIN s = 1 .. Len(s)
  OBVIOUS
<1>2. /\ r \in Seq(S) /\ Len(r) = Len(s) - 1
      /\ \A k \in 1 .. (Len(s) - 1) : r[k] = IF k < p THEN s[k] ELSE s[k + 1]
  <2> HIDE DEF r
  <2>1. QED
    BY RemoveAtFacts DEF r
<1> HIDE DEF r
<1>3. DOMAIN r = 1 .. (Len(s) - 1)
  BY <1>2
<1> DEFINE From(m) == IF m < p THEN m ELSE m + 1
<1>4. \A m \in DOMAIN r : From(m) \in DOMAIN s /\ r[m] = s[From(m)]
  BY <1>1, <1>2, <1>3
<1>5. \A m, n \in DOMAIN r : m < n => From(m) < From(n)
  BY <1>1, <1>3
<1> HIDE DEF From
<1>6. QED
  BY <1>4, <1>5 DEF SortedByStart, r

(* Taking a record out keeps the others, each in one place. *)
LEMMA RemoveKeepsRecords ==
  ASSUME NEW S, NEW s \in Seq(S), NEW p \in 1 .. Len(s)
  PROVE  RemoveAt(s, p) \in Seq(S) /\ OnlyRemoved(s, RemoveAt(s, p), p)
<1> DEFINE r == RemoveAt(s, p)
<1>1. Len(s) \in Nat /\ DOMAIN s = 1 .. Len(s)
  OBVIOUS
<1>2. /\ r \in Seq(S) /\ Len(r) = Len(s) - 1
      /\ \A k \in 1 .. (Len(s) - 1) : r[k] = IF k < p THEN s[k] ELSE s[k + 1]
  <2> HIDE DEF r
  <2>1. QED
    BY RemoveAtFacts DEF r
<1> HIDE DEF r
<1>3. DOMAIN r = 1 .. (Len(s) - 1)
  BY <1>2
<1> DEFINE From(m) == IF m < p THEN m ELSE m + 1
<1>4. \A m \in DOMAIN r : From(m) \in DOMAIN s /\ r[m] = s[From(m)]
  BY <1>1, <1>2, <1>3
<1>5. \A m, n \in DOMAIN r : m # n => From(m) # From(n)
  BY <1>1, <1>3
<1>6. \A k \in DOMAIN s \ {p} : \E m \in DOMAIN r : r[m] = s[k]
  <2>1. TAKE k \in DOMAIN s \ {p}
  <2>2. CASE k < p
    BY <2>2, <1>1, <1>2, <1>3
  <2>3. CASE k > p
    <3>1. k - 1 \in 1 .. (Len(s) - 1) /\ ~(k - 1 < p) /\ k - 1 + 1 = k
      BY <2>3, <1>1
    <3>2. r[k - 1] = s[k]
      BY <3>1, <1>2
    <3>3. QED
      BY <3>1, <3>2, <1>3
  <2>4. QED
    BY <2>2, <2>3, <1>1
<1> HIDE DEF From
<1>7. FromApart(s, r, DOMAIN r)
  BY <1>4, <1>5, Zenon DEF FromApart
<1>8. OnlyRemoved(s, r, p)
  BY <1>6, <1>7, Zenon DEF OnlyRemoved
<1>9. QED
  BY <1>2, <1>8, Zenon DEF r

(* In a list in order, find_next_lock_from meets every overlapping record  *)
(* from the position on where it starts.                                   *)
LEMMA SearchMeetsAll ==
  ASSUME NEW s, Len(s) \in Nat, DOMAIN s = 1 .. Len(s), SortedByStart(s),
         \A k \in DOMAIN s : s[k].start \in Int,
         NEW d, d.end \in Int,
         NEW i \in Nat, i >= 1,
         NEW k \in DOMAIN s, k >= i, Overlapping(s[k], d)
  PROVE  k \in Found(s, d, i)
<1>1. \A j \in i .. k : ~Stops(s[j], d)
  <2>1. TAKE j \in i .. k
  <2>2. j \in DOMAIN s /\ (j < k \/ j = k)
    OBVIOUS
  <2>3. s[j].start =< s[k].start
    BY <2>2 DEF SortedByStart
  <2>4. s[k].start < d.end
    BY DEF Overlapping
  <2>5. s[j].start < d.end
    BY <2>2, <2>3, <2>4
  <2>6. QED
    BY <2>2, <2>5 DEF Stops
<1>2. k \in Reached(s, d, i)
  BY <1>1 DEF Reached
<1>3. QED
  BY <1>2 DEF Found

(* What the search finds is a record of the list that overlaps. *)
LEMMA FoundInList ==
  ASSUME NEW s, Len(s) \in Nat, DOMAIN s = 1 .. Len(s), NEW d, NEW i \in Nat, i >= 1
  PROVE  /\ Found(s, d, i) \subseteq DOMAIN s
         /\ \A k \in Found(s, d, i) : Overlapping(s[k], d)
BY DEF Found, Reached

------------------------------------------------------------------------------
(* Readers and writers of one dimension, data or address. *)
Excludes(k, l) == \/ k = lock_write /\ l # lock_none
                  \/ l = lock_write /\ k # lock_none

LEMMA TypeValues == MutexTypes = {0, 1, 2, 4, 5, 6, 8, 9, 10}
BY DEF MutexTypes, lock_t, make_lock_type, lock_none, lock_read, lock_write

(* The bits, 1 << lock, and the masks, as numbers. *)
Bit(y, b) == <<y, b>> \in {<<0, 1>>, <<1, 2>>, <<2, 4>>, <<4, 16>>, <<5, 32>>, <<6, 64>>,
                            <<8, 256>>, <<9, 512>>, <<10, 1024>>}
Mask(x, m) == <<x, m>> \in {<<0, 0>>, <<1, 1092>>, <<2, 1638>>, <<4, 1792>>, <<5, 1860>>,
                             <<6, 1894>>, <<8, 1904>>, <<9, 1908>>, <<10, 1910>>}

LEMMA BitValues ==
  ASSUME NEW y \in MutexTypes
  PROVE  Bit(y, 2^y)
<1>0. PICK b : b = 2^y
  OBVIOUS
<1>1. y \in {0, 1, 2, 4, 5, 6, 8, 9, 10}
  BY TypeValues
<1>2. CASE y = 0
  <2>1. 2^0 = 1
    OBVIOUS
  <2>2. b = 1
    BY <1>0, <1>2, <2>1, Zenon
  <2>3. Bit(y, b)
    BY <1>2, <2>2 DEF Bit
  <2>4. QED
    BY <1>0, <2>3, Zenon
<1>3. CASE y = 1
  <2>1. 2^1 = 2
    OBVIOUS
  <2>2. b = 2
    BY <1>0, <1>3, <2>1, Zenon
  <2>3. Bit(y, b)
    BY <1>3, <2>2 DEF Bit
  <2>4. QED
    BY <1>0, <2>3, Zenon
<1>4. CASE y = 2
  <2>1. 2^2 = 4
    OBVIOUS
  <2>2. b = 4
    BY <1>0, <1>4, <2>1, Zenon
  <2>3. Bit(y, b)
    BY <1>4, <2>2 DEF Bit
  <2>4. QED
    BY <1>0, <2>3, Zenon
<1>5. CASE y = 4
  <2>1. 2^4 = 16
    OBVIOUS
  <2>2. b = 16
    BY <1>0, <1>5, <2>1, Zenon
  <2>3. Bit(y, b)
    BY <1>5, <2>2 DEF Bit
  <2>4. QED
    BY <1>0, <2>3, Zenon
<1>6. CASE y = 5
  <2>1. 2^5 = 32
    OBVIOUS
  <2>2. b = 32
    BY <1>0, <1>6, <2>1, Zenon
  <2>3. Bit(y, b)
    BY <1>6, <2>2 DEF Bit
  <2>4. QED
    BY <1>0, <2>3, Zenon
<1>7. CASE y = 6
  <2>1. 2^6 = 64
    OBVIOUS
  <2>2. b = 64
    BY <1>0, <1>7, <2>1, Zenon
  <2>3. Bit(y, b)
    BY <1>7, <2>2 DEF Bit
  <2>4. QED
    BY <1>0, <2>3, Zenon
<1>8. CASE y = 8
  <2>1. 2^8 = 256
    OBVIOUS
  <2>2. b = 256
    BY <1>0, <1>8, <2>1, Zenon
  <2>3. Bit(y, b)
    BY <1>8, <2>2 DEF Bit
  <2>4. QED
    BY <1>0, <2>3, Zenon
<1>9. CASE y = 9
  <2>1. 2^9 = 512
    OBVIOUS
  <2>2. b = 512
    BY <1>0, <1>9, <2>1, Zenon
  <2>3. Bit(y, b)
    BY <1>9, <2>2 DEF Bit
  <2>4. QED
    BY <1>0, <2>3, Zenon
<1>10. CASE y = 10
  <2>1. 2^10 = 1024
    OBVIOUS
  <2>2. b = 1024
    BY <1>0, <1>10, <2>1, Zenon
  <2>3. Bit(y, b)
    BY <1>10, <2>2 DEF Bit
  <2>4. QED
    BY <1>0, <2>3, Zenon
<1>11. QED
  BY <1>1, <1>2, <1>3, <1>4, <1>5, <1>6, <1>7, <1>8, <1>9, <1>10

LEMMA MaskValues ==
  ASSUME NEW x \in MutexTypes
  PROVE  Mask(x, lock_conflict_def[x + 1])
<1>0. PICK m : m = lock_conflict_def[x + 1]
  OBVIOUS
<1>1. x \in {0, 1, 2, 4, 5, 6, 8, 9, 10}
  BY TypeValues
<1>2. CASE x = 0
  <2>1. m = 0
    BY <1>0, <1>2 DEF lock_conflict_def
  <2>2. Mask(x, m)
    BY <1>2, <2>1 DEF Mask
  <2>3. QED
    BY <1>0, <2>2, Zenon
<1>3. CASE x = 1
  <2>1. m = 1092
    BY <1>0, <1>3 DEF lock_conflict_def
  <2>2. Mask(x, m)
    BY <1>3, <2>1 DEF Mask
  <2>3. QED
    BY <1>0, <2>2, Zenon
<1>4. CASE x = 2
  <2>1. m = 1638
    BY <1>0, <1>4 DEF lock_conflict_def
  <2>2. Mask(x, m)
    BY <1>4, <2>1 DEF Mask
  <2>3. QED
    BY <1>0, <2>2, Zenon
<1>5. CASE x = 4
  <2>1. m = 1792
    BY <1>0, <1>5 DEF lock_conflict_def
  <2>2. Mask(x, m)
    BY <1>5, <2>1 DEF Mask
  <2>3. QED
    BY <1>0, <2>2, Zenon
<1>6. CASE x = 5
  <2>1. m = 1860
    BY <1>0, <1>6 DEF lock_conflict_def
  <2>2. Mask(x, m)
    BY <1>6, <2>1 DEF Mask
  <2>3. QED
    BY <1>0, <2>2, Zenon
<1>7. CASE x = 6
  <2>1. m = 1894
    BY <1>0, <1>7 DEF lock_conflict_def
  <2>2. Mask(x, m)
    BY <1>7, <2>1 DEF Mask
  <2>3. QED
    BY <1>0, <2>2, Zenon
<1>8. CASE x = 8
  <2>1. m = 1904
    BY <1>0, <1>8 DEF lock_conflict_def
  <2>2. Mask(x, m)
    BY <1>8, <2>1 DEF Mask
  <2>3. QED
    BY <1>0, <2>2, Zenon
<1>9. CASE x = 9
  <2>1. m = 1908
    BY <1>0, <1>9 DEF lock_conflict_def
  <2>2. Mask(x, m)
    BY <1>9, <2>1 DEF Mask
  <2>3. QED
    BY <1>0, <2>2, Zenon
<1>10. CASE x = 10
  <2>1. m = 1910
    BY <1>0, <1>10 DEF lock_conflict_def
  <2>2. Mask(x, m)
    BY <1>10, <2>1 DEF Mask
  <2>3. QED
    BY <1>0, <2>2, Zenon
<1>11. QED
  BY <1>1, <1>2, <1>3, <1>4, <1>5, <1>6, <1>7, <1>8, <1>9, <1>10

(* What the bit masks say, entry by entry: the dimensions are independent. *)
LEMMA MaskRule ==
  ASSUME NEW x \in MutexTypes, NEW y \in MutexTypes
  PROVE  is_conflict(x, y) <=> Excludes(x % 4, y % 4) \/ Excludes(x \div 4, y \div 4)
<1>1. PICK b : b = 2^y /\ Bit(y, b)
  BY BitValues, Zenon
<1>2. PICK m : m = lock_conflict_def[x + 1] /\ Mask(x, m)
  BY MaskValues, Zenon
<1>3. is_conflict(x, y) <=> (m \div b) % 2 = 1
  <2>1. is_conflict(x, y) <=> (lock_conflict_def[x + 1] \div 2^y) % 2 = 1
    BY Zenon DEF is_conflict
  <2>2. (lock_conflict_def[x + 1] \div 2^y) % 2 = (m \div b) % 2
    BY <1>1, <1>2, Zenon
  <2>3. QED
    BY <2>1, <2>2, Zenon
<1>4. (m \div b) % 2 = 1 <=> Excludes(x % 4, y % 4) \/ Excludes(x \div 4, y \div 4)
  <2> USE <1>1 DEF Bit, Excludes, lock_none, lock_write
  <2>1. CASE x = 0 /\ m = 0
    BY <2>1
  <2>2. CASE x = 1 /\ m = 1092
    BY <2>2
  <2>3. CASE x = 2 /\ m = 1638
    BY <2>3
  <2>4. CASE x = 4 /\ m = 1792
    BY <2>4
  <2>5. CASE x = 5 /\ m = 1860
    BY <2>5
  <2>6. CASE x = 6 /\ m = 1894
    BY <2>6
  <2>7. CASE x = 8 /\ m = 1904
    BY <2>7
  <2>8. CASE x = 9 /\ m = 1908
    BY <2>8
  <2>9. CASE x = 10 /\ m = 1910
    BY <2>9
  <2>10. QED
    BY <1>2, <2>1, <2>2, <2>3, <2>4, <2>5, <2>6, <2>7, <2>8, <2>9 DEF Mask
<1>5. QED
  BY <1>3, <1>4, Zenon
==============================================================================
