---------------------------- MODULE IoQueueProofs ----------------------------
(***************************************************************************)
(* Proofs about IoQueue, for any users, submissions, sizes of the queue    *)
(* and number of calls: its invariants for any number of arbiters, and for *)
(* one arbiter that $trans gives up only in the error state and that $wait *)
(* returns only when the queue is drained.                                 *)
(*                                                                         *)
(* The inductive invariant IInv has the data (DataOK) and the threads.     *)
(* Three of its parts are not about a single operation.  A submitter uses  *)
(* its search after it was made, so SearchOK says what the search is still *)
(* good for; it stays good because whoever moves entries needs lock[3].    *)
(* RoomOK says that the writer let in finds a block and a cell.  And       *)
(* TicketsOK counts the tickets of the arbiters: the ones used up are as   *)
(* many as head, so whoever has one of the others below tail finds a       *)
(* request at head.                                                        *)
(*                                                                         *)
(* binary_search is a recursive function, so that it exists is proved      *)
(* (LoopFunction), and what it finds by induction over what is left to     *)
(* search: a set of numbers that is not empty has a least element          *)
(* (LeastNumber).                                                          *)
(*                                                                         *)
(* With one arbiter the locked zone has no holes (InLine), and the request *)
(* that $wait waits for stays behind all that were there before (Drained). *)
(***************************************************************************)
EXTENDS IoQueue, FiniteSetTheorems, WellFoundedInduction, TLAPS
------------------------------------------------------------------------------
(*****************************************************************************)
(* Numbers, and a loop as a function.                                        *)
(*****************************************************************************)

(* A set of numbers that is not empty has a least element. *)
LEMMA LeastNumber ==
  ASSUME NEW S, S \subseteq Nat, S # {}
  PROVE  \E x \in S : \A y \in S : x =< y
<1>1. PICK x \in S : \A y \in S : ~ (<<y, x>> \in OpToRel(<, Nat))
  BY NatLessThanWellFounded, WFMin, Zenon
<1>2. \A y \in S : ~(y < x)
  BY <1>1, Zenon DEF OpToRel
<1>3. QED
  BY <1>2

(* The greatest and the least element of a bounded set of numbers. *)
LEMMA MaxIs ==
  ASSUME NEW S, S \subseteq Nat, S # {}, NEW b \in Int, \A x \in S : x =< b
  PROVE  Max(S) \in S /\ \A y \in S : y =< Max(S)
<1>1. PICK T : T = {n \in Nat : \E x \in S : n = b - x}
  OBVIOUS
<1>2. T \subseteq Nat /\ T # {}
  <2>1. PICK x \in S : TRUE
    OBVIOUS
  <2>2. b - x \in Nat
    BY <2>1
  <2>3. QED
    BY <1>1, <2>1, <2>2
<1>3. PICK n \in T : \A k \in T : n =< k
  BY <1>2, LeastNumber
<1>4. PICK x \in S : n = b - x
  BY <1>1, <1>3
<1>5. \A y \in S : x >= y
  <2>1. ASSUME NEW y \in S
        PROVE  x >= y
    <3>1. b - y \in T
      BY <1>1, <2>1
    <3>2. QED
      BY <1>3, <1>4, <3>1
  <2>2. QED
    BY <2>1
<1>6. \A y \in S : Max(S) >= y /\ Max(S) \in S
  BY <1>5, Zenon DEF Max
<1>7. QED
  BY <1>4, <1>6

(* A set of numbers that is not empty has its minimum in it. *)
LEMMA MinIs ==
  ASSUME NEW S, S \subseteq Nat, S # {}
  PROVE  Min(S) \in S
<1>1. PICK x \in S : \A y \in S : x =< y
  BY LeastNumber
<1>2. QED
  BY <1>1, Zenon DEF Min

(* The places a loop that starts at x and goes on by g gets to, until it   *)
(* is in D.                                                                *)
Reached(S, D, g, x) ==
  {y \in S : \A T \in SUBSET S : x \in T /\ (\A z \in T : z \notin D => g[z] \in T) => y \in T}

(* The loop gets to its start, and to the next place of each place outside *)
(* D.                                                                      *)
LEMMA ReachedClosed ==
  ASSUME NEW S, NEW D, NEW g \in [S -> S], NEW x \in S
  PROVE  /\ x \in Reached(S, D, g, x)
         /\ \A z \in Reached(S, D, g, x) : z \notin D => g[z] \in Reached(S, D, g, x)
<1>1. x \in Reached(S, D, g, x)
  BY DEF Reached
<1>2. ASSUME NEW z \in Reached(S, D, g, x), z \notin D
      PROVE  g[z] \in Reached(S, D, g, x)
  <2>1. z \in S /\ g[z] \in S
    BY DEF Reached
  <2>2. SUFFICES ASSUME NEW T \in SUBSET S, x \in T, \A w \in T : w \notin D => g[w] \in T
                 PROVE  g[z] \in T
    BY <2>1, Zenon DEF Reached
  <2>3. z \in T
    BY <2>2, Zenon DEF Reached
  <2>4. QED
    BY <1>2, <2>2, <2>3
<1>3. QED
  BY <1>1, <1>2

(* The loop stays in every set that is closed like that. *)
LEMMA ReachedLeast ==
  ASSUME NEW S, NEW D, NEW g, NEW x, NEW T \in SUBSET S, x \in T,
         \A z \in T : z \notin D => g[z] \in T
  PROVE  Reached(S, D, g, x) \subseteq T
BY Zenon DEF Reached

(* b is the function of the loop: h at its end, and elsewhere b at the     *)
(* next place.                                                             *)
IsLoop(b, S, D, g, h) == b = [x \in S |-> IF x \in D THEN h[x] ELSE b[g[x]]]

(* A loop that may end, g until D is reached and then h, has a function.  *)
LEMMA LoopFunction ==
  ASSUME NEW S, NEW D, NEW g \in [S -> S], NEW h
  PROVE  \E b : IsLoop(b, S, D, g, h)
<1>1. PICK b : b = [x \in S |-> h[CHOOSE y \in Reached(S, D, g, x) : y \in D]]
  OBVIOUS
<1>2. ASSUME NEW x \in S
      PROVE  b[x] = IF x \in D THEN h[x] ELSE b[g[x]]
  <2>1. CASE x \in D
    <3>1. Reached(S, D, g, x) \subseteq {x}
      <4>1. {x} \in SUBSET S /\ x \in {x}
        OBVIOUS
      <4>2. \A z \in {x} : z \notin D => g[z] \in {x}
        BY <2>1
      <4>3. QED
        BY <4>1, <4>2, ReachedLeast, Zenon
    <3>2. (CHOOSE y \in Reached(S, D, g, x) : y \in D) = x
      <4>1. x \in Reached(S, D, g, x) /\ x \in D
        BY <2>1, ReachedClosed
      <4>2. QED
        BY <3>1, <4>1
    <3>3. QED
      BY <1>1, <2>1, <3>2
  <2>2. CASE x \notin D
    <3>1. g[x] \in S
      OBVIOUS
    <3>2. \A y \in D : y \in Reached(S, D, g, x) <=> y \in Reached(S, D, g, g[x])
      <4>1. Reached(S, D, g, x) \subseteq {x} \cup Reached(S, D, g, g[x])
        <5>1. PICK T : T = {x} \cup Reached(S, D, g, g[x])
          OBVIOUS
        <5>2. T \in SUBSET S /\ x \in T
          BY <5>1 DEF Reached
        <5>3. /\ g[x] \in Reached(S, D, g, g[x])
              /\ \A z \in Reached(S, D, g, g[x]) : z \notin D => g[z] \in Reached(S, D, g, g[x])
          BY <3>1, ReachedClosed, Zenon
        <5>3a. \A z \in T : z \notin D => g[z] \in T
          BY <5>1, <5>3, Zenon
        <5>4. Reached(S, D, g, x) \subseteq T
          BY <5>2, <5>3a, ReachedLeast
        <5>5. QED
          BY <5>1, <5>4
      <4>2. Reached(S, D, g, g[x]) \subseteq Reached(S, D, g, x)
        <5>1. PICK T : T = Reached(S, D, g, x)
          OBVIOUS
        <5>2. T \in SUBSET S
          BY <5>1 DEF Reached
        <5>3. x \in T /\ \A z \in T : z \notin D => g[z] \in T
          BY <5>1, ReachedClosed, Zenon
        <5>3a. g[x] \in T
          BY <2>2, <5>3, Zenon
        <5>4. Reached(S, D, g, g[x]) \subseteq T
          BY <5>2, <5>3, <5>3a, ReachedLeast
        <5>5. QED
          BY <5>1, <5>4
      <4>3. QED
        BY <2>2, <4>1, <4>2
    <3>3. (CHOOSE y \in Reached(S, D, g, x) : y \in D)
            = (CHOOSE y \in Reached(S, D, g, g[x]) : y \in D)
      <4>1. \A y : y \in Reached(S, D, g, x) /\ y \in D <=> y \in Reached(S, D, g, g[x]) /\ y \in D
        BY <3>2
      <4>2. QED
        BY <4>1
    <3>4. QED
      BY <1>1, <2>2, <3>1, <3>3
  <2>3. QED
    BY <2>1, <2>2
<1>3. b = [x \in S |-> IF x \in D THEN h[x] ELSE b[g[x]]]
  BY <1>1, <1>2
<1>4. QED
  BY <1>3 DEF IsLoop

------------------------------------------------------------------------------
(*****************************************************************************)
(* The search: one turn of binary_search, local_search, and the loop.        *)
(*****************************************************************************)

(* The ways a turn of binary_search goes on. *)
TooSmall(q, r, x) ==
  /\ ~(x.from > x.to) /\ ~IsNull(q, x.check)
  /\ Request(q, x.check).req.log_addr < r.log_addr
TooBig(q, r, x) ==
  /\ ~(x.from > x.to) /\ ~IsNull(q, x.check)
  /\ ~(Request(q, x.check).req.log_addr < r.log_addr)
  /\ Request(q, x.check).req.log_addr > r.log_addr
NextTurn(q, r, x) ==
  IF TooSmall(q, r, x) THEN Middle(x.check + 1, x.to, x.next)
  ELSE IF TooBig(q, r, x) THEN Middle(x.from, x.check - 1, x.check)
  ELSE x
LastTurn(q, r, x) ==
  IF x.from > x.to THEN Result(FALSE, x.next)
  ELSE IF IsNull(q, x.check) THEN NoResult(x.next)
  ELSE LocalSearch(q, r, x.from, x.to, x.check)

(* A turn looks at a place in its range, if the range is not empty. *)
LEMMA MiddleIs ==
  ASSUME NEW f \in Int, NEW t \in Int, NEW n \in Int, NEW m, m = Middle(f, t, n)
  PROVE  /\ m \in SearchState /\ m.from = f /\ m.to = t /\ m.next = n
         /\ f =< t => m.check \in f .. t
BY DEF Middle, SearchState

(* The recursive function of binary_search exists: one turn, and then the  *)
(* value at the next turn.                                                 *)
LEMMA SearchingTurn ==
  ASSUME NEW q, NEW r, NEW x \in SearchState
  PROVE  Searching(q, r)[x] = IF TooSmall(q, r, x) \/ TooBig(q, r, x)
                              THEN Searching(q, r)[NextTurn(q, r, x)] ELSE LastTurn(q, r, x)
<1>1. PICK D : D = {y \in SearchState : ~TooSmall(q, r, y) /\ ~TooBig(q, r, y)}
  OBVIOUS
<1>2. PICK g : g = [y \in SearchState |-> NextTurn(q, r, y)]
  OBVIOUS
<1>3. PICK h : h = [y \in SearchState |-> LastTurn(q, r, y)]
  OBVIOUS
<1>4. g \in [SearchState -> SearchState]
  <2>1. ASSUME NEW y \in SearchState
        PROVE  NextTurn(q, r, y) \in SearchState
    <3>1. y.from \in Int /\ y.to \in Int /\ y.check \in Int /\ y.next \in Int
      BY DEF SearchState
    <3>2. Middle(y.check + 1, y.to, y.next) \in SearchState
      BY <3>1, MiddleIs
    <3>3. Middle(y.from, y.check - 1, y.check) \in SearchState
      BY <3>1, MiddleIs
    <3>4. QED
      BY <3>2, <3>3, Zenon DEF NextTurn
  <2>2. QED
    BY <1>2, <2>1
<1>5. PICK c : IsLoop(c, SearchState, D, g, h)
  BY <1>4, LoopFunction, Zenon
<1>6. ASSUME NEW b
      PROVE  [y \in SearchState |-> IF y \in D THEN h[y] ELSE b[g[y]]]
              = [y \in SearchState |->
                   IF y.from > y.to THEN Result(FALSE, y.next)
                   ELSE IF IsNull(q, y.check) THEN NoResult(y.next)
                   ELSE IF Request(q, y.check).req.log_addr < r.log_addr
                        THEN b[Middle(y.check + 1, y.to, y.next)]
                   ELSE IF Request(q, y.check).req.log_addr > r.log_addr
                        THEN b[Middle(y.from, y.check - 1, y.check)]
                   ELSE LocalSearch(q, r, y.from, y.to, y.check)]
  <2>1. ASSUME NEW y \in SearchState
        PROVE  (IF y \in D THEN h[y] ELSE b[g[y]])
                = IF y.from > y.to THEN Result(FALSE, y.next)
                   ELSE IF IsNull(q, y.check) THEN NoResult(y.next)
                   ELSE IF Request(q, y.check).req.log_addr < r.log_addr
                        THEN b[Middle(y.check + 1, y.to, y.next)]
                   ELSE IF Request(q, y.check).req.log_addr > r.log_addr
                        THEN b[Middle(y.from, y.check - 1, y.check)]
                   ELSE LocalSearch(q, r, y.from, y.to, y.check)
    BY <1>1, <1>2, <1>3, Zenon DEF TooSmall, TooBig, NextTurn, LastTurn
  <2>2. QED
    BY <2>1, Zenon
<1>7. Searching(q, r) = [y \in SearchState |-> IF y \in D THEN h[y] ELSE Searching(q, r)[g[y]]]
  <2>0. c =
      [y \in SearchState |->
         IF y.from > y.to THEN Result(FALSE, y.next)
         ELSE IF IsNull(q, y.check) THEN NoResult(y.next)
         ELSE IF Request(q, y.check).req.log_addr < r.log_addr
              THEN c[Middle(y.check + 1, y.to, y.next)]
         ELSE IF Request(q, y.check).req.log_addr > r.log_addr
              THEN c[Middle(y.from, y.check - 1, y.check)]
         ELSE LocalSearch(q, r, y.from, y.to, y.check)]
    BY <1>5, <1>6, Zenon DEF IsLoop
  <2>1. \E b : b =
      [y \in SearchState |->
         IF y.from > y.to THEN Result(FALSE, y.next)
         ELSE IF IsNull(q, y.check) THEN NoResult(y.next)
         ELSE IF Request(q, y.check).req.log_addr < r.log_addr
              THEN b[Middle(y.check + 1, y.to, y.next)]
         ELSE IF Request(q, y.check).req.log_addr > r.log_addr
              THEN b[Middle(y.from, y.check - 1, y.check)]
         ELSE LocalSearch(q, r, y.from, y.to, y.check)]
    BY <2>0, Zenon
  <2>2. Searching(q, r) =
      [y \in SearchState |->
         IF y.from > y.to THEN Result(FALSE, y.next)
         ELSE IF IsNull(q, y.check) THEN NoResult(y.next)
         ELSE IF Request(q, y.check).req.log_addr < r.log_addr
              THEN Searching(q, r)[Middle(y.check + 1, y.to, y.next)]
         ELSE IF Request(q, y.check).req.log_addr > r.log_addr
              THEN Searching(q, r)[Middle(y.from, y.check - 1, y.check)]
         ELSE LocalSearch(q, r, y.from, y.to, y.check)]
    BY <2>1 DEF Searching
  <2>3. QED
    BY <1>6, <2>2, Zenon
<1>8. Searching(q, r)[x] = IF x \in D THEN h[x] ELSE Searching(q, r)[g[x]]
  BY <1>7, Zenon
<1>9. QED
  BY <1>1, <1>2, <1>3, <1>8, Zenon

(* The elements of P from a on without a gap. *)
IsRun(P, a, b, S, n) ==
  /\ S = a .. (a + n - 1) /\ Cardinality(S) = n
  /\ a + n =< b + 1 \/ n = 0
  /\ \A k \in a .. (a + n - 1) : k \in P
  /\ a + n =< b => a + n \notin P

(* The elements of P that follow a without a gap are a run. *)
LEMMA RunOf ==
  ASSUME NEW P, NEW a \in Nat, NEW b \in Int, NEW S, S = {p \in a .. b : \A k \in a .. p : k \in P}
  PROVE  \E n \in Nat : IsRun(P, a, b, S, n)
<1>1. CASE \A k \in a .. b : k \in P
  <2>1. S = a .. b
    BY <1>1
  <2>2. CASE a > b
    <3>1. S = a .. (a + 0 - 1) /\ Cardinality(S) = 0
      BY <2>1, <2>2, FS_EmptySet
    <3>2. IsRun(P, a, b, S, 0)
      BY <2>2, <3>1 DEF IsRun
    <3>3. QED
      BY <3>2
  <2>3. CASE a =< b
    <3>1. PICK n \in Nat : n = b - a + 1
      BY <2>3
    <3>2. Cardinality(a .. b) = n
      BY <2>3, <3>1, FS_Interval
    <3>3. b = a + n - 1
      BY <3>1
    <3>3a. S = a .. (a + n - 1) /\ Cardinality(S) = n
      BY <2>1, <3>2, <3>3, Zenon
    <3>4. a + n =< b + 1 /\ ~(a + n =< b)
      BY <3>3
    <3>4a. \A k \in a .. (a + n - 1) : k \in P
      BY <1>1, <3>3
    <3>4b. IsRun(P, a, b, S, n)
      BY <3>3a, <3>4, <3>4a, Zenon DEF IsRun
    <3>5. QED
      BY <3>4b
  <2>4. QED
    BY <2>2, <2>3
<1>2. CASE ~ \A k \in a .. b : k \in P
  <2>1. PICK T : T = {k \in a .. b : k \notin P}
    OBVIOUS
  <2>2. T \subseteq Nat /\ T # {}
    BY <1>2, <2>1
  <2>3. PICK m \in T : \A k \in T : m =< k
    BY <2>2, LeastNumber
  <2>4. m \in Nat /\ a =< m /\ m =< b /\ m \notin P
    BY <2>1, <2>3
  <2>5. \A k \in a .. (m - 1) : k \in P
    BY <2>1, <2>3, <2>4
  <2>6. S = a .. (m - 1)
    BY <2>4, <2>5
  <2>7. PICK n \in Nat : n = m - a
    BY <2>4
  <2>8. Cardinality(a .. (m - 1)) = n
    <3>1. PICK k \in Int : k = m - 1
      BY <2>4
    <3>2. Cardinality(a .. k) = IF a > k THEN 0 ELSE k - a + 1
      BY FS_Interval
    <3>3. QED
      BY <2>4, <2>7, <3>1, <3>2
  <2>9. m = a + n
    BY <2>4, <2>7
  <2>9c. S = a .. (m - 1) /\ Cardinality(S) = n
    BY <2>6, <2>8, Zenon
  <2>9a. S = a .. (a + n - 1) /\ a + n =< b + 1 /\ a + n \notin P
    BY <2>4, <2>9, <2>9c
  <2>9b. \A k \in a .. (a + n - 1) : k \in P
    BY <2>5, <2>9
  <2>10. IsRun(P, a, b, S, n)
    BY <2>9a, <2>9b, <2>9c, Zenon DEF IsRun
  <2>11. QED
    BY <2>10
<1>3. QED
  BY <1>1, <1>2

(* Results of a search. *)
Results == [found : BOOLEAN, next : Int, fatal : BOOLEAN]

(* Result gives a result, and never a fatal one. *)
LEMMA ResultIs ==
  ASSUME NEW n \in Int, NEW R, R = Result(TRUE, n) \/ R = Result(FALSE, n)
  PROVE  R \in Results /\ R.next = n /\ R.fatal = FALSE
<1>1. CASE R = Result(TRUE, n)
  BY <1>1 DEF Result, Results
<1>2. CASE R = Result(FALSE, n)
  BY <1>2 DEF Result, Results
<1>3. QED
  BY <1>1, <1>2

(* The local search leads to a place behind the requests at its address,   *)
(* unless it meets an empty entry.                                         *)
LocalOK(q, r, f, t, c, R) ==
  /\ R \in Results /\ R.fatal = FALSE
  /\ R.found = FALSE =>
       \/ \E p \in f .. (c - 1) : IsNull(q, p)
       \/ /\ R.next \in (c + 1) .. (t + 1)
          /\ \A k \in (c + 1) .. (R.next - 1) : SameAddr(q, k, r)

(* local_search, called at a place of its range. *)
LEMMA LocalIs ==
  ASSUME NEW q, NEW r, NEW f \in Nat, NEW t \in Int, NEW c \in f .. t,
         NEW R, R = LocalSearch(q, r, f, t, c)
  PROVE  LocalOK(q, r, f, t, c, R)
<1>1. PICK below : below = {p \in f .. (c - 1) : \A k \in p .. (c - 1) : SameAddr(q, k, r)}
  OBVIOUS
<1>2. PICK above : above = {p \in (c + 1) .. t : \A k \in (c + 1) .. p : SameAddr(q, k, r)}
  OBVIOUS
<1>3. PICK back : back = {p \in below : Equal(q, p, r)}
  OBVIOUS
<1>4. PICK forth : forth = {p \in above : Equal(q, p, r)}
  OBVIOUS
<1>5. PICK under : under = c - Cardinality(below) - 1
  OBVIOUS
<1>6. R = IF Equal(q, c, r) THEN Result(TRUE, c)
          ELSE IF back # {} THEN Result(TRUE, Max(back))
          ELSE IF under >= f /\ IsNull(q, under) THEN Result(FALSE, c)
          ELSE IF forth # {} THEN Result(TRUE, Min(forth))
          ELSE Result(FALSE, c + Cardinality(above) + 1)
  BY <1>1, <1>2, <1>3, <1>4, <1>5, Zenon DEF LocalSearch
<1>7. Cardinality(below) \in Nat
  <2>1. below \in SUBSET (f .. (c - 1)) /\ c - 1 \in Int
    BY <1>1
  <2>2. IsFiniteSet(below)
    <3>1. PICK e \in Int : e = c - 1
      BY <2>1
    <3>2. IsFiniteSet(f .. e) /\ below \in SUBSET (f .. e)
      BY <2>1, <3>1, FS_Interval
    <3>3. QED
      BY <3>2, FS_Subset
  <2>3. QED
    BY <2>2, FS_CardinalityType
<1>8. under =< c - 1 /\ under \in Int
  BY <1>5, <1>7
<1>9. PICK n \in Nat : /\ Cardinality(above) = n
                       /\ (c + 1) + n =< t + 1 \/ n = 0
                       /\ \A k \in (c + 1) .. ((c + 1) + n - 1) : SameAddr(q, k, r)
  <2>1. PICK P : P = {k \in (c + 1) .. t : SameAddr(q, k, r)}
    OBVIOUS
  <2>2. c + 1 \in Nat
    OBVIOUS
  <2>3. above = {p \in (c + 1) .. t : \A k \in (c + 1) .. p : k \in P}
    <3>1. \A p \in (c + 1) .. t : \A k \in (c + 1) .. p : k \in (c + 1) .. t
      OBVIOUS
    <3>2. QED
      BY <1>2, <2>1, <3>1, Zenon
  <2>4. PICK n \in Nat : IsRun(P, c + 1, t, above, n)
    BY <2>2, <2>3, RunOf
  <2>5. \A k \in (c + 1) .. ((c + 1) + n - 1) : SameAddr(q, k, r)
    BY <2>1, <2>4, Zenon DEF IsRun
  <2>6. Cardinality(above) = n /\ ((c + 1) + n =< t + 1 \/ n = 0)
    BY <2>4, Zenon DEF IsRun
  <2>7. QED
    BY <2>5, <2>6
<1>10. c + n + 1 \in (c + 1) .. (t + 1) /\ c + n + 1 = (c + 1) + n
  BY <1>9
<1>11. CASE Equal(q, c, r) \/ back # {}
  <2>0. ASSUME back # {}
        PROVE  Max(back) \in Int
    <3>1. back \subseteq Nat /\ \A x \in back : x =< c
      BY <1>1, <1>3
    <3>2. c \in Int
      OBVIOUS
    <3>3. Max(back) \in back
      BY <2>0, <3>1, <3>2, MaxIs, Zenon
    <3>4. PICK m : m = Max(back)
      OBVIOUS
    <3>5. m \in back
      BY <3>3, <3>4, Zenon
    <3>6. m \in Int
      BY <3>1, <3>5
    <3>7. QED
      BY <3>4, <3>6, Zenon
  <2>1. PICK n0 \in Int : R = Result(TRUE, n0)
    <3>1. c \in Int
      OBVIOUS
    <3>2. QED
      BY <1>6, <1>11, <2>0, <3>1, Zenon
  <2>2. R \in Results /\ R.fatal = FALSE
    BY <2>1, ResultIs
  <2>3. R.found = TRUE
    BY <2>1 DEF Result
  <2>4. QED
    BY <2>2, <2>3 DEF LocalOK
<1>12. CASE ~Equal(q, c, r) /\ back = {} /\ under >= f /\ IsNull(q, under)
  <2>1. R.found = FALSE /\ R.fatal = FALSE /\ R \in Results
    <3>1. R = Result(FALSE, c)
      BY <1>6, <1>12, Zenon
    <3>2. c \in Int
      OBVIOUS
    <3>3. R.found = FALSE
      BY <3>1 DEF Result
    <3>4. QED
      BY <3>1, <3>2, <3>3, ResultIs
  <2>2. under \in f .. (c - 1)
    BY <1>8, <1>12
  <2>3. QED
    BY <1>12, <2>1, <2>2 DEF LocalOK
<1>13. CASE ~Equal(q, c, r) /\ back = {} /\ ~(under >= f /\ IsNull(q, under))
  <2>1. CASE forth # {}
    <3>0. Min(forth) \in Int
      <4>1. forth \subseteq Nat
        BY <1>2, <1>4
      <4>2. Min(forth) \in forth
        BY <2>1, <4>1, MinIs, Zenon
      <4>3. PICK m : m = Min(forth)
        OBVIOUS
      <4>4. m \in forth
        BY <4>2, <4>3, Zenon
      <4>5. m \in Int
        BY <4>1, <4>4
      <4>6. QED
        BY <4>3, <4>5, Zenon
    <3>1. PICK n0 \in Int : R = Result(TRUE, n0)
      BY <1>6, <1>13, <2>1, <3>0, Zenon
    <3>2. R \in Results /\ R.fatal = FALSE
      BY <3>1, ResultIs
    <3>3. R.found = TRUE
      BY <3>1 DEF Result
    <3>4. QED
      BY <3>2, <3>3 DEF LocalOK
  <2>2. CASE forth = {}
    <3>1. R = Result(FALSE, c + n + 1)
      BY <1>6, <1>9, <1>13, <2>2, Zenon
    <3>2. R.found = FALSE /\ R.fatal = FALSE /\ R.next = c + n + 1
      BY <3>1 DEF Result
    <3>3. \A k \in (c + 1) .. (R.next - 1) : SameAddr(q, k, r)
      BY <1>9, <1>10, <3>2
    <3>4. R \in Results
      <4>1. PICK n1 \in Int : n1 = c + n + 1
        BY <1>10
      <4>2. R = Result(FALSE, n1)
        BY <3>1, <4>1, Zenon
      <4>3. QED
        BY <4>2, ResultIs
    <3>5. QED
      BY <1>10, <3>2, <3>3, <3>4, Zenon DEF LocalOK
  <2>3. QED
    BY <2>1, <2>2
<1>14. QED
  BY <1>11, <1>12, <1>13

(* What is left to search. *)
Left(x) == IF x.from =< x.to THEN x.to - x.from + 1 ELSE 0

(* A search from a place in its range. *)
Within(x) == x \in SearchState /\ x.from \in Nat /\ (x.from =< x.to => x.check \in x.from .. x.to)

(* The state of a search consists of numbers. *)
LEMMA LeftIs ==
  ASSUME NEW x, Within(x)
  PROVE  Left(x) \in Nat /\ x.from \in Nat /\ x.to \in Int /\ x.check \in Int /\ x.next \in Int
BY DEF Within, SearchState, Left

(* A turn that does not find the address leaves less to search. *)
Turned(q, r, x, y) ==
  /\ Within(y) /\ Left(y) < Left(x)
  /\ x.from =< x.to /\ x.check \in x.from .. x.to /\ ~IsNull(q, x.check)
  /\ \/ /\ TooSmall(q, r, x)
        /\ y.from = x.check + 1 /\ y.to = x.to /\ y.next = x.next
     \/ /\ TooBig(q, r, x)
        /\ y.from = x.from /\ y.to = x.check - 1 /\ y.next = x.check

(* Each turn of the loop narrows the range. *)
LEMMA TurnIs ==
  ASSUME NEW q, NEW r, NEW x, Within(x), NEW y, y = NextTurn(q, r, x),
         TooSmall(q, r, x) \/ TooBig(q, r, x)
  PROVE  Turned(q, r, x, y)
<1>1. x.from \in Nat /\ x.to \in Int /\ x.check \in Int /\ x.next \in Int
  BY LeftIs
<1>2. x.from =< x.to /\ ~IsNull(q, x.check)
  BY <1>1 DEF TooSmall, TooBig
<1>3. x.check \in x.from .. x.to
  BY <1>2 DEF Within
<1>4. CASE TooSmall(q, r, x)
  <2>1. y = Middle(x.check + 1, x.to, x.next)
    BY <1>4, Zenon DEF NextTurn
  <2>2. PICK f \in Nat : f = x.check + 1
    BY <1>1, <1>3
  <2>3. /\ y \in SearchState /\ y.from = f /\ y.to = x.to /\ y.next = x.next
        /\ f =< x.to => y.check \in f .. x.to
    <3>1. y = Middle(f, x.to, x.next) /\ f \in Int
      BY <2>1, <2>2
    <3>2. QED
      BY <1>1, <3>1, MiddleIs, Zenon
  <2>4. Within(y)
    BY <2>3 DEF Within
  <2>5. Left(y) < Left(x)
    BY <1>1, <1>2, <1>3, <2>2, <2>3 DEF Left
  <2>6. QED
    BY <1>2, <1>3, <1>4, <2>2, <2>3, <2>4, <2>5 DEF Turned
<1>5. CASE ~TooSmall(q, r, x) /\ TooBig(q, r, x)
  <2>1. y = Middle(x.from, x.check - 1, x.check)
    BY <1>5, Zenon DEF NextTurn
  <2>2. PICK t \in Int : t = x.check - 1
    BY <1>1, <1>3
  <2>3. /\ y \in SearchState /\ y.from = x.from /\ y.to = t /\ y.next = x.check
        /\ x.from =< t => y.check \in x.from .. t
    <3>1. y = Middle(x.from, t, x.check) /\ x.from \in Int
      BY <1>1, <2>1, <2>2
    <3>2. QED
      BY <1>1, <3>1, MiddleIs, Zenon
  <2>4. Within(y)
    BY <1>1, <2>3 DEF Within
  <2>5. Left(y) < Left(x)
    BY <1>1, <1>2, <1>3, <2>2, <2>3 DEF Left
  <2>6. QED
    BY <1>2, <1>3, <1>5, <2>2, <2>3, <2>4, <2>5 DEF Turned
<1>6. QED
  BY <1>4, <1>5

(* A search ends, and fails only if there is an empty entry. *)
AnswerOK(q, x, R) ==
  /\ R \in Results
  /\ R.fatal = TRUE => \E p \in x.from .. x.to : IsNull(q, p)

(* By induction over what is left to search: binary_search returns. *)
LEMMA SearchEnds ==
  ASSUME NEW q, NEW r, NEW x, Within(x)
  PROVE  AnswerOK(q, x, Searching(q, r)[x])
<1>1. PICK S : S = {n \in Nat : \E y \in SearchState : /\ Within(y) /\ Left(y) = n
                                                     /\ ~AnswerOK(q, y, Searching(q, r)[y])}
  OBVIOUS
<1>2. SUFFICES ASSUME ~AnswerOK(q, x, Searching(q, r)[x])
               PROVE  FALSE
  OBVIOUS
<1>3. S \subseteq Nat /\ S # {}
  <2>1. x \in SearchState /\ Left(x) \in Nat
    BY LeftIs DEF Within
  <2>2. QED
    BY <1>1, <1>2, <2>1
<1>4. PICK n \in S : \A k \in S : n =< k
  BY <1>3, LeastNumber
<1>5. PICK y \in SearchState : Within(y) /\ Left(y) = n /\ ~AnswerOK(q, y, Searching(q, r)[y])
  BY <1>1, <1>4
<1>6. y.from \in Nat /\ y.to \in Int /\ y.check \in Int /\ y.next \in Int /\ Left(y) \in Nat
  BY <1>5, LeftIs
<1>7. CASE TooSmall(q, r, y) \/ TooBig(q, r, y)
  <2>1. PICK z : z = NextTurn(q, r, y)
    OBVIOUS
  <2>2. /\ Within(z) /\ Left(z) < Left(y) /\ y.check \in y.from .. y.to
        /\ (z.from = y.check + 1 /\ z.to = y.to) \/ (z.from = y.from /\ z.to = y.check - 1)
    <3>1. Turned(q, r, y, z)
      BY <1>5, <1>7, <2>1, TurnIs
    <3>2. QED
      BY <3>1 DEF Turned
  <2>3. z \in SearchState /\ Left(z) \in Nat
    BY <2>2, LeftIs DEF Within
  <2>4. Left(z) \notin S
    BY <1>4, <1>5, <1>6, <2>2, <2>3
  <2>5. AnswerOK(q, z, Searching(q, r)[z])
    BY <1>1, <2>2, <2>3, <2>4
  <2>6. Searching(q, r)[y] = Searching(q, r)[z]
    BY <1>7, <2>1, SearchingTurn, Zenon
  <2>7. \A p \in z.from .. z.to : p \in y.from .. y.to
    BY <1>6, <2>2
  <2>8. AnswerOK(q, y, Searching(q, r)[y])
    BY <2>5, <2>6, <2>7, Zenon DEF AnswerOK
  <2>9. QED
    BY <1>5, <2>8
<1>8. CASE ~(TooSmall(q, r, y) \/ TooBig(q, r, y))
  <2>1. PICK R : R = Searching(q, r)[y] /\ R = LastTurn(q, r, y)
    BY <1>8, SearchingTurn, Zenon
  <2>2. CASE y.from > y.to
    <3>1. R = Result(FALSE, y.next)
      BY <2>1, <2>2, Zenon DEF LastTurn
    <3>2. R \in Results /\ R.fatal = FALSE
      BY <1>6, <3>1, ResultIs
    <3>3. QED
      BY <1>5, <2>1, <3>2 DEF AnswerOK
  <2>3. CASE ~(y.from > y.to) /\ IsNull(q, y.check)
    <3>1. R = NoResult(y.next)
      BY <2>1, <2>3, Zenon DEF LastTurn
    <3>2. y.check \in y.from .. y.to
      BY <1>5, <1>6, <2>3 DEF Within
    <3>3. R \in Results
      BY <1>6, <3>1 DEF NoResult, Results
    <3>4. QED
      BY <1>5, <2>1, <2>3, <3>2, <3>3 DEF AnswerOK
  <2>4. CASE ~(y.from > y.to) /\ ~IsNull(q, y.check)
    <3>1. R = LocalSearch(q, r, y.from, y.to, y.check)
      BY <2>1, <2>4, Zenon DEF LastTurn
    <3>2. y.check \in y.from .. y.to
      BY <1>5, <1>6, <2>4 DEF Within
    <3>3. R \in Results /\ R.fatal = FALSE
      BY <1>6, <3>1, <3>2, LocalIs DEF LocalOK
    <3>4. QED
      BY <1>5, <2>1, <3>3 DEF AnswerOK
  <2>5. QED
    BY <2>2, <2>3, <2>4
<1>9. QED
  BY <1>7, <1>8

(* The address that the elevator sorts by. *)
Addr(q, p) == Request(q, p).req.log_addr

(* The requests at positions f to t are sorted. *)
Sorted(q, f, t) ==
  /\ \A p \in f .. t : ~IsNull(q, p) /\ Addr(q, p) \in Nat
  /\ \A p, k \in f .. t : p < k => Addr(q, p) =< Addr(q, k)

(* What the search of positions f to t has excluded. *)
Narrowed(q, a, f, t, x) ==
  /\ f =< x.from /\ x.from =< x.to + 1 /\ x.to =< t /\ x.next = x.to + 1
  /\ \A p \in f .. (x.from - 1) : Addr(q, p) =< a
  /\ \A p \in (x.to + 1) .. t : Addr(q, p) >= a

(* The place is in order. *)
PlaceOK(q, a, f, t, n) ==
  /\ n \in f .. (t + 1)
  /\ \A p \in f .. (n - 1) : Addr(q, p) =< a
  /\ \A p \in n .. t : Addr(q, p) >= a

(* In a sorted range the search meets no empty entry, and gives a place in *)
(* order unless it finds the same request.                                 *)
SortedAnswer(q, a, f, t, R) == R.fatal = FALSE /\ (R.found = FALSE => PlaceOK(q, a, f, t, R.next))

(* By induction over what is left to search: binary_search in a sorted     *)
(* range.                                                                  *)
LEMMA SearchSorted ==
  ASSUME NEW q, NEW r, NEW a \in Nat, a = r.log_addr, NEW f \in Nat, NEW t \in Int, Sorted(q, f, t),
         NEW x, Within(x), Narrowed(q, a, f, t, x)
  PROVE  SortedAnswer(q, a, f, t, Searching(q, r)[x])
<1>1. PICK S : S = {n \in Nat : \E y \in SearchState :
                      /\ Within(y) /\ Narrowed(q, a, f, t, y) /\ Left(y) = n
                      /\ ~SortedAnswer(q, a, f, t, Searching(q, r)[y])}
  OBVIOUS
<1>2. SUFFICES ASSUME ~SortedAnswer(q, a, f, t, Searching(q, r)[x])
               PROVE  FALSE
  OBVIOUS
<1>3. S \subseteq Nat /\ S # {}
  <2>1. x \in SearchState /\ Left(x) \in Nat
    BY LeftIs DEF Within
  <2>2. QED
    BY <1>1, <1>2, <2>1
<1>4. PICK n \in S : \A k \in S : n =< k
  BY <1>3, LeastNumber
<1>5. PICK y \in SearchState : /\ Within(y) /\ Narrowed(q, a, f, t, y) /\ Left(y) = n
                               /\ ~SortedAnswer(q, a, f, t, Searching(q, r)[y])
  BY <1>1, <1>4
<1>6. y.from \in Nat /\ y.to \in Int /\ y.check \in Int /\ y.next \in Int /\ Left(y) \in Nat
  BY <1>5, LeftIs
<1>7. /\ f =< y.from /\ y.from =< y.to + 1 /\ y.to =< t /\ y.next = y.to + 1
      /\ \A p \in f .. (y.from - 1) : Addr(q, p) =< a
      /\ \A p \in (y.to + 1) .. t : Addr(q, p) >= a
  BY <1>5 DEF Narrowed
<1>8. CASE y.from > y.to
  <2>1. PICK R : R = Searching(q, r)[y] /\ R = LastTurn(q, r, y)
    BY <1>8, SearchingTurn, Zenon DEF TooSmall, TooBig
  <2>2. R = Result(FALSE, y.next)
    BY <1>8, <2>1, Zenon DEF LastTurn
  <2>3. R.fatal = FALSE /\ R.next = y.next /\ y.next = y.from
    BY <1>6, <1>7, <1>8, <2>2 DEF Result
  <2>4. PlaceOK(q, a, f, t, y.next)
    BY <1>6, <1>7, <1>8 DEF PlaceOK
  <2>5. QED
    BY <1>5, <2>1, <2>3, <2>4 DEF SortedAnswer
<1>9. CASE y.from =< y.to
  <2>1. PICK c \in f .. t : c = y.check /\ c \in y.from .. y.to
    BY <1>5, <1>6, <1>7, <1>9 DEF Within
  <2>2. /\ ~IsNull(q, c) /\ Addr(q, c) \in Nat /\ ~(y.from > y.to)
        /\ \A p \in f .. t : Addr(q, p) \in Nat
        /\ \A p \in f .. (c - 1) : Addr(q, p) =< Addr(q, c)
        /\ \A p \in (c + 1) .. t : Addr(q, p) >= Addr(q, c)
    BY <1>6, <1>9, <2>1 DEF Sorted
  <2>3. CASE Addr(q, c) # a
    <3>1. TooSmall(q, r, y) \/ TooBig(q, r, y)
      BY <2>1, <2>2, <2>3 DEF TooSmall, TooBig, Addr
    <3>2. PICK z : z = NextTurn(q, r, y)
      OBVIOUS
    <3>3. /\ Within(z) /\ Left(z) < Left(y)
          /\ \/ TooSmall(q, r, y) /\ z.from = y.check + 1 /\ z.to = y.to /\ z.next = y.next
             \/ TooBig(q, r, y) /\ z.from = y.from /\ z.to = y.check - 1 /\ z.next = y.check
      <4>1. Turned(q, r, y, z)
        BY <1>5, <3>1, <3>2, TurnIs
      <4>2. QED
        BY <4>1 DEF Turned
    <3>4. z \in SearchState /\ Left(z) \in Nat
      BY <3>3, LeftIs DEF Within
    <3>5. Narrowed(q, a, f, t, z)
      <4>1. CASE TooSmall(q, r, y) /\ z.from = y.check + 1 /\ z.to = y.to /\ z.next = y.next
        <5>1. Addr(q, c) < a
          BY <2>1, <4>1 DEF TooSmall, Addr
        <5>2. \A p \in f .. c : Addr(q, p) =< a
          BY <2>1, <2>2, <5>1
        <5>3. QED
          BY <1>6, <1>7, <2>1, <4>1, <5>2 DEF Narrowed
      <4>2. CASE TooBig(q, r, y) /\ z.from = y.from /\ z.to = y.check - 1 /\ z.next = y.check
        <5>1. Addr(q, c) > a
          BY <2>1, <4>2 DEF TooBig, Addr
        <5>2. \A p \in c .. t : Addr(q, p) >= a
          BY <2>1, <2>2, <5>1
        <5>3. QED
          BY <1>6, <1>7, <2>1, <4>2, <5>2 DEF Narrowed
      <4>3. QED
        BY <3>3, <4>1, <4>2
    <3>6. Left(z) \notin S
      BY <1>4, <1>5, <1>6, <3>3, <3>4
    <3>7. SortedAnswer(q, a, f, t, Searching(q, r)[z])
      BY <1>1, <3>3, <3>4, <3>5, <3>6
    <3>8. Searching(q, r)[y] = Searching(q, r)[z]
      BY <3>1, <3>2, SearchingTurn, Zenon
    <3>9. QED
      BY <1>5, <3>7, <3>8
  <2>4. CASE Addr(q, c) = a
    <3>1. PICK R : R = Searching(q, r)[y] /\ R = LastTurn(q, r, y)
      <4>1. ~TooSmall(q, r, y) /\ ~TooBig(q, r, y)
        BY <2>1, <2>4 DEF TooSmall, TooBig, Addr
      <4>2. QED
        BY <4>1, SearchingTurn, Zenon
    <3>2. R = LocalSearch(q, r, y.from, y.to, c)
      BY <2>1, <2>2, <3>1, Zenon DEF LastTurn
    <3>3. /\ R.fatal = FALSE
          /\ R.found = FALSE =>
               \/ \E p \in y.from .. (c - 1) : IsNull(q, p)
               \/ /\ R.next \in (c + 1) .. (y.to + 1)
                  /\ \A k \in (c + 1) .. (R.next - 1) : SameAddr(q, k, r)
      <4>1. LocalOK(q, r, y.from, y.to, c, R)
        BY <1>6, <2>1, <3>2, LocalIs
      <4>2. QED
        BY <4>1, Zenon DEF LocalOK
    <3>4. \A p \in y.from .. (c - 1) : ~IsNull(q, p)
      <4>1. \A p \in y.from .. (c - 1) : p \in f .. t
        BY <1>6, <1>7, <2>1
      <4>2. QED
        BY <4>1 DEF Sorted
    <3>5. ASSUME R.found = FALSE
          PROVE  PlaceOK(q, a, f, t, R.next)
      <4>1. PICK m \in (c + 1) .. (y.to + 1) : m = R.next /\ \A k \in (c + 1) .. (m - 1) :
                   SameAddr(q, k, r)
        BY <3>3, <3>4, <3>5, Zenon
      <4>2. \A k \in (c + 1) .. (m - 1) : Addr(q, k) = a
        BY <4>1, Zenon DEF SameAddr, Addr
      <4>3. \A p \in f .. (m - 1) : Addr(q, p) =< a
        BY <1>6, <1>7, <2>1, <2>2, <2>4, <4>1, <4>2
      <4>4. \A p \in m .. t : Addr(q, p) >= a
        BY <1>6, <1>7, <2>1, <2>2, <2>4, <4>1
      <4>5. QED
        BY <1>6, <1>7, <2>1, <4>1, <4>3, <4>4 DEF PlaceOK
    <3>6. QED
      BY <1>5, <3>1, <3>3, <3>5 DEF SortedAnswer
  <2>5. QED
    BY <2>3, <2>4
<1>10. QED
  BY <1>6, <1>8, <1>9

------------------------------------------------------------------------------
(*****************************************************************************)
(* The inductive invariants.                                                 *)
(*****************************************************************************)

(* The hypotheses of the theorems.  No user submits at prio_urgent:        *)
(* insertrequest counts such a request at the wrong index (MCIoQueue runs  *)
(* without one). There is one arbiter: with two, requests are deleted out  *)
(* of turn, and the search meets the empty entries they leave              *)
(* (MCIoQueueArbiters).                                                    *)
NoUrgent == \A s \in Submissions : s.prio # prio_urgent
OneArbiter == \A a, b \in Arbiters : a = b

(* What a call carries with it, and where an arbiter has a request. *)
Searches == [class : prio_background .. prio_urgent, result : Results]
Calls == [req : {s.req : s \in Submissions}, prio : {s.prio : s \in Submissions}, ticket : Nat,
          search : {NoSearch} \cup Searches]
AtArbiter == {"fetch", "driver", "delete"}

(* The positions from locked_head on, and those from head on that are      *)
(* still to be scheduled.                                                  *)
Positions(q) == q.idx[locked_head] .. (q.idx[tail] - 1)
Schedulable(q) == q.idx[head] .. (q.idx[tail] - 1)

(* The id of the request at p, which $wait compares. *)
Id(q, p) == Request(q, p).lock_id

(* The indices are in order, and the zones fit: one block is free, and so  *)
(* is one cell behind the offset.                                          *)
ZonesOK(q) ==
  /\ q.offset =< q.idx[locked_head] /\ q.idx[locked_head] =< q.idx[head]
  /\ q.idx[head] =< q.idx[tail]
  /\ q.idx[tail] - q.idx[locked_head] =< IOQUEUE_MAX_REQUESTS - 1
  /\ q.idx[tail] - q.offset =< IOQUEUE_TOTAL_REQUESTS - 1

(* Only the locked zone has empty entries. *)
FullOK(q) == \A p \in Schedulable(q) : ~IsNull(q, p)

(* A list without duplicates, and its elements. *)
Distinct(s) == \A i, j \in DOMAIN s : s[i] = s[j] => i = j
Lists(s, b) == \E i \in DOMAIN s : s[i] = b

(* A block is at one position or in the freelist, and it is there once. *)
BlocksOK(q) ==
  /\ \A p, k \in Positions(q) : ~IsNull(q, p) /\ At(q, p) = At(q, k) => p = k
  /\ Distinct(q.freelist)
  /\ \A b \in Blocks : Lists(q.freelist, b) <=> (\A p \in Positions(q) : At(q, p) # b)

(* Each id given out is done or at one position. *)
RequestsOK(q) ==
  /\ q.done \subseteq 0 .. (q.next_lock[2] - 1)
  /\ \A p \in Positions(q) : ~IsNull(q, p) =>
       Request(q, p) \in ioqueue_request /\ Id(q, p) < q.next_lock[2] /\ Id(q, p) \notin q.done
  /\ \A p, k \in Positions(q) : ~IsNull(q, p) /\ ~IsNull(q, k) /\ Id(q, p) = Id(q, k) => p = k
  /\ \A id \in 0 .. (q.next_lock[2] - 1) : id \notin q.done =>
       \E p \in Positions(q) : ~IsNull(q, p) /\ Id(q, p) = id

(* The waiting lists count the same as the indices. *)
CountersOK(q) ==
  /\ q.next_lock[0] = q.idx[tail]
  /\ q.next_unlock[0] = q.idx[locked_head] + IOQUEUE_MAX_REQUESTS
  /\ q.next_unlock[1] = q.idx[tail]

(* Normal requests are sorted and come before background requests. *)
OrderOK(q) ==
  /\ q.idx[sched_background] =< q.idx[sched_normal] /\ q.idx[sched_normal] =< q.idx[tail]
  /\ \A p \in Schedulable(q) :
       Request(q, p).prio = IF p < q.idx[sched_normal] THEN prio_normal ELSE prio_background
  /\ \A p, k \in q.idx[head] .. (q.idx[sched_normal] - 1) : p < k => Addr(q, p) =< Addr(q, k)

(* The data of the io_queue between two steps. *)
DataOK(q) ==
  /\ q \in ioqueue_data /\ ZonesOK(q) /\ FullOK(q) /\ BlocksOK(q) /\ RequestsOK(q)
  /\ CountersOK(q) /\ OrderOK(q)

(* Where the threads are.  Who was let in by queue(:1:)$lock has a ticket  *)
(* that is free, and $wait waits for ids that were given out.              *)
ThreadsOK ==
  /\ pc \in [Users \cup Arbiters -> {"idle", "free", "enter", "body", "wait", "stuck",
             "start", "avail", "take", "fetch", "driver", "delete", "ended"}]
  /\ \A u \in Users : pc[u] \in {"idle", "free", "enter", "body", "wait", "stuck"}
  /\ \A a \in Arbiters : pc[a] \in {"start", "avail", "take", "ended"} \cup AtArbiter
  /\ arg \in [Users -> {NoArg} \cup Calls]
  /\ \A u \in Users : pc[u] \in {"free", "enter", "body"} => arg[u] \in Calls
  /\ \A u \in Users : pc[u] = "enter" => arg[u].ticket < d.next_unlock[0]
  /\ place \in [Arbiters -> Nat]
  /\ waits \in [Users -> [ids : SUBSET Nat, before : SUBSET Nat]]
  /\ \A u \in Users : waits[u].ids \subseteq waits[u].before /\ waits[u].before \subseteq Ids

(* The user in the body of $trans, or stuck in it, has lock[3]. *)
HolderOK ==
  /\ holder \in Users \cup {NoOne} /\ d.extlock = (holder # NoOne)
  /\ \A u \in Users : pc[u] \in {"body", "stuck"} <=> holder = u

(* The search of call x is still right: a fatal one met an empty entry of  *)
(* the locked zone, a found one is in a class not below the call's, and    *)
(* the place of any other keeps the order.                                 *)
SearchOK(q, x) ==
  LET s == x.search IN
  /\ s \in Searches
  /\ s.result.fatal => \E p \in q.idx[locked_head] .. (q.idx[head] - 1) : IsNull(q, p)
  /\ s.result.found => x.prio =< s.class
  /\ ~s.result.found /\ ~s.result.fatal =>
       IF x.prio = prio_normal
       THEN PlaceOK(q, x.req.log_addr, q.idx[head], q.idx[sched_normal] - 1, s.result.next)
       ELSE s.result.next = q.idx[sched_normal]

(* With the lock there is room for a request, and the sched_* indices do   *)
(* not lie before head.                                                    *)
RoomOK(q) ==
  /\ q.idx[tail] - q.idx[locked_head] =< IOQUEUE_MAX_REQUESTS - 2
  /\ q.idx[tail] - q.offset =< IOQUEUE_TOTAL_REQUESTS - 2
  /\ q.idx[head] =< q.idx[sched_normal] /\ q.idx[sched_background] = q.idx[sched_normal]

(* So it is for the user in the body: nobody else moves the entries. *)
BodyOK == \A u \in Users : pc[u] = "body" => RoomOK(d) /\ SearchOK(d, arg[u])

(* Each arbiter has a request of its own in the locked zone. *)
ArbitersOK ==
  /\ \A a \in Arbiters : pc[a] \in AtArbiter =>
       place[a] \in d.idx[locked_head] .. (d.idx[head] - 1) /\ ~IsNull(d, place[a])
  /\ \A a, b \in Arbiters : pc[a] \in AtArbiter /\ pc[b] \in AtArbiter /\ place[a] = place[b] =>
     a = b

(* C are the tickets of the arbiters who took a request.  There are as     *)
(* many of them as requests were taken.                                    *)
Taken(C) == /\ IsFiniteSet(C) /\ Cardinality(C) = d.idx[head]
            /\ \A c \in C : c < d.idx[tail]
            /\ \A a \in Arbiters : pc[a] \in {"avail", "take"} => place[a] \notin C

(* The arbiters' tickets: the ones used up are as many as head, so a       *)
(* ticket below tail that is not used up stands for a request to be        *)
(* scheduled.                                                              *)
TicketsOK ==
  /\ \E C \in SUBSET (0 .. (d.next_lock[1] - 1)) : Taken(C)
  /\ \A a \in Arbiters : pc[a] \in {"avail", "take"} => place[a] < d.next_lock[1]
  /\ \A a \in Arbiters : pc[a] = "take" => place[a] < d.idx[tail]
  /\ \A a, b \in Arbiters :
       pc[a] \in {"avail", "take"} /\ pc[b] \in {"avail", "take"} /\ place[a] = place[b] => a = b

(* The inductive invariant for any number of arbiters. *)
IInv == DataOK(d) /\ ThreadsOK /\ HolderOK /\ BodyOK /\ ArbitersOK /\ TicketsOK

(* The one request that $wait waits for is the last of those that were     *)
(* submitted before, in the order of the queue.                            *)
Drained(u) ==
  \/ waits[u].before \subseteq waits[u].ids
  \/ \E x \in waits[u].ids :
       /\ x \in d.done => waits[u].before \subseteq d.done
       /\ \A p, k \in Positions(d) : Id(d, p) = x /\ Id(d, k) \in waits[u].before => k =< p

(* With one arbiter the locked zone has one request or none. *)
InLine ==
  /\ \A p \in Positions(d) : ~IsNull(d, p)
  /\ \A a \in Arbiters : pc[a] \in AtArbiter => d.idx[head] = d.idx[locked_head] + 1
  /\ \A a \in Arbiters : pc[a] \in {"start", "avail", "take"} => d.idx[head] = d.idx[locked_head]

(* So it is for every user in $wait. *)
WaitsOK == \A u \in Users : Drained(u)

(* The inductive invariant for one arbiter, beside IInv. *)
SInv == InLine /\ AbortOnlyOnError /\ WaitsOK

USE DEF locked_head, head, sched_normal, sched_background, tail, insert_background,
        sched_urgent, prio_background, prio_normal, prio_urgent

------------------------------------------------------------------------------
(*****************************************************************************)
(* Cells, indices and fields of the queue.                                   *)
(*****************************************************************************)

(* The sizes of the two arrays. *)
LEMMA Sizes ==
  /\ IOQUEUE_MAX_REQUESTS \in Nat /\ IOQUEUE_MAX_REQUESTS >= 2
  /\ IOQUEUE_TOTAL_REQUESTS \in Nat /\ IOQUEUE_TOTAL_REQUESTS >= IOQUEUE_MAX_REQUESTS
  /\ NULLPTR \notin Blocks /\ NULLPTR = IOQUEUE_MAX_REQUESTS
  /\ Cells = 0 .. (IOQUEUE_TOTAL_REQUESTS - 1) /\ Blocks = 0 .. (IOQUEUE_MAX_REQUESTS - 1)
BY IoQueueAssumption DEF IOQUEUE_TOTAL_REQUESTS, NULLPTR, Blocks, Cells

(* The types of the fields of ioqueue_data. *)
LEMMA Fields ==
  ASSUME NEW q \in ioqueue_data
  PROVE  /\ q.queue \in [Cells -> Blocks \cup {NULLPTR}] /\ q.offset \in Nat
         /\ q.idx \in [0 .. 7 -> Nat]
         /\ q.idx[0] \in Nat /\ q.idx[1] \in Nat /\ q.idx[2] \in Nat /\ q.idx[3] \in Nat
         /\ q.idx[4] \in Nat
         /\ q.request \in [Blocks -> ioqueue_request \cup {Zeroed}] /\ q.freelist \in Seq(Blocks)
         /\ q.next_lock \in [0 .. 2 -> Nat] /\ q.next_unlock \in [0 .. 1 -> Nat]
         /\ q.next_lock[0] \in Nat /\ q.next_lock[1] \in Nat /\ q.next_lock[2] \in Nat
         /\ q.next_unlock[0] \in Nat /\ q.next_unlock[1] \in Nat
         /\ q.done \in SUBSET Nat /\ q.extlock \in BOOLEAN /\ q.error_state \in BOOLEAN
<1>1. /\ q.queue \in [Cells -> Blocks \cup {NULLPTR}] /\ q.offset \in Nat
      /\ q.idx \in [0 .. 7 -> Nat]
      /\ q.request \in [Blocks -> ioqueue_request \cup {Zeroed}] /\ q.freelist \in Seq(Blocks)
      /\ q.next_lock \in [0 .. 2 -> Nat] /\ q.next_unlock \in [0 .. 1 -> Nat]
      /\ q.done \in SUBSET Nat /\ q.extlock \in BOOLEAN /\ q.error_state \in BOOLEAN
  BY DEF ioqueue_data
<1>2. \A i \in 0 .. 7 : q.idx[i] \in Nat
  BY <1>1
<1>3. \A i \in 0 .. 2 : q.next_lock[i] \in Nat
  BY <1>1
<1>4. \A i \in 0 .. 1 : q.next_unlock[i] \in Nat
  BY <1>1
<1>5. 0 \in 0 .. 7 /\ 1 \in 0 .. 7 /\ 2 \in 0 .. 7 /\ 3 \in 0 .. 7 /\ 4 \in 0 .. 7
  OBVIOUS
<1>6. 0 \in 0 .. 2 /\ 1 \in 0 .. 2 /\ 2 \in 0 .. 2 /\ 0 \in 0 .. 1 /\ 1 \in 0 .. 1
  OBVIOUS
<1>7. QED
  BY <1>1, <1>2, <1>3, <1>4, <1>5, <1>6, Zenon

(* A position of the queue has a cell. *)
LEMMA CellIs ==
  ASSUME NEW q \in ioqueue_data, ZonesOK(q), NEW p \in Positions(q)
  PROVE  /\ p \in Nat /\ Cell(q, p) \in Cells /\ At(q, p) \in Blocks \cup {NULLPTR}
         /\ ~IsNull(q, p) => At(q, p) \in Blocks
<1>1. /\ q.offset \in Nat /\ q.idx[0] \in Nat /\ q.idx[4] \in Nat
      /\ q.queue \in [Cells -> Blocks \cup {NULLPTR}]
  BY Fields
<1>2. p \in Nat /\ q.idx[0] =< p /\ p < q.idx[4]
  BY <1>1 DEF Positions
<1>3. q.offset =< q.idx[0] /\ q.idx[4] - q.offset =< IOQUEUE_TOTAL_REQUESTS - 1
  BY DEF ZonesOK
<1>4. Cell(q, p) \in Cells
  BY <1>1, <1>2, <1>3, Sizes DEF Cell
<1>5. At(q, p) \in Blocks \cup {NULLPTR}
  BY <1>1, <1>4 DEF At
<1>6. QED
  BY <1>2, <1>4, <1>5 DEF IsNull

(* The same queue at other cells, or with other marks, or with less to schedule. *)
SameQueue(q, y) ==
  /\ y.idx[0] = q.idx[0] /\ y.idx[4] = q.idx[4]
  /\ q.idx[1] =< y.idx[1] /\ y.idx[1] =< y.idx[4]
  /\ y.freelist = q.freelist /\ y.done = q.done
  /\ y.next_lock[0] = q.next_lock[0] /\ y.next_lock[2] = q.next_lock[2]
  /\ y.next_unlock = q.next_unlock
  /\ \A p \in Positions(q) : At(y, p) = At(q, p)
  /\ \A p \in Positions(q) : ~IsNull(q, p) =>
       /\ Request(y, p) \in ioqueue_request /\ Request(y, p).req = Request(q, p).req
       /\ Request(y, p).prio = Request(q, p).prio /\ Request(y, p).lock_id = Request(q, p).lock_id
  /\ y.offset =< y.idx[0] /\ y.idx[4] - y.offset =< IOQUEUE_TOTAL_REQUESTS - 1
  /\ y.idx[3] =< y.idx[2] /\ y.idx[2] =< y.idx[4]
  /\ \A p \in Schedulable(y) : p < y.idx[2] <=> p < q.idx[2]

(* A queue with the same entries is in order, too. *)
LEMMA SameQueueOK ==
  ASSUME NEW q, DataOK(q), NEW y \in ioqueue_data, SameQueue(q, y)
  PROVE  DataOK(y)
<1>1. q \in ioqueue_data
  BY DEF DataOK
<1>2. /\ q.idx[0] \in Nat /\ q.idx[1] \in Nat /\ q.idx[2] \in Nat /\ q.idx[3] \in Nat
         /\ q.idx[4] \in Nat
      /\ y.idx[0] \in Nat /\ y.idx[1] \in Nat /\ y.idx[2] \in Nat /\ y.idx[3] \in Nat
         /\ y.idx[4] \in Nat
  BY <1>1, Fields
<1>3. Positions(y) = Positions(q)
  BY DEF SameQueue, Positions
<1>4. \A p \in Schedulable(y) : p \in Schedulable(q) /\ p \in Positions(q)
  BY <1>2 DEF SameQueue, Schedulable, Positions, DataOK, ZonesOK
<1>5. \A p \in Positions(q) : IsNull(y, p) <=> IsNull(q, p)
  BY DEF SameQueue, IsNull
<1>6. ZonesOK(y)
  BY <1>2 DEF SameQueue, DataOK, ZonesOK
<1>7. FullOK(y)
  BY <1>4, <1>5 DEF FullOK, DataOK
<1>8. BlocksOK(y)
  BY <1>3, <1>5 DEF BlocksOK, DataOK, SameQueue
<1>9. RequestsOK(y)
  BY <1>3, <1>5 DEF RequestsOK, DataOK, SameQueue, Id
<1>10. CountersOK(y)
  BY DEF CountersOK, DataOK, SameQueue
<1>11. OrderOK(y)
  <2>1. \A p \in Schedulable(y) : Request(y, p).prio = Request(q, p).prio /\ Addr(y, p) = Addr(q, p)
    BY <1>4 DEF SameQueue, DataOK, FullOK, Addr
  <2>2. \A p \in Schedulable(y) :
          Request(y, p).prio = IF p < y.idx[2] THEN prio_normal ELSE prio_background
    BY <1>4, <2>1 DEF SameQueue, DataOK, OrderOK
  <2>3. \A p \in y.idx[1] .. (y.idx[2] - 1) : p \in Schedulable(y)
        /\ p \in q.idx[1] .. (q.idx[2] - 1)
    <3>1. ASSUME NEW p \in y.idx[1] .. (y.idx[2] - 1)
          PROVE  p \in Schedulable(y) /\ p \in q.idx[1] .. (q.idx[2] - 1)
      <4>1. p \in Schedulable(y) /\ p < y.idx[2] /\ q.idx[1] =< p
        BY <1>2 DEF Schedulable, SameQueue
      <4>2. p < q.idx[2]
        BY <4>1 DEF SameQueue
      <4>3. QED
        BY <1>2, <4>1, <4>2
    <3>2. QED
      BY <3>1
  <2>4. \A p, k \in y.idx[1] .. (y.idx[2] - 1) : p < k => Addr(y, p) =< Addr(y, k)
    BY <2>1, <2>3 DEF DataOK, OrderOK
  <2>5. QED
    BY <2>2, <2>4 DEF OrderOK, SameQueue
<1>12. QED
  BY <1>6, <1>7, <1>8, <1>9, <1>10, <1>11 DEF DataOK

------------------------------------------------------------------------------
(*****************************************************************************)
(* $lock: make_valid and the indices the submitter finds.                    *)
(*****************************************************************************)

(* The maximum of two numbers. *)
LEMMA MaxTwo ==
  ASSUME NEW a \in Nat, NEW b \in Nat
  PROVE  Max({a, b}) = IF a >= b THEN a ELSE b
<1>1. PICK m \in {a, b} : \A y \in {a, b} : m >= y
  OBVIOUS
<1>2. Max({a, b}) \in {a, b} /\ \A y \in {a, b} : Max({a, b}) >= y
  BY <1>1, Zenon DEF Max
<1>3. PICK n : n = Max({a, b})
  OBVIOUS
<1>4. n \in {a, b} /\ n >= a /\ n >= b
  BY <1>2, <1>3, Zenon
<1>5. n = IF a >= b THEN a ELSE b
  BY <1>4
<1>6. QED
  BY <1>3, <1>5, Zenon

(* make_valid keeps every entry and leaves room for two more. *)
LEMMA MadeValid ==
  ASSUME NEW q, DataOK(q), q.idx[4] + 1 < q.next_unlock[0], NEW m, m = make_valid(q, q.idx[4] + 1)
  PROVE  /\ m \in ioqueue_data
         /\ m.idx = q.idx /\ m.freelist = q.freelist /\ m.done = q.done /\ m.request = q.request
         /\ m.next_lock = q.next_lock /\ m.next_unlock = q.next_unlock
         /\ m.error_state = q.error_state /\ m.extlock = q.extlock
         /\ m.offset =< q.idx[0] /\ q.idx[4] - m.offset =< IOQUEUE_TOTAL_REQUESTS - 2
         /\ \A p \in Positions(q) : At(m, p) = At(q, p)
<1>0. q \in ioqueue_data /\ ZonesOK(q) /\ CountersOK(q)
  BY DEF DataOK
<1>1. PICK o \in Nat, l \in Nat, h \in Nat, t \in Nat :
        o = q.offset /\ l = q.idx[0] /\ h = q.idx[1] /\ t = q.idx[4]
  BY <1>0, Fields
<1>1a. q.queue \in [Cells -> Blocks \cup {NULLPTR}]
  BY <1>0, Fields
<1>2. /\ o =< l /\ l =< t /\ t - o =< IOQUEUE_TOTAL_REQUESTS - 1
      /\ t - l =< IOQUEUE_MAX_REQUESTS - 2
  <2>1. t + 1 < l + IOQUEUE_MAX_REQUESTS
    BY <1>0, <1>1, Zenon DEF CountersOK, locked_head
  <2>2. l =< h /\ h =< t /\ o =< l /\ t - o =< IOQUEUE_TOTAL_REQUESTS - 1
    BY <1>0, <1>1, Zenon DEF ZonesOK, locked_head, head, tail
  <2>3. QED
    BY <2>1, <2>2, Sizes
<1>3. CASE Cell(q, q.idx[4] + 1) < IOQUEUE_TOTAL_REQUESTS
  <2>1. m = q
    BY <1>3, Zenon DEF make_valid
  <2>2. (t + 1) - o < IOQUEUE_TOTAL_REQUESTS
    BY <1>1, <1>3, Zenon DEF Cell
  <2>3. t - o =< IOQUEUE_TOTAL_REQUESTS - 2
    BY <2>2, Sizes
  <2>4. m.offset =< q.idx[0] /\ q.idx[4] - m.offset =< IOQUEUE_TOTAL_REQUESTS - 2
    BY <1>1, <1>2, <2>1, <2>3, Zenon
  <2>5. QED
    BY <1>0, <2>1, <2>4, Zenon
<1>4. CASE ~(Cell(q, q.idx[4] + 1) < IOQUEUE_TOTAL_REQUESTS)
  <2>1. PICK c \in Nat : c = l - o
    BY <1>2
  <2>2. PICK used \in Nat : used = t - l /\ used = t - o - c
    BY <1>2, <2>1
  <2>4. PICK z : z = [i \in Cells |-> IF i < used THEN q.queue[i + c] ELSE q.queue[i]]
    OBVIOUS
  <2>5. \A i \in Cells : i < used => i + c \in Cells
    BY <1>2, <2>1, <2>2, Sizes
  <2>6. z \in [Cells -> Blocks \cup {NULLPTR}]
    BY <1>1a, <2>4, <2>5
  <2>7. m = [q EXCEPT !.queue = z, !.offset = o + c]
    <3>1. c = Cell(q, q.idx[0]) /\ used = Cell(q, q.idx[4]) - c
      BY <1>1, <2>1, <2>2, Zenon DEF Cell
    <3>2. m = [q EXCEPT !.queue = [i \in Cells |-> IF i < used THEN q.queue[i + c] ELSE q.queue[i]],
                        !.offset = q.offset + c]
      BY <1>4, <3>1, Zenon DEF make_valid, locked_head, tail
    <3>3. QED
      BY <1>1, <2>4, <3>2, Zenon
  <2>8. o + c = l
    BY <2>1, <1>2
  <2>9. /\ m \in ioqueue_data
        /\ m.idx = q.idx /\ m.freelist = q.freelist /\ m.done = q.done /\ m.request = q.request
        /\ m.next_lock = q.next_lock /\ m.next_unlock = q.next_unlock
        /\ m.error_state = q.error_state /\ m.extlock = q.extlock
        /\ m.offset = l /\ m.queue = z
    BY <1>0, <2>6, <2>7, <2>8 DEF ioqueue_data
  <2>10. ASSUME NEW p \in Positions(q)
         PROVE  At(m, p) = At(q, p)
    <3>1. PICK k \in Nat : k = p /\ l =< k /\ k < t
      <4>1. p \in l .. (t - 1)
        BY <1>1, Zenon DEF Positions, locked_head, tail
      <4>2. QED
        BY <4>1
    <3>2. k - l \in Cells /\ k - l < used /\ (k - l) + c = k - o
      BY <1>2, <2>1, <2>2, <3>1, Sizes
    <3>3. z[k - l] = q.queue[k - o]
      BY <2>4, <3>2
    <3>4. QED
      BY <1>1, <2>9, <3>1, <3>3, Zenon DEF At, Cell
  <2>11. t - l =< IOQUEUE_TOTAL_REQUESTS - 2 /\ l =< l
    BY <1>2, Sizes
  <2>12. m.offset =< q.idx[0] /\ q.idx[4] - m.offset =< IOQUEUE_TOTAL_REQUESTS - 2
    BY <1>1, <2>9, <2>11, Zenon
  <2>13. QED
    BY <2>9, <2>10, <2>12, Zenon
<1>5. QED
  BY <1>3, <1>4, Zenon

(* What $lock leaves to a submitter. *)
Entered(q, y) ==
  /\ y \in ioqueue_data /\ SameQueue(q, y) /\ RoomOK(y)
  /\ y.idx[0] = q.idx[0] /\ y.idx[1] = q.idx[1] /\ y.idx[4] = q.idx[4]
  /\ y.next_lock = q.next_lock /\ y.error_state = q.error_state /\ y.request = q.request

(* What make_valid and the correction of the sched_* indices leave. *)
LEMMA ValidatedIs ==
  ASSUME NEW q, DataOK(q), q.idx[4] + 1 < q.next_unlock[0],
         NEW y, y = Validated(make_valid(q, q.idx[4] + 1))
  PROVE  Entered(q, y)
<1>1. PICK m : m = make_valid(q, q.idx[4] + 1)
  OBVIOUS
<1>2. /\ m \in ioqueue_data
      /\ m.idx = q.idx /\ m.freelist = q.freelist /\ m.done = q.done /\ m.request = q.request
      /\ m.next_lock = q.next_lock /\ m.next_unlock = q.next_unlock
      /\ m.error_state = q.error_state /\ m.extlock = q.extlock
      /\ m.offset =< q.idx[0] /\ q.idx[4] - m.offset =< IOQUEUE_TOTAL_REQUESTS - 2
      /\ \A p \in Positions(q) : At(m, p) = At(q, p)
  BY <1>1, MadeValid, Zenon
<1>3. q \in ioqueue_data /\ ZonesOK(q) /\ OrderOK(q) /\ CountersOK(q) /\ RequestsOK(q)
  BY DEF DataOK
<1>4. PICK l \in Nat, h \in Nat, n0 \in Nat, b0 \in Nat, t \in Nat :
        l = q.idx[0] /\ h = q.idx[1] /\ n0 = q.idx[2] /\ b0 = q.idx[3] /\ t = q.idx[4]
  BY <1>3, Fields
<1>4a. b0 =< n0 /\ n0 =< t /\ l =< h /\ h =< t
  BY <1>3, <1>4, Zenon DEF OrderOK, ZonesOK, sched_normal, sched_background, tail, head, locked_head
<1>5. PICK n \in Nat : n = Max({n0, h}) /\ n = IF n0 >= h THEN n0 ELSE h
  BY MaxTwo
<1>6. b0 =< n /\ h =< n /\ n =< t
  BY <1>4a, <1>5
<1>7. Max({b0, n}) = n
  BY <1>6, MaxTwo
<1>8. PICK x : x = [q.idx EXCEPT ![2] = n, ![3] = n]
  OBVIOUS
<1>9. x \in [0 .. 7 -> Nat] /\ x[0] = l /\ x[1] = h /\ x[2] = n /\ x[3] = n /\ x[4] = t
  <2>1. q.idx \in [0 .. 7 -> Nat]
    BY <1>3, Fields
  <2>2. PICK w \in [0 .. 7 -> Nat] : w = q.idx
    BY <2>1
  <2>3. w[0] = l /\ w[1] = h /\ w[4] = t
    BY <1>4, <2>2, Zenon
  <2>4. x = [w EXCEPT ![2] = n, ![3] = n]
    BY <1>8, <2>2, Zenon
  <2>5. QED
    BY <2>3, <2>4
<1>10. y = [m EXCEPT !.idx = x]
  <2>1. Max({m.idx[2], m.idx[1]}) = n /\ Max({m.idx[3], n}) = n
    BY <1>2, <1>4, <1>5, <1>7, Zenon
  <2>2. y = [[m EXCEPT !.idx = [m.idx EXCEPT ![2] = n]] EXCEPT
                       !.idx = [[m EXCEPT !.idx = [m.idx EXCEPT ![2] = n]].idx EXCEPT ![3] = n]]
    BY <1>1, <2>1, Zenon DEF Validated, sched_normal, sched_background, sched_urgent, head
  <2>3. QED
    BY <1>2, <1>8, <2>2 DEF ioqueue_data
<1>11. /\ y \in ioqueue_data /\ y.idx = x
       /\ y.freelist = q.freelist /\ y.done = q.done /\ y.request = q.request
       /\ y.next_lock = q.next_lock /\ y.next_unlock = q.next_unlock
       /\ y.error_state = q.error_state /\ y.queue = m.queue /\ y.offset = m.offset
  BY <1>2, <1>9, <1>10 DEF ioqueue_data
<1>12. \A p \in Positions(q) : At(y, p) = At(q, p)
  BY <1>2, <1>11 DEF At, Cell
<1>13. y.idx[0] = l /\ y.idx[1] = h /\ y.idx[4] = t /\ y.idx[2] = n /\ y.idx[3] = n
  BY <1>9, <1>11, Zenon
<1>14. \A p \in Positions(q) : ~IsNull(q, p) =>
       /\ Request(y, p) \in ioqueue_request /\ Request(y, p) = Request(q, p)
  BY <1>3, <1>11, <1>12 DEF RequestsOK, Request
<1>16. \A p \in Schedulable(y) : p < y.idx[2] <=> p < q.idx[2]
  <2>1. \A p \in h .. (t - 1) : p < n <=> p < n0
    BY <1>5
  <2>2. QED
    BY <1>4, <1>13, <2>1, Zenon DEF Schedulable, head, tail
<1>17. PICK o \in Nat : o = y.offset /\ o = m.offset
  BY <1>11, Fields
<1>18. o =< l /\ t - o =< IOQUEUE_TOTAL_REQUESTS - 2
  BY <1>2, <1>4, <1>17, Zenon
<1>19. t - o =< IOQUEUE_TOTAL_REQUESTS - 1 /\ n =< n /\ h =< h
  BY <1>18, Sizes
<1>20. SameQueue(q, y)
  BY <1>4, <1>4a, <1>6, <1>11, <1>12, <1>13, <1>14, <1>16, <1>17, <1>18, <1>19, Zenon
  DEF SameQueue, sched_normal, sched_background, tail, head, locked_head
<1>21. RoomOK(y)
  <2>1. t + 1 < l + IOQUEUE_MAX_REQUESTS
    BY <1>3, <1>4, Zenon DEF CountersOK, locked_head
  <2>2. t - l =< IOQUEUE_MAX_REQUESTS - 2
    BY <2>1, Sizes
  <2>3. QED
    BY <1>6, <1>13, <1>17, <1>18, <2>2, Zenon
    DEF RoomOK, sched_normal, sched_background, tail, head, locked_head
<1>22. QED
  BY <1>4, <1>11, <1>13, <1>20, <1>21, Zenon DEF Entered

------------------------------------------------------------------------------
(*****************************************************************************)
(* What the search of a submitter finds.                                     *)
(*****************************************************************************)

(* The first turn of the search of positions f to t, a place from the start. *)
Starts(q, r, f, t, n, R) ==
  \E x \in SearchState : /\ Within(x) /\ x.from = f /\ x.to = t /\ x.next = n
                         /\ R = Searching(q, r)[x]

(* binary_search begins in the middle, unless it is given a place. *)
LEMMA SearchStarts ==
  ASSUME NEW q, NEW r, NEW f \in Nat, NEW t \in Int, NEW c \in Int, NEW n \in Int
  PROVE  Starts(q, r, f, t, n, binary_search(q, r, f, t, c, n))
<1>1. CASE c \in f .. t
  <2>1. PICK x : x = [from |-> f, to |-> t, check |-> c, next |-> n]
    OBVIOUS
  <2>2. x \in SearchState /\ x.from = f /\ x.to = t /\ x.next = n /\ x.check = c
    BY <2>1 DEF SearchState
  <2>3. Within(x)
    BY <1>1, <2>2 DEF Within
  <2>4. binary_search(q, r, f, t, c, n) = Searching(q, r)[x]
    BY <1>1, <2>1, Zenon DEF binary_search
  <2>5. QED
    BY <2>2, <2>3, <2>4, Zenon DEF Starts
<1>2. CASE c \notin f .. t
  <2>1. PICK x : x = Middle(f, t, n)
    OBVIOUS
  <2>2. x \in SearchState /\ x.from = f /\ x.to = t /\ x.next = n /\ (f =< t => x.check \in f .. t)
    BY <2>1, MiddleIs
  <2>3. Within(x)
    BY <2>2 DEF Within
  <2>4. binary_search(q, r, f, t, c, n) = Searching(q, r)[x]
    BY <1>2, <2>1, Zenon DEF binary_search
  <2>5. QED
    BY <2>2, <2>3, <2>4, Zenon DEF Starts
<1>3. QED
  BY <1>1, <1>2

(* The search in a class that is empty. *)
LEMMA SearchEmpty ==
  ASSUME NEW q, NEW r, NEW f \in Nat, NEW t \in Int, NEW n \in Int, f > t,
         NEW R, Starts(q, r, f, t, n, R)
  PROVE  R = Result(FALSE, n)
<1>1. PICK x \in SearchState : Within(x) /\ x.from = f /\ x.to = t /\ x.next = n
                               /\ R = Searching(q, r)[x]
  BY Zenon DEF Starts
<1>2. x.from > x.to
  BY <1>1
<1>3. R = LastTurn(q, r, x)
  BY <1>1, <1>2, SearchingTurn, Zenon DEF TooSmall, TooBig
<1>4. QED
  BY <1>1, <1>2, <1>3, Zenon DEF LastTurn

(* The results of the classes urgent, normal and background. *)
LEMMA UrgentSearch ==
  ASSUME NEW q, NEW r, NEW f \in Nat, NEW t \in Int, NEW n \in Int, NEW R, Starts(q, r, f, t, n, R)
  PROVE  R \in Results /\ (R.fatal => \E p \in f .. t : IsNull(q, p))
<1>1. PICK x \in SearchState : Within(x) /\ x.from = f /\ x.to = t /\ x.next = n
                               /\ R = Searching(q, r)[x]
  BY Zenon DEF Starts
<1>2. AnswerOK(q, x, R)
  BY <1>1, SearchEnds, Zenon
<1>3. QED
  BY <1>1, <1>2, Zenon DEF AnswerOK

LEMMA NormalSearch ==
  ASSUME NEW q, NEW r, NEW a \in Nat, a = r.log_addr, NEW f \in Nat, NEW n \in Nat, f =< n,
         NEW t \in Int, t = n - 1, Sorted(q, f, t), NEW R, Starts(q, r, f, t, n, R)
  PROVE  R \in Results /\ SortedAnswer(q, a, f, t, R)
<1>1. PICK x \in SearchState : Within(x) /\ x.from = f /\ x.to = t /\ x.next = n
                               /\ R = Searching(q, r)[x]
  BY Zenon DEF Starts
<1>2. R \in Results
  <2>1. n \in Int
    OBVIOUS
  <2>2. QED
    BY <2>1, UrgentSearch, Zenon
<1>3. Narrowed(q, a, f, t, x)
  BY <1>1 DEF Narrowed
<1>4. SortedAnswer(q, a, f, t, R)
  BY <1>1, <1>3, SearchSorted, Zenon
<1>5. QED
  BY <1>2, <1>4

(* The fields of a request. *)
LEMMA SubmittedIs ==
  ASSUME NEW R \in ioqueue_request
  PROVE  /\ R = [req |-> R.req, prio |-> R.prio, stop |-> R.stop, lock_id |-> R.lock_id]
         /\ R.req.log_addr \in Nat /\ R.lock_id \in Nat
<1>1. PICK s \in Submissions : R.req = s.req
  BY DEF ioqueue_request
<1>2. R.req.log_addr \in Nat
  BY <1>1, IoQueueAssumption, Zenon
<1>3. QED
  BY <1>2 DEF ioqueue_request

(* What search gives to the submitter. *)
LEMMA SearchAllOK ==
  ASSUME NEW q, DataOK(q), RoomOK(q), NEW x, x.req.log_addr \in Nat, x.prio \in {1, 2},
         x.search = SearchAll(q, x.req, x.prio)
  PROVE  SearchOK(q, x)
<1>1. q \in ioqueue_data /\ ZonesOK(q) /\ FullOK(q) /\ OrderOK(q) /\ RequestsOK(q)
  BY DEF DataOK
<1>2. PICK l \in Nat, h \in Nat, n \in Nat, t \in Nat :
        l = q.idx[0] /\ h = q.idx[1] /\ n = q.idx[2] /\ n = q.idx[3] /\ t = q.idx[4]
  BY <1>1, Fields, Zenon DEF RoomOK, sched_normal, sched_background
<1>2a. l =< h /\ h =< t /\ h =< n /\ n =< t
  BY <1>1, <1>2, Zenon DEF ZonesOK, OrderOK, RoomOK, locked_head, head, tail, sched_normal,
     sched_background
<1>2b. h - 1 \in Int /\ n - 1 \in Int /\ n > n - 1
  BY <1>2
<1>3a. PICK r : r = x.req
  OBVIOUS
<1>3b. PICK a \in Nat : a = r.log_addr
  BY <1>3a
<1>3c. PICK pr \in {1, 2} : pr = x.prio
  OBVIOUS
<1>3. r = x.req /\ a = r.log_addr /\ pr = x.prio /\ a = x.req.log_addr
  BY <1>3a, <1>3b, <1>3c, Zenon
<1>4. PICK s3 : s3 = search(q, r, 3)
  OBVIOUS
<1>5. PICK s2 : s2 = search(q, r, 2)
  OBVIOUS
<1>6. PICK s1 : s1 = search(q, r, 1)
  OBVIOUS
<1>7. q.idx[4] \in Nat /\ q.idx[5] \in Int /\ q.idx[6] \in Int
  <2>1. q.idx \in [0 .. 7 -> Nat]
    BY <1>1, Fields
  <2>2. QED
    BY <2>1
<1>8. Starts(q, r, l, h - 1, h, s3)
  <2>1. s3 = binary_search(q, r, q.idx[3 - 3], q.idx[3 - 3 + 1] - 1, q.idx[7 - 3], q.idx[3 - 3 + 1])
    BY <1>4, Zenon DEF search, sched_background, insert_background
  <2>2. 3 - 3 = 0 /\ 3 - 3 + 1 = 1 /\ 7 - 3 = 4
    OBVIOUS
  <2>3. s3 = binary_search(q, r, l, h - 1, q.idx[4], h)
    BY <1>2, <2>1, <2>2, Zenon
  <2>4. q.idx[4] \in Int
    BY <1>2
  <2>5. h \in Int
    OBVIOUS
  <2>6. QED
    BY <1>2b, <2>3, <2>4, <2>5, SearchStarts, Zenon
<1>9. Starts(q, r, h, n - 1, n, s2)
  <2>1. s2 = binary_search(q, r, q.idx[3 - 2], q.idx[3 - 2 + 1] - 1, q.idx[7 - 2], q.idx[3 - 2 + 1])
    BY <1>5, Zenon DEF search, sched_background, insert_background
  <2>2. 3 - 2 = 1 /\ 3 - 2 + 1 = 2 /\ 7 - 2 = 5
    OBVIOUS
  <2>3. s2 = binary_search(q, r, h, n - 1, q.idx[5], n)
    BY <1>2, <2>1, <2>2, Zenon
  <2>5. n \in Int
    OBVIOUS
  <2>6. QED
    BY <1>2b, <1>7, <2>3, <2>5, SearchStarts, Zenon
<1>10. Starts(q, r, n, n - 1, n, s1)
  <2>1. s1 = binary_search(q, r, q.idx[3 - 1], q.idx[3 - 1 + 1] - 1, q.idx[7 - 1], q.idx[3 - 1 + 1])
    BY <1>6, Zenon DEF search, sched_background, insert_background
  <2>2. 3 - 1 = 2 /\ 3 - 1 + 1 = 3 /\ 7 - 1 = 6
    OBVIOUS
  <2>3. s1 = binary_search(q, r, n, n - 1, q.idx[6], n)
    BY <1>2, <2>1, <2>2, Zenon
  <2>5. n \in Int
    OBVIOUS
  <2>6. QED
    BY <1>2b, <1>7, <2>3, <2>5, SearchStarts, Zenon
<1>11. s1 \in Results /\ s1.found = FALSE /\ s1.fatal = FALSE /\ s1.next = n
  <2>1. n \in Int
    OBVIOUS
  <2>2. s1 = Result(FALSE, n)
    BY <1>2b, <1>10, <2>1, SearchEmpty, Zenon
  <2>3. s1.found = FALSE
    BY <2>2 DEF Result
  <2>4. QED
    BY <2>1, <2>2, <2>3, ResultIs
<1>12. s3 \in Results /\ (s3.fatal => \E p \in l .. (h - 1) : IsNull(q, p))
  <2>1. h \in Int
    OBVIOUS
  <2>2. QED
    BY <1>2b, <1>8, <2>1, UrgentSearch, Zenon
<1>13. s2 \in Results /\ s2.fatal = FALSE /\ (s2.found = FALSE => PlaceOK(q, a, h, n - 1, s2.next))
  <2>1. \A p \in h .. (n - 1) : ~IsNull(q, p) /\ Addr(q, p) \in Nat
    <3>1. ASSUME NEW p \in h .. (n - 1)
          PROVE  ~IsNull(q, p) /\ Addr(q, p) \in Nat
      <4>1. p \in h .. (t - 1) /\ p \in l .. (t - 1)
        BY <1>2a
      <4>2. p \in Schedulable(q) /\ p \in Positions(q)
        BY <1>2, <4>1, Zenon DEF Schedulable, Positions, head, locked_head, tail
      <4>3. ~IsNull(q, p)
        BY <1>1, <4>2, Zenon DEF FullOK
      <4>4. Request(q, p) \in ioqueue_request
        BY <1>1, <4>2, <4>3, Zenon DEF RequestsOK
      <4>5. QED
        BY <4>3, <4>4, SubmittedIs DEF Addr
    <3>2. QED
      BY <3>1
  <2>2. \A p, k \in h .. (n - 1) : p < k => Addr(q, p) =< Addr(q, k)
    BY <1>1, <1>2, Zenon DEF OrderOK, head, sched_normal
  <2>3. Sorted(q, h, n - 1)
    BY <2>1, <2>2, Zenon DEF Sorted
  <2>4. PICK t2 \in Int : t2 = n - 1
    BY <1>2b
  <2>5. s2 \in Results /\ SortedAnswer(q, a, h, t2, s2)
    BY <1>2a, <1>3, <1>9, <2>3, <2>4, NormalSearch, Zenon
  <2>6. QED
    BY <2>4, <2>5, Zenon DEF SortedAnswer
<1>14. PICK s : s = [k \in 1 .. 3 |-> search(q, r, k)]
  OBVIOUS
<1>15. DOMAIN s = 1 .. 3 /\ s[1] = s1 /\ s[2] = s2 /\ s[3] = s3
  <2>1. 1 \in 1 .. 3 /\ 2 \in 1 .. 3 /\ 3 \in 1 .. 3
    OBVIOUS
  <2>2. QED
    BY <1>4, <1>5, <1>6, <1>14, <2>1, Zenon
<1>16. PICK ends : ends = {k \in 1 .. 3 : s[k].found \/ s[k].fatal}
  OBVIOUS
<1>17. x.search = IF ends = {} THEN [class |-> pr, result |-> s[pr]]
                  ELSE [class |-> Max(ends), result |-> s[Max(ends)]]
  BY <1>3, <1>14, <1>15, <1>16, Zenon DEF SearchAll, prio_background, prio_urgent
<1>18. \A k \in ends : k = 2 \/ k = 3
  <2>1. ASSUME NEW k \in ends
        PROVE  k # 1
    BY <1>11, <1>15, <1>16, <2>1
  <2>2. \A k \in ends : k \in 1 .. 3
    BY <1>16
  <2>3. QED
    BY <2>1, <2>2
<1>19. CASE ends = {}
  <2>1. x.search = [class |-> pr, result |-> s[pr]]
    BY <1>17, <1>19, Zenon
  <2>2. pr \in 1 .. 3 /\ ~(s[pr].found \/ s[pr].fatal)
    BY <1>16, <1>19
  <2>3. CASE pr = 2
    <3>1. x.search = [class |-> 2, result |-> s2]
      BY <1>15, <2>1, <2>3, Zenon
    <3>2. s2.found = FALSE
      BY <1>13, <1>15, <2>2, <2>3 DEF Results
    <3>3. x.search \in Searches /\ x.search.class = 2 /\ x.search.result = s2
      BY <1>13, <3>1 DEF Searches
    <3>4. SearchOK(q, x)
      BY <1>2, <1>3, <1>13, <2>3, <3>2, <3>3 DEF SearchOK
    <3>5. QED
      BY <3>4
  <2>4. CASE pr = 1
    <3>1. x.search = [class |-> 1, result |-> s1]
      BY <1>15, <2>1, <2>4, Zenon
    <3>2. x.search \in Searches /\ x.search.class = 1 /\ x.search.result = s1
      BY <1>11, <3>1 DEF Searches
    <3>3. SearchOK(q, x)
      BY <1>2, <1>3, <1>11, <2>4, <3>2 DEF SearchOK
    <3>4. QED
      BY <3>3
  <2>5. QED
    BY <2>3, <2>4
<1>20. CASE ends # {}
  <2>1. PICK m \in ends : m = Max(ends)
    <3>1. \A k \in ends : k \in Nat /\ k =< 3
      BY <1>18
    <3>2. ends \subseteq Nat /\ \A k \in ends : k =< 3
      BY <3>1
    <3>3. 3 \in Int
      OBVIOUS
    <3>4. Max(ends) \in ends
      BY <1>20, <3>2, <3>3, MaxIs, Zenon
    <3>5. QED
      BY <3>4, Zenon
  <2>2. x.search = [class |-> m, result |-> s[m]]
    BY <1>17, <1>20, <2>1, Zenon
  <2>3. s[m].found \/ s[m].fatal
    BY <1>16
  <2>4. CASE m = 2
    <3>1. x.search = [class |-> 2, result |-> s2]
      BY <1>15, <2>2, <2>4, Zenon
    <3>2. s2.found = TRUE
      BY <1>13, <1>15, <2>3, <2>4 DEF Results
    <3>3. x.search \in Searches /\ x.search.class = 2 /\ x.search.result = s2
      BY <1>13, <3>1 DEF Searches
    <3>4. x.prio =< 2
      BY <1>3
    <3>5. QED
      BY <1>13, <3>2, <3>3, <3>4 DEF SearchOK
  <2>5. CASE m = 3
    <3>1. x.search = [class |-> 3, result |-> s3]
      BY <1>15, <2>2, <2>5, Zenon
    <3>2. s3.found = TRUE \/ s3.fatal = TRUE
      BY <1>12, <1>15, <2>3, <2>5 DEF Results
    <3>3. x.search \in Searches /\ x.search.class = 3 /\ x.search.result = s3
      BY <1>12, <3>1 DEF Searches
    <3>4. x.prio =< 3
      BY <1>3
    <3>5. s3.fatal => \E p \in q.idx[0] .. (q.idx[1] - 1) : IsNull(q, p)
      BY <1>2, <1>12, Zenon
    <3>6. QED
      BY <3>2, <3>3, <3>4, <3>5 DEF SearchOK
  <2>6. QED
    BY <1>18, <2>4, <2>5
<1>21. QED
  BY <1>19, <1>20

------------------------------------------------------------------------------
(*****************************************************************************)
(* The freelist, and the deletion of a request.                              *)
(*****************************************************************************)

(* A block put before the others of the freelist. *)
LEMMA Pushed ==
  ASSUME NEW S, NEW s \in Seq(S), NEW b \in S, NEW w, w = <<b>> \o s, Distinct(s), ~Lists(s, b)
  PROVE  w \in Seq(S) /\ Distinct(w) /\ \A c : Lists(w, c) <=> (c = b \/ Lists(s, c))
<1>1. PICK n \in Nat : n = Len(s) /\ DOMAIN s = 1 .. n
  OBVIOUS
<1>2. w \in Seq(S) /\ DOMAIN w = 1 .. (n + 1) /\ w[1] = b /\ \A i \in 1 .. n : w[i + 1] = s[i]
  BY <1>1
<1>3. \A i \in 1 .. n : s[i] # b
  BY <1>1 DEF Lists
<1>4. \A i \in 2 .. (n + 1) : i - 1 \in 1 .. n /\ w[i] = s[i - 1]
  <2>1. ASSUME NEW i \in 2 .. (n + 1)
        PROVE  i - 1 \in 1 .. n /\ w[i] = s[i - 1]
    <3>1. i - 1 \in 1 .. n /\ (i - 1) + 1 = i
      OBVIOUS
    <3>2. w[(i - 1) + 1] = s[i - 1]
      BY <1>2, <3>1
    <3>3. QED
      BY <3>1, <3>2
  <2>2. QED
    BY <2>1
<1>5. Distinct(w)
  <2>1. ASSUME NEW i \in 1 .. (n + 1), NEW j \in 1 .. (n + 1), w[i] = w[j]
        PROVE  i = j
    <3>1. CASE i = 1 \/ j = 1
      BY <1>2, <1>3, <1>4, <2>1, <3>1
    <3>2. CASE i # 1 /\ j # 1
      <4>1. i \in 2 .. (n + 1) /\ j \in 2 .. (n + 1)
        BY <3>2
      <4>2. s[i - 1] = s[j - 1] /\ i - 1 \in 1 .. n /\ j - 1 \in 1 .. n
        BY <1>4, <2>1, <4>1
      <4>3. i - 1 = j - 1
        BY <1>1, <4>2, Zenon DEF Distinct
      <4>4. QED
        BY <4>3
    <3>3. QED
      BY <3>1, <3>2
  <2>2. QED
    BY <1>2, <2>1, Zenon DEF Distinct
<1>6. ASSUME NEW c
      PROVE  Lists(w, c) <=> (c = b \/ Lists(s, c))
  <2>1. ASSUME Lists(w, c)
        PROVE  c = b \/ Lists(s, c)
    <3>1. PICK i \in 1 .. (n + 1) : w[i] = c
      BY <1>2, <2>1, Zenon DEF Lists
    <3>2. CASE i = 1
      BY <1>2, <3>1, <3>2
    <3>3. CASE i # 1
      <4>1. i \in 2 .. (n + 1)
        BY <3>3
      <4>2. QED
        BY <1>1, <1>4, <3>1, <4>1 DEF Lists
    <3>4. QED
      BY <3>2, <3>3
  <2>2. ASSUME c = b
        PROVE  Lists(w, c)
    BY <1>2, <2>2 DEF Lists
  <2>3. ASSUME Lists(s, c)
        PROVE  Lists(w, c)
    <3>1. PICK i \in 1 .. n : s[i] = c
      BY <1>1, <2>3, Zenon DEF Lists
    <3>2. i + 1 \in 1 .. (n + 1)
      OBVIOUS
    <3>3. QED
      BY <1>2, <3>1, <3>2 DEF Lists
  <2>4. QED
    BY <2>1, <2>2, <2>3
<1>7. QED
  BY <1>2, <1>5, <1>6

(* The first block taken from the freelist. *)
LEMMA Popped ==
  ASSUME NEW S, NEW s \in Seq(S), s # << >>, NEW w, w = Tail(s), NEW b, b = Head(s), Distinct(s)
  PROVE  /\ w \in Seq(S) /\ b \in S /\ Lists(s, b) /\ Distinct(w)
         /\ \A c : Lists(w, c) <=> (c # b /\ Lists(s, c))
<1>1. PICK n \in Nat : n + 1 = Len(s) /\ DOMAIN s = 1 .. (n + 1)
  <2>1. Len(s) \in Nat /\ Len(s) # 0 /\ DOMAIN s = 1 .. Len(s)
    OBVIOUS
  <2>2. Len(s) - 1 \in Nat /\ (Len(s) - 1) + 1 = Len(s)
    BY <2>1
  <2>3. QED
    BY <2>1, <2>2
<1>2. w \in Seq(S) /\ DOMAIN w = 1 .. n /\ b = s[1] /\ \A i \in 1 .. n : w[i] = s[i + 1]
  BY <1>1
<1>3. b \in S /\ Lists(s, b)
  BY <1>1, <1>2 DEF Lists
<1>4. Distinct(w)
  <2>1. ASSUME NEW i \in 1 .. n, NEW j \in 1 .. n, w[i] = w[j]
        PROVE  i = j
    <3>1. s[i + 1] = s[j + 1] /\ i + 1 \in 1 .. (n + 1) /\ j + 1 \in 1 .. (n + 1)
      BY <1>2, <2>1
    <3>2. i + 1 = j + 1
      BY <1>1, <3>1, Zenon DEF Distinct
    <3>3. QED
      BY <3>2
  <2>2. QED
    BY <1>2, <2>1, Zenon DEF Distinct
<1>5. ASSUME NEW c
      PROVE  Lists(w, c) <=> (c # b /\ Lists(s, c))
  <2>1. ASSUME Lists(w, c)
        PROVE  c # b /\ Lists(s, c)
    <3>1. PICK i \in 1 .. n : w[i] = c
      BY <1>2, <2>1, Zenon DEF Lists
    <3>2. s[i + 1] = c /\ i + 1 \in 1 .. (n + 1) /\ i + 1 # 1 /\ 1 \in 1 .. (n + 1)
      BY <1>2, <3>1
    <3>3. s[i + 1] # s[1]
      BY <1>1, <3>2, Zenon DEF Distinct
    <3>4. QED
      BY <1>1, <1>2, <3>2, <3>3, Zenon DEF Lists
  <2>2. ASSUME c # b, Lists(s, c)
        PROVE  Lists(w, c)
    <3>1. PICK i \in 1 .. (n + 1) : s[i] = c
      BY <1>1, <2>2, Zenon DEF Lists
    <3>2. i # 1
      BY <1>2, <2>2, <3>1
    <3>3. i - 1 \in 1 .. n /\ (i - 1) + 1 = i
      BY <3>2
    <3>4. w[i - 1] = c
      BY <1>2, <3>1, <3>3
    <3>5. QED
      BY <1>2, <3>3, <3>4, Zenon DEF Lists
  <2>3. QED
    BY <2>1, <2>2
<1>6. QED
  BY <1>2, <1>3, <1>4, <1>5

(* The queue without the request at pos. *)
Deleted(q, pos, y) ==
  /\ y \in ioqueue_data
  /\ y.offset = q.offset /\ y.request = q.request /\ y.error_state = q.error_state
  /\ y.extlock = q.extlock
  /\ y.next_lock = q.next_lock /\ y.next_unlock[1] = q.next_unlock[1]
  /\ y.next_unlock[0] = y.idx[0] + IOQUEUE_MAX_REQUESTS
  /\ \A i \in 1 .. 7 : y.idx[i] = q.idx[i]
  /\ y.freelist = <<At(q, pos)>> \o q.freelist
  /\ y.done = q.done \cup {Id(q, pos)}
  /\ y.idx[0] \in q.idx[0] .. q.idx[4]
  /\ \A p \in Positions(q) : At(y, p) = IF p = pos THEN NULLPTR ELSE At(q, p)
  /\ \A p \in q.idx[0] .. (y.idx[0] - 1) : p = pos \/ IsNull(q, p)
  /\ y.idx[0] < q.idx[4] => y.idx[0] # pos /\ ~IsNull(q, y.idx[0])

(* delete takes the entry out, frees its block and moves locked_head up to *)
(* the next entry.                                                         *)
LEMMA DeleteIs ==
  ASSUME NEW q, DataOK(q), NEW pos \in Positions(q), ~IsNull(q, pos), NEW y, y = delete(q, pos)
  PROVE  Deleted(q, pos, y)
<1>1. q \in ioqueue_data /\ ZonesOK(q) /\ CountersOK(q) /\ RequestsOK(q)
  BY DEF DataOK
<1>2. PICK o \in Nat, l \in Nat, h \in Nat, t \in Nat :
        o = q.offset /\ l = q.idx[0] /\ h = q.idx[1] /\ t = q.idx[4]
  BY <1>1, Fields
<1>3. o =< l /\ l =< h /\ h =< t /\ t - o =< IOQUEUE_TOTAL_REQUESTS - 1
  BY <1>1, <1>2, Zenon DEF ZonesOK, locked_head, head, tail
<1>4. PICK p0 \in Nat : p0 = pos /\ l =< p0 /\ p0 < t
  <2>1. pos \in l .. (t - 1)
    BY <1>2, Zenon DEF Positions, locked_head, tail
  <2>2. QED
    BY <2>1
<1>5. PICK b \in Blocks : b = At(q, pos)
  BY <1>1, CellIs
<1>6. PICK z : z = [q.queue EXCEPT ![pos - o] = NULLPTR]
  OBVIOUS
<1>7. q.queue \in [Cells -> Blocks \cup {NULLPTR}]
  BY <1>1, Fields
<1>8. z \in [Cells -> Blocks \cup {NULLPTR}]
  BY <1>6, <1>7
<1>8a. \A c \in Cells : z[c] = IF c = p0 - o THEN NULLPTR ELSE q.queue[c]
  BY <1>4, <1>6, <1>7
<1>9. PICK c \in Nat, e \in Int : c = l - o /\ e = t - o - 1
  BY <1>3
<1>10. PICK P : P = {j \in c .. e : z[j] = NULLPTR}
  OBVIOUS
<1>11. PICK R : R = {k \in c .. e : \A j \in c .. k : j \in P}
  OBVIOUS
<1>12. PICK n \in Nat : IsRun(P, c, e, R, n)
  BY <1>11, RunOf
<1>13. FreeAgain(z, c, e) = n
  <2>1. R = {k \in c .. e : \A j \in c .. k : z[j] = NULLPTR}
    <3>1. \A k \in c .. e : \A j \in c .. k : j \in c .. e
      OBVIOUS
    <3>2. QED
      BY <1>10, <1>11, <3>1, Zenon
  <2>2. QED
    BY <1>12, <2>1, Zenon DEF IsRun, FreeAgain
<1>14. c + n =< e + 1 /\ l + n =< t
  <2>1. c + n =< e + 1 \/ n = 0
    BY <1>12, Zenon DEF IsRun
  <2>2. QED
    BY <1>3, <1>9, <2>1
<1>15. PICK x : x = [q.idx EXCEPT ![0] = l + n]
  OBVIOUS
<1>16. q.idx \in [0 .. 7 -> Nat]
  BY <1>1, Fields
<1>17. x \in [0 .. 7 -> Nat] /\ x[0] = l + n /\ \A i \in 1 .. 7 : x[i] = q.idx[i]
  BY <1>15, <1>16
<1>18. PICK v : v = [q.next_unlock EXCEPT ![0] = q.next_unlock[0] + n]
  OBVIOUS
<1>19. q.next_unlock \in [0 .. 1 -> Nat] /\ q.next_unlock[0] = l + IOQUEUE_MAX_REQUESTS
  BY <1>1, <1>2, Fields, Zenon DEF CountersOK, locked_head
<1>20. v \in [0 .. 1 -> Nat] /\ v[0] = q.next_unlock[0] + n /\ v[1] = q.next_unlock[1]
  BY <1>18, <1>19
<1>21. PICK s : s = <<b>> \o q.freelist
  OBVIOUS
<1>22. s \in Seq(Blocks)
  <2>1. q.freelist \in Seq(Blocks)
    BY <1>1, Fields
  <2>2. QED
    BY <1>21, <2>1
<1>23. Request(q, pos) \in ioqueue_request
  BY <1>1, Zenon DEF RequestsOK
<1>24. PICK i0 \in Nat : i0 = Request(q, pos).lock_id
  BY <1>23, SubmittedIs
<1>25. PICK D \in SUBSET Nat : D = q.done \cup {i0}
  BY <1>1, Fields
<1>26. y = [q EXCEPT !.queue = z, !.freelist = s, !.done = D, !.next_unlock = v, !.idx = x]
  <2>1. z = [q.queue EXCEPT ![Cell(q, pos)] = NULLPTR]
    BY <1>2, <1>6, Zenon DEF Cell
  <2>2. c = Cell(q, q.idx[0]) /\ e = Cell(q, q.idx[4]) - 1
    BY <1>2, <1>9, Zenon DEF Cell
  <2>3. FreeAgain([q.queue EXCEPT ![Cell(q, pos)] = NULLPTR], Cell(q, q.idx[0]),
        Cell(q, q.idx[4]) - 1) = n
    BY <1>13, <2>1, <2>2, Zenon
  <2>4. y = [q EXCEPT !.queue = z,
                      !.freelist = <<At(q, pos)>> \o @,
                      !.done = @ \cup {Request(q, pos).lock_id},
                      !.next_unlock[0] = @ + n,
                      !.idx[locked_head] = @ + n]
    BY <2>1, <2>3, Zenon DEF delete, locked_head, tail
  <2>5. y = [q EXCEPT !.queue = z, !.freelist = s, !.done = D,
                      !.next_unlock = [q.next_unlock EXCEPT ![0] = q.next_unlock[0] + n],
                      !.idx = [q.idx EXCEPT ![0] = q.idx[0] + n]]
    BY <1>1, <1>5, <1>21, <1>24, <1>25, <2>4 DEF ioqueue_data
  <2>6. QED
    BY <1>2, <1>15, <1>18, <2>5, Zenon
<1>27. /\ y \in ioqueue_data
       /\ y.offset = q.offset /\ y.request = q.request /\ y.error_state = q.error_state
       /\ y.extlock = q.extlock /\ y.next_lock = q.next_lock
       /\ y.queue = z /\ y.freelist = s /\ y.done = D /\ y.next_unlock = v /\ y.idx = x
  BY <1>1, <1>8, <1>17, <1>20, <1>22, <1>25, <1>26 DEF ioqueue_data
<1>28. \A p \in l .. (t - 1) : p \in Nat /\ p - o \in Cells /\ p - o \in c .. e
  BY <1>3, <1>9, Sizes
<1>29. ASSUME NEW p \in l .. (t - 1)
       PROVE  /\ At(y, p) = IF p = pos THEN NULLPTR ELSE At(q, p)
              /\ At(y, p) = z[p - o]
  <2>1. p - o \in Cells /\ p \in Nat
    BY <1>28
  <2>2. p - o = p0 - o <=> p = p0
    BY <2>1
  <2>3. z[p - o] = IF p = p0 THEN NULLPTR ELSE q.queue[p - o]
    BY <1>8a, <2>1, <2>2, Zenon
  <2>4. QED
    BY <1>2, <1>4, <1>27, <2>3, Zenon DEF At, Cell
<1>30. ASSUME NEW p \in l .. (l + n - 1)
       PROVE  p = pos \/ IsNull(q, p)
  <2>1. p \in l .. (t - 1) /\ p - o \in c .. (c + n - 1)
    BY <1>3, <1>9, <1>14
  <2>2. z[p - o] = NULLPTR
    BY <1>10, <1>12, <2>1, Zenon DEF IsRun
  <2>3. QED
    BY <1>29, <2>1, <2>2, Zenon DEF IsNull
<1>31. ASSUME l + n < t
       PROVE  l + n # pos /\ ~IsNull(q, l + n)
  <2>1. l + n \in l .. (t - 1) /\ c + n =< e /\ c + n \in c .. e /\ (l + n) - o = c + n
    BY <1>3, <1>9, <1>31
  <2>2. c + n \notin P
    BY <1>12, <2>1, Zenon DEF IsRun
  <2>3. z[(l + n) - o] # NULLPTR
    BY <1>10, <2>1, <2>2
  <2>4. At(y, l + n) # NULLPTR /\ At(y, l + n) = IF l + n = pos THEN NULLPTR ELSE At(q, l + n)
    BY <1>29, <2>1, <2>3
  <2>5. QED
    BY <2>4, Zenon DEF IsNull
<1>32. y.idx[0] = l + n /\ l + n \in l .. t /\ \A i \in 1 .. 7 : y.idx[i] = q.idx[i]
  BY <1>14, <1>17, <1>27
<1>33. y.next_unlock[0] = y.idx[0] + IOQUEUE_MAX_REQUESTS
  <2>1. (l + IOQUEUE_MAX_REQUESTS) + n = (l + n) + IOQUEUE_MAX_REQUESTS
    BY Sizes
  <2>2. QED
    BY <1>19, <1>20, <1>27, <1>32, <2>1, Zenon
<1>34. \A p \in Positions(q) : At(y, p) = IF p = pos THEN NULLPTR ELSE At(q, p)
  BY <1>2, <1>29, Zenon DEF Positions, locked_head, tail
<1>35. \A p \in q.idx[0] .. (y.idx[0] - 1) : p = pos \/ IsNull(q, p)
  <2>1. ASSUME NEW p \in q.idx[0] .. (y.idx[0] - 1)
        PROVE  p = pos \/ IsNull(q, p)
    <3>1. q.idx[0] = l /\ y.idx[0] = l + n
      BY <1>2, <1>32, Zenon
    <3>2. p \in l .. (l + n - 1)
      BY <2>1, <3>1
    <3>3. QED
      BY <1>30, <3>2
  <2>2. QED
    BY <2>1, Zenon
<1>36. y.idx[0] < q.idx[4] => y.idx[0] # pos /\ ~IsNull(q, y.idx[0])
  BY <1>2, <1>31, <1>32, Zenon
<1>37. y.freelist = <<At(q, pos)>> \o q.freelist /\ y.done = q.done \cup {Id(q, pos)}
       /\ y.next_unlock[1] = q.next_unlock[1]
  BY <1>5, <1>20, <1>21, <1>24, <1>25, <1>27, Zenon DEF Id
<1>38. y.idx[0] \in q.idx[0] .. q.idx[4]
  BY <1>2, <1>32, Zenon
<1>39. QED
  BY <1>27, <1>32, <1>33, <1>34, <1>35, <1>36, <1>37, <1>38, Zenon DEF Deleted

(* A deletion in the locked zone keeps the queue in order. *)
LEMMA DeletedOK ==
  ASSUME NEW q, DataOK(q), NEW pos \in q.idx[0] .. (q.idx[1] - 1), ~IsNull(q, pos),
         NEW y, Deleted(q, pos, y)
  PROVE  /\ DataOK(y) /\ y.idx[0] \in q.idx[0] .. q.idx[1]
         /\ \A p \in Positions(y) : p \in Positions(q)
         /\ \A p \in Positions(q) : p # pos /\ ~IsNull(q, p) => p \in Positions(y) /\ ~IsNull(y, p)
<1>1. q \in ioqueue_data /\ ZonesOK(q) /\ FullOK(q) /\ BlocksOK(q) /\ RequestsOK(q) /\ CountersOK(q)
      /\ OrderOK(q)
  BY DEF DataOK
<1>2. PICK o \in Nat, l \in Nat, h \in Nat, n \in Nat, b \in Nat, t \in Nat :
        /\ o = q.offset /\ l = q.idx[0] /\ h = q.idx[1] /\ n = q.idx[2] /\ b = q.idx[3]
           /\ t = q.idx[4]
  BY <1>1, Fields
<1>3. /\ o =< l /\ l =< h /\ h =< t /\ t - o =< IOQUEUE_TOTAL_REQUESTS - 1
      /\ t - l =< IOQUEUE_MAX_REQUESTS - 1 /\ b =< n /\ n =< t
  BY <1>1, <1>2, Zenon
  DEF ZonesOK, OrderOK, locked_head, head, tail, sched_normal, sched_background
<1>4. PICK k \in Nat : k = y.idx[0]
  <2>1. y \in ioqueue_data
    BY DEF Deleted
  <2>2. QED
    BY <2>1, Fields
<1>5. k \in l .. t
  BY <1>2, <1>4, Zenon DEF Deleted
<1>6. y.idx[1] = h /\ y.idx[2] = n /\ y.idx[3] = b /\ y.idx[4] = t
  <2>1. 1 \in 1 .. 7 /\ 2 \in 1 .. 7 /\ 3 \in 1 .. 7 /\ 4 \in 1 .. 7
    OBVIOUS
  <2>2. QED
    BY <1>2, <2>1, Zenon DEF Deleted
<1>7. Positions(q) = l .. (t - 1) /\ Positions(y) = k .. (t - 1) /\ Schedulable(q) = h .. (t - 1)
      /\ Schedulable(y) = h .. (t - 1)
  BY <1>2, <1>4, <1>6, Zenon DEF Positions, Schedulable, locked_head, head, tail
<1>8. pos \in l .. (h - 1) /\ pos \in l .. (t - 1) /\ pos < h
  <2>1. pos \in l .. (h - 1)
    BY <1>2, Zenon
  <2>2. QED
    BY <1>3, <2>1
<1>9. \A p \in k .. (t - 1) : p \in l .. (t - 1)
  BY <1>5
<1>10. \A p \in l .. (t - 1) : At(y, p) = IF p = pos THEN NULLPTR ELSE At(q, p)
  BY <1>7, Zenon DEF Deleted
<1>11. \A p \in h .. (t - 1) : p \in l .. (t - 1) /\ p # pos /\ ~IsNull(q, p) /\ At(y, p) = At(q, p)
  <2>1. \A p \in h .. (t - 1) : p \in l .. (t - 1) /\ p # pos
    BY <1>3, <1>8
  <2>2. \A p \in h .. (t - 1) : ~IsNull(q, p)
    BY <1>1, <1>7, Zenon DEF FullOK
  <2>3. QED
    BY <1>10, <2>1, <2>2, Zenon
<1>12. \A p \in l .. (k - 1) : p = pos \/ IsNull(q, p)
  BY <1>2, <1>4, Zenon DEF Deleted
<1>13. k =< h
  <2>1. SUFFICES ASSUME k > h
                 PROVE  FALSE
    OBVIOUS
  <2>2. h \in l .. (k - 1) /\ h \in h .. (t - 1)
    BY <1>3, <1>5, <2>1
  <2>3. QED
    BY <1>11, <1>12, <2>2, Zenon
<1>14. \A p \in l .. (t - 1) : p # pos /\ ~IsNull(q, p) => p \in k .. (t - 1) /\ ~IsNull(y, p)
  <2>1. ASSUME NEW p \in l .. (t - 1), p # pos, ~IsNull(q, p)
        PROVE  p \in k .. (t - 1) /\ ~IsNull(y, p)
    <3>1. p \notin l .. (k - 1)
      BY <1>12, <2>1, Zenon
    <3>2. p \in k .. (t - 1)
      BY <1>5, <3>1
    <3>3. QED
      BY <1>10, <2>1, <3>2, Zenon DEF IsNull
  <2>2. QED
    BY <2>1
<1>15. y \in ioqueue_data
  BY Zenon DEF Deleted
<1>16. ZonesOK(y)
  <2>1. o =< k /\ k =< h /\ h =< t /\ t - k =< IOQUEUE_MAX_REQUESTS - 1
        /\ t - o =< IOQUEUE_TOTAL_REQUESTS - 1
    BY <1>3, <1>5, <1>13, Sizes
  <2>2. y.offset = o
    BY <1>2, Zenon DEF Deleted
  <2>3. QED
    BY <1>4, <1>6, <2>1, <2>2, Zenon DEF ZonesOK, locked_head, head, tail
<1>17. FullOK(y)
  BY <1>7, <1>11, Zenon DEF FullOK, IsNull
<1>18. \A p \in Positions(y) : ~IsNull(y, p) => p \in Positions(q) /\ p # pos /\ At(y, p) = At(q, p)
                                                /\ ~IsNull(q, p) /\ Request(y, p) = Request(q, p)
  <2>1. y.request = q.request
    BY Zenon DEF Deleted
  <2>2. QED
    BY <1>7, <1>9, <1>10, <2>1, Zenon DEF IsNull, Request
<1>19. BlocksOK(y)
  <2>1. PICK x \in Blocks : x = At(q, pos)
    BY <1>1, <1>7, <1>8, CellIs
  <2>2. /\ \A p, r \in Positions(q) : ~IsNull(q, p) /\ At(q, p) = At(q, r) => p = r
        /\ Distinct(q.freelist)
        /\ \A c \in Blocks : Lists(q.freelist, c) <=> (\A p \in Positions(q) : At(q, p) # c)
    BY <1>1, Zenon DEF BlocksOK
  <2>3. pos \in Positions(q)
    BY <1>7, <1>8
  <2>4. ~Lists(q.freelist, x)
    BY <2>1, <2>2, <2>3, Zenon
  <2>5. q.freelist \in Seq(Blocks)
    BY <1>1, Fields
  <2>6. y.freelist = <<x>> \o q.freelist
    BY <2>1, Zenon DEF Deleted
  <2>7. Distinct(y.freelist) /\ \A c : Lists(y.freelist, c) <=> (c = x \/ Lists(q.freelist, c))
    <3>1. PICK f \in Seq(Blocks) : f = q.freelist
      BY <2>5
    <3>2. PICK w : w = <<x>> \o f
      OBVIOUS
    <3>3. Distinct(f) /\ ~Lists(f, x)
      BY <2>2, <2>4, <3>1, Zenon
    <3>4. w \in Seq(Blocks) /\ Distinct(w) /\ \A c : Lists(w, c) <=> (c = x \/ Lists(f, c))
      BY <3>2, <3>3, Pushed
    <3>5. w = y.freelist
      BY <2>6, <3>1, <3>2, Zenon
    <3>6. QED
      BY <3>1, <3>4, <3>5, Zenon
  <2>8. \A p, r \in Positions(y) : ~IsNull(y, p) /\ At(y, p) = At(y, r) => p = r
    <3>1. ASSUME NEW p \in Positions(y), NEW r \in Positions(y), ~IsNull(y, p), At(y, p) = At(y, r)
          PROVE  p = r
      <4>1. ~IsNull(y, r)
        BY <3>1, Zenon DEF IsNull
      <4>2. QED
        BY <1>18, <2>2, <3>1, <4>1, Zenon
    <3>2. QED
      BY <3>1, Zenon
  <2>9. ASSUME NEW c \in Blocks
        PROVE  Lists(y.freelist, c) <=> (\A p \in Positions(y) : At(y, p) # c)
    <3>0. c # NULLPTR
      BY Sizes
    <3>1. CASE c = x
      <4>1. ASSUME NEW p \in Positions(y)
            PROVE  At(y, p) # c
        <5>1. CASE IsNull(y, p)
          BY <3>0, <5>1, Zenon DEF IsNull
        <5>2. CASE ~IsNull(y, p)
          <6>1. p \in Positions(q) /\ p # pos /\ At(y, p) = At(q, p) /\ ~IsNull(q, p)
            BY <1>18, <5>2, Zenon
          <6>2. QED
            BY <2>1, <2>2, <2>3, <3>1, <6>1, Zenon
        <5>3. QED
          BY <5>1, <5>2
      <4>2. QED
        BY <2>7, <3>1, <4>1, Zenon
    <3>2. CASE c # x
      <4>1. Lists(y.freelist, c) <=> (\A p \in Positions(q) : At(q, p) # c)
        BY <2>2, <2>7, <3>2, Zenon
      <4>2. ASSUME \A p \in Positions(q) : At(q, p) # c, NEW p \in Positions(y)
            PROVE  At(y, p) # c
        <5>1. CASE IsNull(y, p)
          BY <3>0, <5>1, Zenon DEF IsNull
        <5>2. CASE ~IsNull(y, p)
          BY <1>18, <4>2, <5>2, Zenon
        <5>3. QED
          BY <5>1, <5>2
      <4>3. ASSUME \A p \in Positions(y) : At(y, p) # c, NEW p \in Positions(q)
            PROVE  At(q, p) # c
        <5>1. CASE p = pos
          BY <2>1, <3>2, <5>1
        <5>2. CASE IsNull(q, p)
          BY <3>0, <5>2, Zenon DEF IsNull
        <5>3. CASE p # pos /\ ~IsNull(q, p)
          BY <1>7, <1>10, <1>14, <4>3, <5>3, Zenon
        <5>4. QED
          BY <5>1, <5>2, <5>3
      <4>4. QED
        BY <4>1, <4>2, <4>3, Zenon
    <3>3. QED
      BY <3>1, <3>2
  <2>10. QED
    BY <2>7, <2>8, <2>9, Zenon DEF BlocksOK
<1>20. RequestsOK(y)
  <2>1. PICK i0 : i0 = Id(q, pos)
    OBVIOUS
  <2>2. y.done = q.done \cup {i0} /\ y.next_lock = q.next_lock
    BY <2>1, Zenon DEF Deleted
  <2>3. pos \in Positions(q)
    BY <1>7, <1>8
  <2>4. /\ q.done \subseteq 0 .. (q.next_lock[2] - 1)
        /\ \A p \in Positions(q) : ~IsNull(q, p) =>
             Request(q, p) \in ioqueue_request /\ Id(q, p) < q.next_lock[2]
               /\ Id(q, p) \notin q.done
        /\ \A p, r \in Positions(q) : ~IsNull(q, p) /\ ~IsNull(q, r) /\ Id(q, p) = Id(q, r) => p = r
        /\ \A id \in 0 .. (q.next_lock[2] - 1) : id \notin q.done =>
             \E p \in Positions(q) : ~IsNull(q, p) /\ Id(q, p) = id
    BY <1>1, Zenon DEF RequestsOK
  <2>5. \A p \in Positions(y) : ~IsNull(y, p) => Id(y, p) = Id(q, p)
    BY <1>18, Zenon DEF Id
  <2>6. i0 \in 0 .. (q.next_lock[2] - 1)
    <3>1. Request(q, pos) \in ioqueue_request /\ i0 < q.next_lock[2]
      BY <2>1, <2>3, <2>4
    <3>2. i0 \in Nat
      BY <2>1, <3>1, SubmittedIs DEF Id
    <3>3. q.next_lock[2] \in Nat
      BY <1>1, Fields
    <3>4. QED
      BY <3>1, <3>2, <3>3
  <2>7. y.done \subseteq 0 .. (q.next_lock[2] - 1)
    BY <2>2, <2>4, <2>6
  <2>8. ASSUME NEW p \in Positions(y), ~IsNull(y, p)
        PROVE  Request(y, p) \in ioqueue_request /\ Id(y, p) < q.next_lock[2]
                 /\ Id(y, p) \notin y.done
    <3>1. p \in Positions(q) /\ p # pos /\ ~IsNull(q, p) /\ Request(y, p) = Request(q, p)
          /\ Id(y, p) = Id(q, p)
      BY <1>18, <2>5, <2>8, Zenon
    <3>2. Id(q, p) # i0
      BY <2>1, <2>3, <2>4, <3>1, Zenon
    <3>3. QED
      BY <2>2, <2>4, <3>1, <3>2
  <2>9. ASSUME NEW p \in Positions(y), NEW r \in Positions(y), ~IsNull(y, p), ~IsNull(y, r),
               Id(y, p) = Id(y, r)
        PROVE  p = r
    BY <1>18, <2>4, <2>5, <2>9, Zenon
  <2>10. ASSUME NEW id \in 0 .. (q.next_lock[2] - 1), id \notin y.done
         PROVE  \E p \in Positions(y) : ~IsNull(y, p) /\ Id(y, p) = id
    <3>1. id \notin q.done /\ id # i0
      BY <2>2, <2>10
    <3>2. PICK p \in Positions(q) : ~IsNull(q, p) /\ Id(q, p) = id
      BY <2>4, <3>1, Zenon
    <3>3. p # pos
      BY <2>1, <3>1, <3>2, Zenon
    <3>4. p \in Positions(y) /\ ~IsNull(y, p)
      BY <1>7, <1>14, <3>2, <3>3, Zenon
    <3>5. QED
      BY <2>5, <3>2, <3>4, Zenon
  <2>11. QED
    BY <2>2, <2>7, <2>8, <2>9, <2>10, Zenon DEF RequestsOK
<1>21. CountersOK(y)
  <2>1. y.next_lock = q.next_lock /\ y.next_unlock[1] = q.next_unlock[1]
        /\ y.next_unlock[0] = y.idx[0] + IOQUEUE_MAX_REQUESTS
    BY Zenon DEF Deleted
  <2>2. QED
    BY <1>1, <1>2, <1>6, <2>1, Zenon DEF CountersOK, locked_head, tail
<1>22. OrderOK(y)
  <2>1. \A p \in h .. (t - 1) : Request(y, p) = Request(q, p)
    <3>1. y.request = q.request
      BY Zenon DEF Deleted
    <3>2. QED
      BY <1>11, <3>1, Zenon DEF Request
  <2>2. \A p \in h .. (t - 1) : Request(y, p).prio = IF p < n THEN prio_normal ELSE prio_background
    BY <1>1, <1>2, <1>7, <2>1, Zenon DEF OrderOK, sched_normal
  <2>3. \A p \in h .. (n - 1) : p \in h .. (t - 1)
    BY <1>3
  <2>4. \A p, r \in h .. (n - 1) : p < r => Addr(q, p) =< Addr(q, r)
    BY <1>1, <1>2, Zenon DEF OrderOK, head, sched_normal
  <2>5. \A p, r \in h .. (n - 1) : p < r => Addr(y, p) =< Addr(y, r)
    BY <2>1, <2>3, <2>4, Zenon DEF Addr
  <2>6. QED
    BY <1>3, <1>6, <1>7, <2>2, <2>5, Zenon
    DEF OrderOK, head, tail, sched_normal, sched_background
<1>23. DataOK(y)
  BY <1>15, <1>16, <1>17, <1>19, <1>20, <1>21, <1>22, Zenon DEF DataOK
<1>24. k \in l .. h
  BY <1>5, <1>13
<1>25. QED
  BY <1>2, <1>4, <1>7, <1>9, <1>14, <1>23, <1>24, Zenon

------------------------------------------------------------------------------
(*****************************************************************************)
(* The insertion of a request.                                               *)
(*****************************************************************************)

(* The new request, and the queue with its block x at next. *)
NewRequest(q, r, prio) == [req |-> r, prio |-> prio, stop |-> FALSE, lock_id |-> q.next_lock[2]]

Inserted(q, r, prio, next, x, y) ==
  /\ y \in ioqueue_data
  /\ y.offset = q.offset /\ y.error_state = q.error_state /\ y.extlock = q.extlock
  /\ y.done = q.done
  /\ y.idx[0] = q.idx[0] /\ y.idx[1] = q.idx[1] /\ y.idx[3] = q.idx[3]
  /\ y.idx[2] = IF prio = prio_normal THEN q.idx[2] + 1 ELSE q.idx[2]
  /\ y.idx[4] = q.idx[4] + 1
  /\ y.next_lock[0] = q.next_lock[0] + 1 /\ y.next_lock[1] = q.next_lock[1]
  /\ y.next_lock[2] = q.next_lock[2] + 1
  /\ y.next_unlock[0] = q.next_unlock[0] /\ y.next_unlock[1] = q.next_unlock[1] + 1
  /\ y.freelist = Tail(q.freelist)
  /\ y.request = [q.request EXCEPT ![x] = NewRequest(q, r, prio)]
  /\ \A p \in q.idx[0] .. q.idx[4] :
       At(y, p) = IF p < next THEN At(q, p) ELSE IF p = next THEN x ELSE At(q, p - 1)

(* Submitted moves the entries from the place on up by one. *)
LEMMA SubmitIs ==
  ASSUME NEW q, DataOK(q), RoomOK(q), q.freelist # << >>,
         NEW r \in {s.req : s \in Submissions},
         NEW prio \in {1, 2}, prio \in {s.prio : s \in Submissions},
         NEW next \in q.idx[1] .. q.idx[4],
         NEW y, y = Submitted(q, r, prio, next)
  PROVE  Inserted(q, r, prio, next, Head(q.freelist), y)
<1>1. q \in ioqueue_data /\ ZonesOK(q) /\ BlocksOK(q)
  BY DEF DataOK
<1>2. PICK o \in Nat, l \in Nat, h \in Nat, n \in Nat, t \in Nat :
        o = q.offset /\ l = q.idx[0] /\ h = q.idx[1] /\ n = q.idx[2] /\ t = q.idx[4]
  BY <1>1, Fields
<1>3. o =< l /\ l =< h /\ h =< t /\ t - o =< IOQUEUE_TOTAL_REQUESTS - 2
  BY <1>1, <1>2, Zenon DEF ZonesOK, RoomOK, locked_head, head, tail
<1>4. PICK x : x = Head(q.freelist)
  OBVIOUS
<1>5. x \in Blocks /\ Tail(q.freelist) \in Seq(Blocks)
  <2>1. PICK f \in Seq(Blocks) : f = q.freelist
    BY <1>1, Fields
  <2>2. f # << >>
    BY <2>1
  <2>3. Head(f) \in Blocks /\ Tail(f) \in Seq(Blocks)
    BY <2>2
  <2>4. QED
    BY <1>4, <2>1, <2>3, Zenon
<1>6. PICK m \in Nat : m = next /\ h =< m /\ m =< t
  <2>1. next \in h .. t
    BY <1>2, Zenon
  <2>2. QED
    BY <2>1
<1>7. q.queue \in [Cells -> Blocks \cup {NULLPTR}]
  BY <1>1, Fields
<1>8. PICK c \in Nat, k \in Nat : c = t - o /\ k = m - o
  BY <1>3, <1>6
<1>9. c \in Cells /\ k \in Cells /\ c + 1 \in Cells /\ k =< c
  <2>1. PICK N \in Nat : N = IOQUEUE_TOTAL_REQUESTS
    BY Sizes, Zenon
  <2>2. c + 1 =< N - 1 /\ k =< c
    BY <1>3, <1>6, <1>8, <2>1
  <2>3. Cells = 0 .. (N - 1)
    BY <2>1, Sizes, Zenon
  <2>4. QED
    BY <2>2, <2>3
<1>10. PICK z : z = InsertedAt(q.queue, c, k, x)
  OBVIOUS
<1>11. /\ z \in [Cells -> Blocks \cup {NULLPTR}]
       /\ \A i \in Cells : i =< c => z[i] = IF i < k THEN q.queue[i] ELSE IF i = k THEN x
          ELSE q.queue[i - 1]
  <2>1. CASE c > k
    <3>1. z = [i \in Cells |-> IF i \in {k, c + 1} THEN x
                               ELSE IF i \in (k + 1) .. c THEN q.queue[i - 1] ELSE q.queue[i]]
      BY <1>10, <2>1, Zenon DEF InsertedAt
    <3>2. \A i \in Cells : i \in (k + 1) .. c => i - 1 \in Cells
      BY <1>9, Sizes
    <3>3. z \in [Cells -> Blocks \cup {NULLPTR}]
      BY <1>5, <1>7, <3>1, <3>2
    <3>4. ASSUME NEW i \in Cells, i =< c
          PROVE  z[i] = IF i < k THEN q.queue[i] ELSE IF i = k THEN x ELSE q.queue[i - 1]
      <4>1. z[i] = IF i \in {k, c + 1} THEN x
                   ELSE IF i \in (k + 1) .. c THEN q.queue[i - 1] ELSE q.queue[i]
        BY <3>1
      <4>2. i \in Nat
        BY Sizes
      <4>3. /\ i < k => i \notin {k, c + 1} /\ i \notin (k + 1) .. c /\ i # k
            /\ i > k => i \notin {k, c + 1} /\ i \in (k + 1) .. c /\ i # k /\ ~(i < k)
            /\ i = k => i \in {k, c + 1} /\ ~(i < k)
            /\ i < k \/ i = k \/ i > k
        BY <3>4, <4>2
      <4>4. QED
        BY <4>1, <4>3, Zenon
    <3>5. QED
      BY <3>3, <3>4
  <2>2. CASE ~(c > k)
    <3>1. c = k
      BY <1>9, <2>2
    <3>2. z = [q.queue EXCEPT ![c] = x]
      BY <1>10, <2>2, Zenon DEF InsertedAt
    <3>3. \A i \in Cells : i =< c => i < k \/ i = k
      BY <3>1, Sizes
    <3>4. z \in [Cells -> Blocks \cup {NULLPTR}] /\ \A i \in Cells : z[i] = IF i = c THEN x
          ELSE q.queue[i]
      BY <1>5, <1>7, <1>9, <3>2
    <3>5. \A i \in Cells : i =< c => z[i] = IF i < k THEN q.queue[i] ELSE IF i = k THEN x
          ELSE q.queue[i - 1]
      <4>1. \A i \in Cells : i < k => i # c
        BY <3>1, Sizes
      <4>2. QED
        BY <3>1, <3>3, <3>4, <4>1, Zenon
    <3>6. QED
      BY <3>4, <3>5
  <2>3. QED
    BY <2>1, <2>2
<1>12. PICK w : w = insertrequest([q.idx EXCEPT ![4] = t + 1], m, prio)
  OBVIOUS
<1>13. /\ w \in [0 .. 7 -> Nat] /\ w[0] = l /\ w[1] = h /\ w[3] = q.idx[3] /\ w[4] = t + 1
       /\ w[2] = IF prio = 2 THEN n + 1 ELSE n
  <2>1. PICK u \in [0 .. 7 -> Nat] : u = q.idx
    BY <1>1, Fields
  <2>2. u[0] = l /\ u[1] = h /\ u[2] = n /\ u[4] = t
    BY <1>2, <2>1, Zenon
  <2>3. PICK v \in [0 .. 7 -> Nat] : v = [u EXCEPT ![4] = t + 1]
    <3>1. t + 1 \in Nat
      OBVIOUS
    <3>2. [u EXCEPT ![4] = t + 1] \in [0 .. 7 -> Nat]
      BY <3>1
    <3>3. QED
      BY <3>2, Zenon
  <2>4. v[0] = l /\ v[1] = h /\ v[2] = n /\ v[3] = u[3] /\ v[4] = t + 1 /\ DOMAIN v = 0 .. 7
    BY <2>2, <2>3
  <2>5. w = [i \in DOMAIN v |-> IF i = 7 - prio THEN m
                                ELSE IF i \in (3 - prio + 1) .. (3 - 1) THEN v[i] + 1 ELSE v[i]]
    BY <1>12, <2>1, <2>3, Zenon DEF insertrequest, insert_background, sched_background,
       prio_background
  <2>6. w = [i \in 0 .. 7 |-> IF i = 7 - prio THEN m
                                ELSE IF i \in (3 - prio + 1) .. (3 - 1) THEN v[i] + 1 ELSE v[i]]
    BY <2>4, <2>5, Zenon
  <2>7. CASE prio = 2
    <3>1. w = [i \in 0 .. 7 |-> IF i = 5 THEN m ELSE IF i \in 2 .. 2 THEN v[i] + 1 ELSE v[i]]
      BY <2>6, <2>7
    <3>2. w \in [0 .. 7 -> Nat]
      <4>1. \A i \in 0 .. 7 : v[i] \in Nat /\ v[i] + 1 \in Nat
        <5>1. ASSUME NEW i \in 0 .. 7
              PROVE  v[i] \in Nat /\ v[i] + 1 \in Nat
          <6>1. PICK j \in Nat : j = v[i]
            OBVIOUS
          <6>2. j + 1 \in Nat
            OBVIOUS
          <6>3. QED
            BY <6>1, <6>2, Zenon
        <5>2. QED
          BY <5>1, Zenon
      <4>2. \A i \in 0 .. 7 : (IF i = 5 THEN m ELSE IF i \in 2 .. 2 THEN v[i] + 1 ELSE v[i]) \in Nat
        BY <4>1, Zenon
      <4>3. QED
        BY <3>1, <4>2, Zenon
    <3>3. w[0] = v[0] /\ w[1] = v[1] /\ w[2] = v[2] + 1 /\ w[3] = v[3] /\ w[4] = v[4]
      BY <3>1
    <3>4. QED
      BY <2>1, <2>4, <2>7, <3>2, <3>3, Zenon
  <2>8. CASE prio = 1
    <3>1. w = [i \in 0 .. 7 |-> IF i = 6 THEN m ELSE IF i \in 3 .. 2 THEN v[i] + 1 ELSE v[i]]
      BY <2>6, <2>8
    <3>2. w \in [0 .. 7 -> Nat]
      BY <3>1
    <3>3. w[0] = v[0] /\ w[1] = v[1] /\ w[2] = v[2] /\ w[3] = v[3] /\ w[4] = v[4]
      BY <3>1
    <3>4. prio # 2
      BY <2>8
    <3>5. QED
      BY <2>1, <2>4, <3>2, <3>3, <3>4, Zenon
  <2>9. QED
    BY <2>7, <2>8
<1>14. PICK N \in Nat : N = q.next_lock[2]
  BY <1>1, Fields
<1>15. PICK R : R = NewRequest(q, r, prio)
  OBVIOUS
<1>16. R \in ioqueue_request
  BY <1>14, <1>15 DEF NewRequest, ioqueue_request
<1>17. PICK g : g = [q.request EXCEPT ![x] = R]
  OBVIOUS
<1>18. g \in [Blocks -> ioqueue_request \cup {Zeroed}]
  <2>1. q.request \in [Blocks -> ioqueue_request \cup {Zeroed}]
    BY <1>1, Fields
  <2>2. QED
    BY <1>5, <1>16, <1>17, <2>1
<1>19. PICK a : a = [q.next_lock EXCEPT ![0] = q.next_lock[0] + 1, ![2] = q.next_lock[2] + 1]
  OBVIOUS
<1>20. /\ a \in [0 .. 2 -> Nat] /\ a[0] = q.next_lock[0] + 1 /\ a[1] = q.next_lock[1]
       /\ a[2] = q.next_lock[2] + 1
  <2>1. PICK v \in [0 .. 2 -> Nat] : v = q.next_lock
    BY <1>1, Fields
  <2>2. a = [v EXCEPT ![0] = v[0] + 1, ![2] = v[2] + 1]
    BY <1>19, <2>1, Zenon
  <2>3. a \in [0 .. 2 -> Nat] /\ a[0] = v[0] + 1 /\ a[1] = v[1] /\ a[2] = v[2] + 1
    BY <2>2
  <2>4. QED
    BY <2>1, <2>3, Zenon
<1>21. PICK e : e = [q.next_unlock EXCEPT ![1] = q.next_unlock[1] + 1]
  OBVIOUS
<1>22. e \in [0 .. 1 -> Nat] /\ e[0] = q.next_unlock[0] /\ e[1] = q.next_unlock[1] + 1
  <2>1. PICK v \in [0 .. 1 -> Nat] : v = q.next_unlock
    BY <1>1, Fields
  <2>2. e = [v EXCEPT ![1] = v[1] + 1]
    BY <1>21, <2>1, Zenon
  <2>3. e \in [0 .. 1 -> Nat] /\ e[0] = v[0] /\ e[1] = v[1] + 1
    BY <2>2
  <2>4. QED
    BY <2>1, <2>3, Zenon
<1>23. PICK f : f = Tail(q.freelist)
  OBVIOUS
<1>24. y = [q EXCEPT !.next_lock = a, !.next_unlock = e, !.freelist = f, !.request = g,
                     !.queue = z, !.idx = w]
  <2>1. z = InsertedAt(q.queue, Cell(q, q.idx[4]), Cell(q, next), x)
    BY <1>2, <1>6, <1>8, <1>10, Zenon DEF Cell
  <2>2. w = insertrequest([q.idx EXCEPT ![4] = q.idx[4] + 1], next, prio)
    BY <1>2, <1>6, <1>12, Zenon
  <2>3. y = [q EXCEPT !.next_lock = [q.next_lock EXCEPT ![0] = @ + 1, ![2] = @ + 1],
            !.next_unlock = [q.next_unlock EXCEPT ![1] = @ + 1],
            !.freelist = Tail(q.freelist),
            !.request = [q.request EXCEPT ![x] = R],
            !.queue = InsertedAt(q.queue, Cell(q, q.idx[4]), Cell(q, next), x),
            !.idx = insertrequest([q.idx EXCEPT ![4] = q.idx[4] + 1], next, prio)]
    BY <1>4, <1>15, Zenon DEF Submitted, NewRequest, tail
  <2>4. /\ a = [q.next_lock EXCEPT ![0] = @ + 1, ![2] = @ + 1]
        /\ e = [q.next_unlock EXCEPT ![1] = @ + 1]
    BY <1>19, <1>21
  <2>5. QED
    BY <1>17, <1>23, <2>1, <2>2, <2>3, <2>4, Zenon
<1>25. f \in Seq(Blocks)
  BY <1>5, <1>23
<1>26. /\ y \in ioqueue_data
       /\ y.offset = q.offset /\ y.error_state = q.error_state /\ y.extlock = q.extlock
       /\ y.done = q.done /\ y.next_lock = a /\ y.next_unlock = e /\ y.freelist = f
       /\ y.request = g /\ y.queue = z /\ y.idx = w
  BY <1>1, <1>11, <1>13, <1>18, <1>20, <1>22, <1>24, <1>25, ZenonT(60) DEF ioqueue_data
<1>27. ASSUME NEW p \in l .. t
       PROVE  At(y, p) = IF p < m THEN At(q, p) ELSE IF p = m THEN x ELSE At(q, p - 1)
  <2>1. p - o \in Cells /\ p - o =< c /\ (p - o < k <=> p < m) /\ (p - o = k <=> p = m)
        /\ (p - o) - 1 = (p - 1) - o
    BY <1>3, <1>6, <1>8, Sizes
  <2>2. z[p - o] = IF p < m THEN q.queue[p - o] ELSE IF p = m THEN x ELSE q.queue[(p - 1) - o]
    BY <1>11, <2>1, Zenon
  <2>3. QED
    BY <1>2, <1>26, <2>2, Zenon DEF At, Cell
<1>28. /\ y.idx[0] = q.idx[0] /\ y.idx[1] = q.idx[1] /\ y.idx[3] = q.idx[3]
       /\ y.idx[2] = IF prio = prio_normal THEN q.idx[2] + 1 ELSE q.idx[2]
       /\ y.idx[4] = q.idx[4] + 1
  BY <1>2, <1>13, <1>26, Zenon DEF prio_normal
<1>29. \A p \in q.idx[0] .. q.idx[4] :
         At(y, p) = IF p < next THEN At(q, p) ELSE IF p = next THEN x ELSE At(q, p - 1)
  BY <1>2, <1>6, <1>27, Zenon
<1>30. Inserted(q, r, prio, next, x, y)
  BY <1>15, <1>17, <1>20, <1>22, <1>23, <1>26, <1>28, <1>29, Zenon DEF Inserted
<1>31. QED
  BY <1>4, <1>30, Zenon

(* The place where the new request goes. *)
InPlace(q, r, prio, next) ==
  IF prio = prio_normal THEN PlaceOK(q, r.log_addr, q.idx[head], q.idx[sched_normal] - 1, next)
  ELSE next = q.idx[sched_normal]

(* The queue is in order with the new request at its place. *)
LEMMA InsertedOK ==
  ASSUME NEW q, DataOK(q), RoomOK(q), q.freelist # << >>,
         NEW r \in {s.req : s \in Submissions},
         NEW prio \in {1, 2}, prio \in {s.prio : s \in Submissions},
         NEW next \in q.idx[1] .. q.idx[4], InPlace(q, r, prio, next),
         NEW x, x = Head(q.freelist), NEW y, Inserted(q, r, prio, next, x, y)
  PROVE  DataOK(y)
<1>1. q \in ioqueue_data /\ ZonesOK(q) /\ FullOK(q) /\ BlocksOK(q) /\ RequestsOK(q) /\ CountersOK(q)
      /\ OrderOK(q)
  BY DEF DataOK
<1>2. PICK o \in Nat, l \in Nat, h \in Nat, n \in Nat, t \in Nat :
        o = q.offset /\ l = q.idx[0] /\ h = q.idx[1] /\ n = q.idx[2] /\ n = q.idx[3] /\ t = q.idx[4]
  BY <1>1, Fields, Zenon DEF RoomOK, sched_normal, sched_background
<1>3. /\ o =< l /\ l =< h /\ h =< t /\ t - o =< IOQUEUE_TOTAL_REQUESTS - 2
      /\ t - l =< IOQUEUE_MAX_REQUESTS - 2 /\ h =< n /\ n =< t
  BY <1>1, <1>2, Zenon
  DEF ZonesOK, OrderOK, RoomOK, locked_head, head, tail, sched_normal, sched_background
<1>4. PICK m \in Nat : m = next /\ h =< m /\ m =< t
  <2>1. next \in h .. t
    BY <1>2, Zenon
  <2>2. QED
    BY <2>1
<1>5. PICK n1 \in Nat : n1 = IF prio = 2 THEN n + 1 ELSE n
  OBVIOUS
<1>6. /\ y \in ioqueue_data /\ y.offset = o
      /\ y.idx[0] = l /\ y.idx[1] = h /\ y.idx[2] = n1 /\ y.idx[3] = n /\ y.idx[4] = t + 1
  BY <1>2, <1>5, Zenon DEF Inserted, prio_normal
<1>7. /\ Positions(q) = l .. (t - 1) /\ Positions(y) = l .. t
      /\ Schedulable(q) = h .. (t - 1) /\ Schedulable(y) = h .. t
  <2>1. (t + 1) - 1 = t
    OBVIOUS
  <2>2. QED
    BY <1>2, <1>6, <2>1, Zenon DEF Positions, Schedulable, locked_head, head, tail
<1>8. \A p \in l .. t : At(y, p) = IF p < m THEN At(q, p) ELSE IF p = m THEN x ELSE At(q, p - 1)
  BY <1>2, <1>4, Zenon DEF Inserted
<1>9. PICK F : F = [p \in l .. t |-> IF p < m THEN p ELSE p - 1]
  OBVIOUS
<1>10. PICK G : G = [p \in l .. (t - 1) |-> IF p < m THEN p ELSE p + 1]
  OBVIOUS
<1>11. \A p \in l .. t : p # m => F[p] \in l .. (t - 1) /\ At(y, p) = At(q, F[p]) /\ G[F[p]] = p
  <2>1. ASSUME NEW p \in l .. t, p # m
        PROVE  F[p] \in l .. (t - 1) /\ At(y, p) = At(q, F[p]) /\ G[F[p]] = p
    <3>1. CASE p < m
      <4>1. F[p] = p /\ p \in l .. (t - 1)
        BY <1>4, <1>9, <3>1
      <4>2. G[p] = p
        BY <1>10, <3>1, <4>1
      <4>3. QED
        BY <1>8, <3>1, <4>1, <4>2, Zenon
    <3>2. CASE ~(p < m)
      <4>1. F[p] = p - 1 /\ p - 1 \in l .. (t - 1) /\ ~(p - 1 < m) /\ (p - 1) + 1 = p
        BY <1>3, <1>4, <1>9, <2>1, <3>2
      <4>2. G[p - 1] = p
        BY <1>10, <4>1
      <4>3. QED
        BY <1>8, <2>1, <3>2, <4>1, <4>2, Zenon
    <3>3. QED
      BY <3>1, <3>2
  <2>2. QED
    BY <2>1
<1>12. \A p \in l .. (t - 1) : G[p] \in l .. t /\ G[p] # m /\ F[G[p]] = p
  <2>1. ASSUME NEW p \in l .. (t - 1)
        PROVE  G[p] \in l .. t /\ G[p] # m /\ F[G[p]] = p
    <3>1. CASE p < m
      <4>1. G[p] = p /\ p \in l .. t /\ p # m
        BY <1>10, <3>1
      <4>2. F[p] = p
        BY <1>9, <3>1, <4>1
      <4>3. QED
        BY <4>1, <4>2
    <3>2. CASE ~(p < m)
      <4>1. G[p] = p + 1 /\ p + 1 \in l .. t /\ p + 1 # m /\ ~(p + 1 < m) /\ (p + 1) - 1 = p
        BY <1>4, <1>10, <3>2
      <4>2. F[p + 1] = p
        BY <1>9, <4>1
      <4>3. QED
        BY <4>1, <4>2
    <3>3. QED
      BY <3>1, <3>2
  <2>2. QED
    BY <2>1
<1>13. m \in l .. t /\ At(y, m) = x
  <2>1. m \in l .. t /\ ~(m < m)
    BY <1>3, <1>4
  <2>2. QED
    BY <1>8, <2>1, Zenon
<1>14. /\ x \in Blocks /\ x # NULLPTR /\ Lists(q.freelist, x) /\ Distinct(y.freelist)
       /\ \A c : Lists(y.freelist, c) <=> (c # x /\ Lists(q.freelist, c))
  <2>1. PICK f \in Seq(Blocks) : f = q.freelist
    BY <1>1, Fields
  <2>2. PICK w : w = Tail(f)
    OBVIOUS
  <2>3. f # << >> /\ x = Head(f) /\ Distinct(f) /\ w = y.freelist
    BY <1>1, <2>1, <2>2, Zenon DEF BlocksOK, Inserted
  <2>4. x \in Blocks /\ Lists(f, x) /\ Distinct(w) /\ \A c : Lists(w, c) <=> (c # x /\ Lists(f, c))
    BY <2>2, <2>3, Popped
  <2>5. x # NULLPTR
    BY <2>4, Sizes
  <2>6. QED
    BY <2>1, <2>3, <2>4, <2>5, Zenon
<1>15. \A p \in l .. (t - 1) : At(q, p) # x
  BY <1>1, <1>7, <1>14, Zenon DEF BlocksOK
<1>16. PICK R : R = NewRequest(q, r, prio)
  OBVIOUS
<1>17. PICK N \in Nat : N = q.next_lock[2]
  BY <1>1, Fields
<1>18. R \in ioqueue_request /\ R.req = r /\ R.prio = prio /\ R.lock_id = N
  BY <1>16, <1>17 DEF NewRequest, ioqueue_request
<1>19. q.request \in [Blocks -> ioqueue_request \cup {Zeroed}]
  BY <1>1, Fields
<1>20. y.request[x] = R /\ \A c \in Blocks : c # x => y.request[c] = q.request[c]
  <2>1. y.request = [q.request EXCEPT ![x] = R]
    BY <1>16, Zenon DEF Inserted
  <2>2. PICK g \in [Blocks -> ioqueue_request \cup {Zeroed}] : g = q.request
    BY <1>19
  <2>3. PICK u : u = [g EXCEPT ![x] = R]
    OBVIOUS
  <2>4. u[x] = R /\ \A c \in Blocks : c # x => u[c] = g[c]
    BY <1>14, <2>3
  <2>5. QED
    BY <2>1, <2>2, <2>3, <2>4, Zenon
<1>21. Request(y, m) = R /\ ~IsNull(y, m)
  BY <1>13, <1>14, <1>20, Zenon DEF Request, IsNull
<1>22. ASSUME NEW p \in l .. t, p # m
       PROVE  /\ IsNull(y, p) <=> IsNull(q, F[p])
              /\ ~IsNull(y, p) => Request(y, p) = Request(q, F[p])
  <2>1. F[p] \in l .. (t - 1) /\ At(y, p) = At(q, F[p])
    BY <1>11, <1>22, Zenon
  <2>2. At(q, F[p]) # x
    BY <1>15, <2>1, Zenon
  <2>3. F[p] \in Positions(q)
    BY <1>7, <2>1, Zenon
  <2>4. ~IsNull(q, F[p]) => At(q, F[p]) \in Blocks
    BY <1>1, <2>3, CellIs
  <2>5. QED
    BY <1>20, <2>1, <2>2, <2>4, Zenon DEF IsNull, Request
<1>23. ZonesOK(y)
  <2>1. /\ (t + 1) - l =< IOQUEUE_MAX_REQUESTS - 1
        /\ (t + 1) - o =< IOQUEUE_TOTAL_REQUESTS - 1 /\ h =< t + 1
    BY <1>3, Sizes
  <2>2. QED
    BY <1>3, <1>6, <2>1, Zenon DEF ZonesOK, locked_head, head, tail
<1>24. \A p \in h .. t : p # m => F[p] \in h .. (t - 1) /\ p \in l .. t
  <2>1. ASSUME NEW p \in h .. t, p # m
        PROVE  F[p] \in h .. (t - 1) /\ p \in l .. t
    <3>1. p \in l .. t
      BY <1>3
    <3>2. F[p] = IF p < m THEN p ELSE p - 1
      BY <1>9, <3>1
    <3>3. QED
      BY <1>3, <1>4, <2>1, <3>1, <3>2
  <2>2. QED
    BY <2>1
<1>25. \A p \in h .. (t - 1) : ~IsNull(q, p)
  BY <1>1, <1>7, Zenon DEF FullOK
<1>26. \A p \in h .. t : ~IsNull(y, p)
  BY <1>21, <1>22, <1>24, <1>25, Zenon
<1>27. FullOK(y)
  BY <1>7, <1>26, Zenon DEF FullOK
<1>28. BlocksOK(y)
  <2>1. /\ \A p, k \in l .. (t - 1) : ~IsNull(q, p) /\ At(q, p) = At(q, k) => p = k
        /\ \A c \in Blocks : Lists(q.freelist, c) <=> (\A p \in l .. (t - 1) : At(q, p) # c)
    BY <1>1, <1>7, Zenon DEF BlocksOK
  <2>2. ASSUME NEW p \in l .. t, NEW k \in l .. t, ~IsNull(y, p), At(y, p) = At(y, k)
        PROVE  p = k
    <3>1. CASE p = m /\ k # m
      BY <1>11, <1>13, <1>15, <2>2, <3>1, Zenon
    <3>2. CASE p # m /\ k = m
      BY <1>11, <1>13, <1>15, <2>2, <3>2, Zenon
    <3>3. CASE p # m /\ k # m
      <4>1. F[p] \in l .. (t - 1) /\ F[k] \in l .. (t - 1) /\ At(q, F[p]) = At(q, F[k])
            /\ ~IsNull(q, F[p])
        BY <1>11, <1>22, <2>2, <3>3, Zenon
      <4>2. F[p] = F[k]
        BY <2>1, <4>1, Zenon
      <4>3. G[F[p]] = p /\ G[F[k]] = k
        BY <1>11, <3>3, Zenon
      <4>4. QED
        BY <4>2, <4>3
    <3>4. QED
      BY <3>1, <3>2, <3>3
  <2>3. ASSUME NEW c \in Blocks
        PROVE  Lists(y.freelist, c) <=> (\A p \in l .. t : At(y, p) # c)
    <3>1. ASSUME Lists(y.freelist, c), NEW p \in l .. t
          PROVE  At(y, p) # c
      <4>1. c # x /\ \A k \in l .. (t - 1) : At(q, k) # c
        BY <1>14, <2>1, <3>1, Zenon
      <4>2. CASE p = m
        BY <1>13, <4>1, <4>2
      <4>3. CASE p # m
        BY <1>11, <4>1, <4>3, Zenon
      <4>4. QED
        BY <4>2, <4>3
    <3>2. ASSUME \A p \in l .. t : At(y, p) # c
          PROVE  Lists(y.freelist, c)
      <4>1. c # x
        BY <1>13, <3>2, Zenon
      <4>2. ASSUME NEW k \in l .. (t - 1)
            PROVE  At(q, k) # c
        <5>1. G[k] \in l .. t /\ At(y, G[k]) = At(q, k)
          BY <1>11, <1>12, Zenon
        <5>2. QED
          BY <3>2, <5>1, Zenon
      <4>3. QED
        BY <1>14, <2>1, <4>1, <4>2, Zenon
    <3>3. QED
      BY <3>1, <3>2
  <2>4. QED
    BY <1>7, <1>14, <2>2, <2>3, Zenon DEF BlocksOK
<1>29. RequestsOK(y)
  <2>1. /\ q.done \subseteq 0 .. (N - 1)
        /\ \A p \in l .. (t - 1) : ~IsNull(q, p) =>
             Request(q, p) \in ioqueue_request /\ Id(q, p) < N /\ Id(q, p) \notin q.done
        /\ \A p, k \in l .. (t - 1) : ~IsNull(q, p) /\ ~IsNull(q, k) /\ Id(q, p) = Id(q, k) => p = k
        /\ \A id \in 0 .. (N - 1) : id \notin q.done =>
             \E p \in l .. (t - 1) : ~IsNull(q, p) /\ Id(q, p) = id
    BY <1>1, <1>7, <1>17, Zenon DEF RequestsOK
  <2>2. y.done = q.done /\ y.next_lock[2] = N + 1
    BY <1>17, Zenon DEF Inserted
  <2>3. Id(y, m) = N
    BY <1>18, <1>21, Zenon DEF Id
  <2>4. \A p \in l .. t : p # m /\ ~IsNull(y, p) =>
          F[p] \in l .. (t - 1) /\ ~IsNull(q, F[p]) /\ Request(y, p) = Request(q, F[p])
            /\ Id(y, p) = Id(q, F[p])
    BY <1>11, <1>22, Zenon DEF Id
  <2>5. \A p \in l .. (t - 1) : ~IsNull(q, p) => Id(q, p) \in Nat /\ Id(q, p) < N
    BY <2>1, SubmittedIs DEF Id
  <2>6. q.done \subseteq 0 .. ((N + 1) - 1)
    BY <2>1
  <2>7. ASSUME NEW p \in l .. t, ~IsNull(y, p)
        PROVE  Request(y, p) \in ioqueue_request /\ Id(y, p) < N + 1 /\ Id(y, p) \notin q.done
    <3>1. CASE p = m
      <4>1. N \notin q.done /\ N < N + 1
        BY <2>1
      <4>2. QED
        BY <1>18, <1>21, <2>3, <3>1, <4>1
    <3>2. CASE p # m
      <4>1. F[p] \in l .. (t - 1) /\ ~IsNull(q, F[p]) /\ Request(y, p) = Request(q, F[p])
            /\ Id(y, p) = Id(q, F[p])
        BY <2>4, <2>7, <3>2, Zenon
      <4>2. PICK i \in Nat : i = Id(q, F[p]) /\ i < N
        BY <2>5, <4>1
      <4>3. i < N + 1
        BY <4>2
      <4>4. QED
        BY <2>1, <4>1, <4>2, <4>3, Zenon
    <3>3. QED
      BY <3>1, <3>2
  <2>8. ASSUME NEW p \in l .. t, NEW k \in l .. t, ~IsNull(y, p), ~IsNull(y, k), Id(y, p) = Id(y, k)
        PROVE  p = k
    <3>0. \A w \in l .. t : w # m /\ ~IsNull(y, w) => Id(y, w) # N
      BY <2>4, <2>5
    <3>1. CASE p = m \/ k = m
      BY <2>3, <2>8, <3>0, <3>1, Zenon
    <3>2. CASE p # m /\ k # m
      <4>1. /\ F[p] \in l .. (t - 1) /\ ~IsNull(q, F[p]) /\ Id(y, p) = Id(q, F[p])
            /\ F[k] \in l .. (t - 1) /\ ~IsNull(q, F[k]) /\ Id(y, k) = Id(q, F[k])
        BY <2>4, <2>8, <3>2, Zenon
      <4>2. F[p] = F[k]
        BY <2>1, <2>8, <4>1, Zenon
      <4>3. G[F[p]] = p /\ G[F[k]] = k
        BY <1>11, <3>2, Zenon
      <4>4. QED
        BY <4>2, <4>3
    <3>3. QED
      BY <3>1, <3>2
  <2>9. ASSUME NEW id \in 0 .. ((N + 1) - 1), id \notin q.done
        PROVE  \E p \in l .. t : ~IsNull(y, p) /\ Id(y, p) = id
    <3>1. CASE id = N
      BY <1>13, <1>21, <2>3, <3>1, Zenon
    <3>2. CASE id # N
      <4>1. id \in 0 .. (N - 1)
        BY <3>2
      <4>2. PICK k \in l .. (t - 1) : ~IsNull(q, k) /\ Id(q, k) = id
        BY <2>1, <2>9, <4>1, Zenon
      <4>3. G[k] \in l .. t /\ G[k] # m /\ F[G[k]] = k
        BY <1>12, Zenon
      <4>4. ~IsNull(y, G[k])
        BY <1>22, <4>2, <4>3, Zenon
      <4>5. Id(y, G[k]) = id
        BY <2>4, <4>2, <4>3, <4>4, Zenon
      <4>6. QED
        BY <4>3, <4>4, <4>5, Zenon
    <3>3. QED
      BY <3>1, <3>2
  <2>10. QED
    BY <1>7, <2>2, <2>6, <2>7, <2>8, <2>9, Zenon DEF RequestsOK
<1>30. CountersOK(y)
  BY <1>1, <1>2, <1>6, Zenon DEF CountersOK, Inserted, locked_head, tail
<1>31. OrderOK(y)
  <2>1. /\ \A p \in h .. (t - 1) : Request(q, p).prio = IF p < n THEN 2 ELSE 1
        /\ \A p, k \in h .. (n - 1) : p < k => Addr(q, p) =< Addr(q, k)
    BY <1>1, <1>2, <1>7, Zenon DEF OrderOK, head, sched_normal, prio_normal, prio_background
  <2>2. \A p \in h .. t : p # m =>
          F[p] \in h .. (t - 1) /\ Request(y, p) = Request(q, F[p]) /\ Addr(y, p) = Addr(q, F[p])
    <3>1. ASSUME NEW p \in h .. t, p # m
          PROVE  F[p] \in h .. (t - 1) /\ Request(y, p) = Request(q, F[p])
      <4>1. F[p] \in h .. (t - 1) /\ p \in l .. t
        BY <1>24, <3>1, Zenon
      <4>2. QED
        BY <1>22, <1>26, <3>1, <4>1, Zenon
    <3>2. QED
      BY <3>1, Zenon DEF Addr
  <2>3. PICK a : a = r.log_addr
    OBVIOUS
  <2>4. Request(y, m).prio = prio /\ Addr(y, m) = a
    BY <1>18, <1>21, <2>3, Zenon DEF Addr
  <2>5. CASE prio = 2
    <3>0. n1 = n + 1
      BY <1>5, <2>5
    <3>1. m \in h .. n /\ (\A p \in h .. (m - 1) : Addr(q, p) =< a)
          /\ \A p \in m .. (n - 1) : Addr(q, p) >= a
      <4>1. PlaceOK(q, a, h, n - 1, m)
        BY <1>2, <1>4, <2>3, <2>5, Zenon DEF InPlace, prio_normal, head, sched_normal
      <4>2. (n - 1) + 1 = n
        OBVIOUS
      <4>3. QED
        BY <4>1, <4>2, Zenon DEF PlaceOK
    <3>2. ASSUME NEW p \in h .. t
          PROVE  Request(y, p).prio = IF p < n + 1 THEN 2 ELSE 1
      <4>1. CASE p = m
        <5>1. p < n + 1
          BY <3>1, <4>1
        <5>2. QED
          BY <2>4, <2>5, <4>1, <5>1, Zenon
      <4>2. CASE p # m
        <5>1. F[p] \in h .. (t - 1) /\ Request(y, p) = Request(q, F[p])
          BY <2>2, <4>2, Zenon
        <5>2. F[p] < n <=> p < n + 1
          <6>1. p \in l .. t
            BY <1>3
          <6>2. F[p] = IF p < m THEN p ELSE p - 1
            BY <1>9, <6>1
          <6>3. QED
            BY <3>1, <4>2, <6>2
        <5>3. QED
          BY <2>1, <5>1, <5>2, Zenon
      <4>3. QED
        BY <4>1, <4>2
    <3>3. ASSUME NEW p \in h .. ((n + 1) - 1), NEW k \in h .. ((n + 1) - 1), p < k
          PROVE  Addr(y, p) =< Addr(y, k)
      <4>1. p \in h .. t /\ k \in h .. t /\ p \in l .. t /\ k \in l .. t
        BY <1>3
      <4>2. F[p] = (IF p < m THEN p ELSE p - 1) /\ F[k] = (IF k < m THEN k ELSE k - 1)
        BY <1>9, <4>1
      <4>3. CASE p = m
        <5>1. k # m /\ F[k] \in m .. (n - 1)
          BY <3>1, <3>3, <4>2, <4>3
        <5>2. Addr(y, k) = Addr(q, F[k]) /\ Addr(y, p) = a /\ Addr(q, F[k]) >= a
          BY <2>2, <2>4, <3>1, <4>1, <4>3, <5>1, Zenon
        <5>3. a \in Nat /\ Addr(q, F[k]) \in Nat
          <6>1. a \in Nat
            BY <1>18, <2>3, SubmittedIs
          <6>2. F[k] \in h .. (t - 1) /\ F[k] \in l .. (t - 1)
            <7>1. m \in h .. n /\ F[k] \in m .. (n - 1)
              BY <3>1, <5>1, Zenon
            <7>2. QED
              BY <1>3, <7>1
          <6>3. Request(q, F[k]) \in ioqueue_request
            BY <1>1, <1>7, <1>25, <6>2, Zenon DEF RequestsOK
          <6>4. QED
            BY <6>1, <6>3, SubmittedIs DEF Addr
        <5>4. QED
          BY <5>2, <5>3
      <4>4. CASE k = m
        <5>1. p # m /\ F[p] \in h .. (m - 1)
          BY <3>1, <3>3, <4>2, <4>4
        <5>2. QED
          BY <2>2, <2>4, <3>1, <4>1, <4>4, <5>1, Zenon
      <4>5. CASE p # m /\ k # m
        <5>1. F[p] \in h .. (n - 1) /\ F[k] \in h .. (n - 1) /\ F[p] < F[k]
          BY <3>1, <3>3, <4>2, <4>5
        <5>2. QED
          BY <2>1, <2>2, <4>1, <4>5, <5>1, Zenon
      <4>6. QED
        BY <4>3, <4>4, <4>5
    <3>4. n =< n + 1 /\ n + 1 =< t + 1
      BY <1>3
    <3>5. QED
      BY <1>6, <1>7, <3>0, <3>2, <3>3, <3>4, Zenon
      DEF OrderOK, head, tail, sched_normal, sched_background, prio_normal, prio_background
  <2>6. CASE prio = 1
    <3>0. n1 = n /\ prio # 2
      BY <1>5, <2>6
    <3>1. m = n
      BY <1>2, <1>4, <3>0, Zenon DEF InPlace, prio_normal, sched_normal
    <3>2. ASSUME NEW p \in h .. t
          PROVE  Request(y, p).prio = IF p < n THEN 2 ELSE 1
      <4>1. CASE p = m
        <5>1. ~(p < n)
          BY <3>1, <4>1
        <5>2. QED
          BY <2>4, <2>6, <4>1, <5>1, Zenon
      <4>2. CASE p # m
        <5>1. F[p] \in h .. (t - 1) /\ Request(y, p) = Request(q, F[p])
          BY <2>2, <4>2, Zenon
        <5>2. F[p] < n <=> p < n
          <6>1. p \in l .. t
            BY <1>3
          <6>2. F[p] = IF p < m THEN p ELSE p - 1
            BY <1>9, <6>1
          <6>3. QED
            BY <3>1, <4>2, <6>2
        <5>3. QED
          BY <2>1, <5>1, <5>2, Zenon
      <4>3. QED
        BY <4>1, <4>2
    <3>3. ASSUME NEW p \in h .. (n - 1), NEW k \in h .. (n - 1), p < k
          PROVE  Addr(y, p) =< Addr(y, k)
      <4>1. p \in h .. t /\ k \in h .. t /\ p \in l .. t /\ k \in l .. t /\ p # m /\ k # m
        BY <1>3, <3>1
      <4>2. F[p] = p /\ F[k] = k
        BY <1>9, <3>1, <4>1
      <4>3. QED
        BY <2>1, <2>2, <3>3, <4>1, <4>2, Zenon
    <3>4. n =< n /\ n =< t + 1
      BY <1>3
    <3>5. QED
      BY <1>6, <1>7, <3>0, <3>2, <3>3, <3>4, Zenon
      DEF OrderOK, head, tail, sched_normal, sched_background, prio_normal, prio_background
  <2>7. QED
    BY <2>5, <2>6
<1>32. QED
  BY <1>6, <1>23, <1>27, <1>28, <1>29, <1>30, <1>31, Zenon DEF DataOK

------------------------------------------------------------------------------
(*****************************************************************************)
(* Steps that leave the entries where they are.                              *)
(*****************************************************************************)

(* The queue with other marks, or with one request less to schedule. *)
SameCells(q, y) ==
  /\ y \in ioqueue_data
  /\ y.queue = q.queue /\ y.offset = q.offset /\ y.freelist = q.freelist /\ y.done = q.done
  /\ y.next_unlock = q.next_unlock
  /\ y.next_lock[0] = q.next_lock[0] /\ y.next_lock[2] = q.next_lock[2]
  /\ y.idx[0] = q.idx[0] /\ y.idx[2] = q.idx[2] /\ y.idx[3] = q.idx[3] /\ y.idx[4] = q.idx[4]
  /\ q.idx[1] =< y.idx[1] /\ y.idx[1] =< q.idx[4]
  /\ \A b \in Blocks : q.request[b] \in ioqueue_request =>
       /\ y.request[b] \in ioqueue_request /\ y.request[b].req = q.request[b].req
       /\ y.request[b].prio = q.request[b].prio /\ y.request[b].lock_id = q.request[b].lock_id

(* A queue with the same cells is in order, too. *)
LEMMA SameCellsOK ==
  ASSUME NEW q, DataOK(q), NEW y, SameCells(q, y)
  PROVE  DataOK(y) /\ \A p : At(y, p) = At(q, p) /\ (IsNull(y, p) <=> IsNull(q, p))
<1>1. q \in ioqueue_data /\ ZonesOK(q) /\ RequestsOK(q) /\ OrderOK(q)
  BY DEF DataOK
<1>2. \A p : At(y, p) = At(q, p) /\ (IsNull(y, p) <=> IsNull(q, p))
  BY Zenon DEF SameCells, At, Cell, IsNull
<1>3. \A p \in Positions(q) : ~IsNull(q, p) =>
       /\ Request(y, p) \in ioqueue_request /\ Request(y, p).req = Request(q, p).req
       /\ Request(y, p).prio = Request(q, p).prio /\ Request(y, p).lock_id = Request(q, p).lock_id
  <2>1. \A p \in Positions(q) : ~IsNull(q, p) => At(q, p) \in Blocks
    BY <1>1, CellIs
  <2>2. QED
    BY <1>1, <1>2, <2>1, Zenon DEF SameCells, RequestsOK, Request
<1>4. PICK o \in Nat, l \in Nat, h \in Nat, n \in Nat, b \in Nat, t \in Nat :
        /\ o = q.offset /\ l = q.idx[0] /\ h = q.idx[1] /\ n = q.idx[2] /\ b = q.idx[3]
           /\ t = q.idx[4]
  BY <1>1, Fields
<1>5. o =< l /\ t - o =< IOQUEUE_TOTAL_REQUESTS - 1 /\ b =< n /\ n =< t
  BY <1>1, <1>4, Zenon
  DEF ZonesOK, OrderOK, locked_head, head, tail, sched_normal, sched_background
<1>6. SameQueue(q, y)
  BY <1>2, <1>3, <1>4, <1>5, Zenon DEF SameCells, SameQueue
<1>7. y \in ioqueue_data
  BY DEF SameCells
<1>8. DataOK(y)
  BY <1>6, <1>7, SameQueueOK
<1>9. QED
  BY <1>2, <1>8

(* The head lies before the tail. *)
LEMMA IndexOrder ==
  ASSUME NEW q, DataOK(q)
  PROVE  q \in ioqueue_data /\ q.idx[1] =< q.idx[1] /\ q.idx[1] =< q.idx[4]
<1>1. q \in ioqueue_data /\ ZonesOK(q)
  BY DEF DataOK
<1>2. PICK h \in Nat : h = q.idx[1]
  BY <1>1, Fields
<1>3. h =< h
  OBVIOUS
<1>4. QED
  BY <1>1, <1>2, <1>3, Zenon DEF ZonesOK, head, tail

(* break_all_locks, lock[3], a ticket of the waiting list, the head moved  *)
(* over one request, and $cancel leave the cells as they are.              *)
LEMMA ErrorIs ==
  ASSUME NEW q, DataOK(q), NEW y, y = break_all_locks(q)
  PROVE  /\ SameCells(q, y) /\ y.error_state = TRUE /\ y.extlock = q.extlock
            /\ y.next_lock = q.next_lock
         /\ y.idx = q.idx /\ y.request = q.request
<1>1. q \in ioqueue_data /\ q.idx[1] =< q.idx[1] /\ q.idx[1] =< q.idx[4]
  BY IndexOrder
<1>2. y = [q EXCEPT !.error_state = TRUE]
  BY DEF break_all_locks
<1>3. /\ y \in ioqueue_data /\ y.error_state = TRUE /\ y.extlock = q.extlock
      /\ y.queue = q.queue /\ y.offset = q.offset /\ y.idx = q.idx /\ y.request = q.request
      /\ y.freelist = q.freelist /\ y.next_lock = q.next_lock /\ y.next_unlock = q.next_unlock
      /\ y.done = q.done
  BY <1>1, <1>2 DEF ioqueue_data
<1>4. QED
  BY <1>1, <1>3, Zenon DEF SameCells

LEMMA ExtlockIs ==
  ASSUME NEW q, DataOK(q), NEW e \in BOOLEAN, NEW y, y = [q EXCEPT !.extlock = e]
  PROVE  /\ SameCells(q, y) /\ y.error_state = q.error_state /\ y.extlock = e
            /\ y.next_lock = q.next_lock
         /\ y.idx = q.idx /\ y.request = q.request
<1>1. q \in ioqueue_data /\ q.idx[1] =< q.idx[1] /\ q.idx[1] =< q.idx[4]
  BY IndexOrder
<1>3. /\ y \in ioqueue_data /\ y.error_state = q.error_state /\ y.extlock = e
      /\ y.queue = q.queue /\ y.offset = q.offset /\ y.idx = q.idx /\ y.request = q.request
      /\ y.freelist = q.freelist /\ y.next_lock = q.next_lock /\ y.next_unlock = q.next_unlock
      /\ y.done = q.done
  BY <1>1 DEF ioqueue_data
<1>4. QED
  BY <1>1, <1>3, Zenon DEF SameCells

LEMMA TicketIs ==
  ASSUME NEW q, DataOK(q), NEW y, y = waitlistlock_getid(q, 1)
  PROVE  /\ SameCells(q, y) /\ y.error_state = q.error_state /\ y.extlock = q.extlock
         /\ y.next_lock[1] = q.next_lock[1] + 1 /\ y.idx = q.idx /\ y.request = q.request
<1>1. q \in ioqueue_data /\ q.idx[1] =< q.idx[1] /\ q.idx[1] =< q.idx[4]
  BY IndexOrder
<1>2. PICK v \in [0 .. 2 -> Nat] : v = q.next_lock
  BY <1>1, Fields
<1>3. PICK w : w = [v EXCEPT ![1] = v[1] + 1]
  OBVIOUS
<1>4. w \in [0 .. 2 -> Nat] /\ w[0] = v[0] /\ w[1] = v[1] + 1 /\ w[2] = v[2]
  BY <1>3
<1>5. y = [q EXCEPT !.next_lock = w]
  <2>1. y = [q EXCEPT !.next_lock = [q.next_lock EXCEPT ![1] = q.next_lock[1] + 1]]
    BY <1>1 DEF waitlistlock_getid, ioqueue_data
  <2>2. QED
    BY <1>2, <1>3, <2>1, Zenon
<1>6. /\ y \in ioqueue_data /\ y.error_state = q.error_state /\ y.extlock = q.extlock
      /\ y.queue = q.queue /\ y.offset = q.offset /\ y.idx = q.idx /\ y.request = q.request
      /\ y.freelist = q.freelist /\ y.next_lock = w /\ y.next_unlock = q.next_unlock
      /\ y.done = q.done
  BY <1>1, <1>4, <1>5 DEF ioqueue_data
<1>7. QED
  BY <1>1, <1>2, <1>4, <1>6, Zenon DEF SameCells

LEMMA TakeIs ==
  ASSUME NEW q, DataOK(q), q.idx[1] < q.idx[4], NEW y, y = [q EXCEPT !.idx[head] = @ + 1]
  PROVE  /\ SameCells(q, y) /\ y.error_state = q.error_state /\ y.extlock = q.extlock
         /\ y.next_lock = q.next_lock /\ y.idx[1] = q.idx[1] + 1 /\ y.request = q.request
<1>1. q \in ioqueue_data
  BY IndexOrder
<1>2. PICK v \in [0 .. 7 -> Nat] : v = q.idx
  BY <1>1, Fields
<1>3. PICK h \in Nat, t \in Nat : h = v[1] /\ t = v[4]
  OBVIOUS
<1>4. PICK w : w = [v EXCEPT ![1] = h + 1]
  OBVIOUS
<1>5. w \in [0 .. 7 -> Nat] /\ w[0] = v[0] /\ w[1] = h + 1 /\ w[2] = v[2] /\ w[3] = v[3]
      /\ w[4] = v[4]
  <2>1. h + 1 \in Nat
    OBVIOUS
  <2>2. QED
    BY <1>4, <2>1
<1>6. y = [q EXCEPT !.idx = w]
  <2>1. y = [q EXCEPT !.idx = [q.idx EXCEPT ![1] = q.idx[1] + 1]]
    BY <1>1 DEF head, ioqueue_data
  <2>2. QED
    BY <1>2, <1>3, <1>4, <2>1, Zenon
<1>7. /\ y \in ioqueue_data /\ y.error_state = q.error_state /\ y.extlock = q.extlock
      /\ y.queue = q.queue /\ y.offset = q.offset /\ y.idx = w /\ y.request = q.request
      /\ y.freelist = q.freelist /\ y.next_lock = q.next_lock /\ y.next_unlock = q.next_unlock
      /\ y.done = q.done
  BY <1>1, <1>5, <1>6 DEF ioqueue_data
<1>8. h =< h + 1 /\ h + 1 =< t
  <2>1. h < t
    BY <1>2, <1>3, Zenon
  <2>2. QED
    BY <2>1
<1>9. QED
  BY <1>2, <1>3, <1>5, <1>7, <1>8, Zenon DEF SameCells

LEMMA CancelIs ==
  ASSUME NEW q, DataOK(q), NEW A, NEW y, y = Cancelled(q, A)
  PROVE  /\ SameCells(q, y) /\ y.error_state = q.error_state /\ y.extlock = q.extlock
         /\ y.next_lock = q.next_lock /\ y.idx = q.idx
<1>1. q \in ioqueue_data /\ q.idx[1] =< q.idx[1] /\ q.idx[1] =< q.idx[4]
  BY IndexOrder
<1>2. PICK hit : hit = {At(q, p) : p \in q.idx[head] .. (q.idx[tail] - 1)} \ {NULLPTR}
  OBVIOUS
<1>3. PICK g : g = [b \in Blocks |-> IF b \in hit /\ q.request[b].req.log_addr \in A
                                     THEN [q.request[b] EXCEPT !.stop = TRUE] ELSE q.request[b]]
  OBVIOUS
<1>4. y = [q EXCEPT !.request = g]
  <2>1. y = [q EXCEPT !.request = [b \in Blocks |->
               IF b \in hit /\ q.request[b].req.log_addr \in A
               THEN [q.request[b] EXCEPT !.stop = TRUE] ELSE q.request[b]]]
    BY <1>1, <1>2 DEF Cancelled, ioqueue_data
  <2>2. QED
    BY <1>3, <2>1, Zenon
<1>5. q.request \in [Blocks -> ioqueue_request \cup {Zeroed}]
  BY <1>1, Fields
<1>6. \A b \in Blocks : b \in hit => q.request[b] \in ioqueue_request
  <2>1. ASSUME NEW b \in Blocks, b \in hit
        PROVE  q.request[b] \in ioqueue_request
    <3>1. PICK p \in Schedulable(q) : At(q, p) = b /\ b # NULLPTR
      BY <1>2, <2>1 DEF Schedulable
    <3>2. p \in Positions(q)
      <4>1. ZonesOK(q)
        BY DEF DataOK
      <4>2. PICK l \in Nat, h \in Nat, t \in Nat : l = q.idx[0] /\ h = q.idx[1] /\ t = q.idx[4]
        BY <1>1, Fields
      <4>3. l =< h
        BY <4>1, <4>2, Zenon DEF ZonesOK, locked_head, head
      <4>4. p \in h .. (t - 1)
        BY <3>1, <4>2, Zenon DEF Schedulable, head, tail
      <4>5. p \in l .. (t - 1)
        BY <4>3, <4>4
      <4>6. QED
        BY <4>2, <4>5, Zenon DEF Positions, locked_head, tail
    <3>3. ~IsNull(q, p)
      BY <3>1, Zenon DEF IsNull
    <3>4. Request(q, p) \in ioqueue_request
      BY <3>2, <3>3, Zenon DEF DataOK, RequestsOK
    <3>5. QED
      BY <3>1, <3>4, Zenon DEF Request
  <2>2. QED
    BY <2>1
<1>7. ASSUME NEW b \in Blocks
      PROVE  /\ g[b] \in ioqueue_request \cup {Zeroed}
             /\ q.request[b] \in ioqueue_request =>
                  /\ g[b] \in ioqueue_request /\ g[b].req = q.request[b].req
                  /\ g[b].prio = q.request[b].prio /\ g[b].lock_id = q.request[b].lock_id
  <2>1. q.request[b] \in ioqueue_request \cup {Zeroed}
    BY <1>5
  <2>2. CASE b \in hit /\ q.request[b].req.log_addr \in A
    <3>1. g[b] = [q.request[b] EXCEPT !.stop = TRUE]
      BY <1>3, <2>2
    <3>2. PICK e \in ioqueue_request : e = q.request[b]
      BY <1>6, <2>2
    <3>3. PICK f : f = [e EXCEPT !.stop = TRUE]
      OBVIOUS
    <3>4. f \in ioqueue_request /\ f.req = e.req /\ f.prio = e.prio /\ f.lock_id = e.lock_id
      BY <3>3 DEF ioqueue_request
    <3>5. QED
      BY <3>1, <3>2, <3>3, <3>4, Zenon
  <2>3. CASE ~(b \in hit /\ q.request[b].req.log_addr \in A)
    <3>1. g[b] = q.request[b]
      BY <1>3, <2>3, Zenon
    <3>2. QED
      BY <2>1, <3>1, Zenon
  <2>4. QED
    BY <2>2, <2>3
<1>8. g \in [Blocks -> ioqueue_request \cup {Zeroed}]
  <2>1. \A b \in Blocks : g[b] \in ioqueue_request \cup {Zeroed}
    BY <1>7
  <2>2. QED
    BY <1>3, <2>1, Zenon
<1>9. /\ y \in ioqueue_data /\ y.error_state = q.error_state /\ y.extlock = q.extlock
      /\ y.queue = q.queue /\ y.offset = q.offset /\ y.idx = q.idx /\ y.request = g
      /\ y.freelist = q.freelist /\ y.next_lock = q.next_lock /\ y.next_unlock = q.next_unlock
      /\ y.done = q.done
  BY <1>1, <1>4, <1>8 DEF ioqueue_data
<1>10. QED
  BY <1>1, <1>7, <1>9, Zenon DEF SameCells

------------------------------------------------------------------------------
(*****************************************************************************)
(* What the threads rely on.                                                 *)
(*****************************************************************************)

(* No step takes the request of another arbiter away. *)
LEMMA ArbitersKept ==
  ASSUME ArbitersOK,
         \A p \in d.idx[0] .. (d.idx[1] - 1) : ~IsNull(d, p) =>
           p \in d'.idx[0] .. (d'.idx[1] - 1) /\ ~IsNull(d', p),
         \A a \in Arbiters : pc'[a] \in AtArbiter => pc[a] \in AtArbiter /\ place'[a] = place[a]
  PROVE  ArbitersOK'
<1>1. \A a \in Arbiters : pc[a] \in AtArbiter =>
        place[a] \in d.idx[0] .. (d.idx[1] - 1) /\ ~IsNull(d, place[a])
  BY Zenon DEF ArbitersOK, locked_head, head
<1>2. \A a \in Arbiters : pc'[a] \in AtArbiter =>
        place'[a] \in d'.idx[0] .. (d'.idx[1] - 1) /\ ~IsNull(d', place'[a])
  BY <1>1, Zenon
<1>3. \A a, b \in Arbiters :
        pc'[a] \in AtArbiter /\ pc'[b] \in AtArbiter /\ place'[a] = place'[b] => a = b
  BY Zenon DEF ArbitersOK
<1>4. QED
  BY <1>2, <1>3, Zenon DEF ArbitersOK, AtArbiter, locked_head, head

(* An arbiter with a ticket that is not used up. *)
InQueue == {"avail", "take"}

(* A step that takes no ticket and no request keeps the tickets in order. *)
LEMMA TicketsKept ==
  ASSUME TicketsOK, d.idx[4] \in Nat, d'.idx[4] \in Nat, d.idx[4] =< d'.idx[4],
         d'.idx[1] = d.idx[1], d'.next_lock[1] = d.next_lock[1], place \in [Arbiters -> Nat],
         \A a \in Arbiters : pc'[a] \in InQueue => pc[a] \in InQueue /\ place'[a] = place[a],
         \A a \in Arbiters : pc'[a] = "take" => pc[a] = "take" \/ place[a] < d.idx[4]
  PROVE  TicketsOK'
<1>1. \A k \in Int : k < d.idx[4] => k < d'.idx[4]
  OBVIOUS
<1>2. PICK C \in SUBSET (0 .. (d.next_lock[1] - 1)) : Taken(C)
  BY Zenon DEF TicketsOK
<1>3. Taken(C)'
  <2>1. \A c \in C : c < d'.idx[4]
    <3>1. \A c \in C : c \in Int /\ c < d.idx[4]
      BY <1>2 DEF Taken, tail
    <3>2. QED
      BY <1>1, <3>1
  <2>2. \A a \in Arbiters : pc'[a] \in {"avail", "take"} => place'[a] \notin C
    BY <1>2, Zenon DEF Taken, InQueue
  <2>3. QED
    BY <1>2, <2>1, <2>2, Zenon DEF Taken, head, tail
<1>4. \A a \in Arbiters : pc'[a] = "take" => place'[a] < d'.idx[4]
  <2>1. \A a \in Arbiters : pc'[a] = "take" => place'[a] = place[a] /\ place[a] < d.idx[4]
    BY Zenon DEF TicketsOK, InQueue, tail
  <2>2. \A a \in Arbiters : place[a] \in Int
    OBVIOUS
  <2>3. QED
    BY <1>1, <2>1, <2>2
<1>5. /\ \A a \in Arbiters : pc'[a] \in {"avail", "take"} => place'[a] < d'.next_lock[1]
      /\ \A a, b \in Arbiters :
           pc'[a] \in {"avail", "take"} /\ pc'[b] \in {"avail", "take"}
             /\ place'[a] = place'[b] => a = b
  BY Zenon DEF TicketsOK, InQueue
<1>6. QED
  BY <1>2, <1>3, <1>4, <1>5, Zenon DEF TicketsOK, tail

(* The places in the code of a user and of an arbiter. *)
UserAt == {"idle", "free", "enter", "body", "wait", "stuck"}
ArbiterAt == {"start", "avail", "take", "ended"} \cup AtArbiter
ThreadAt == UserAt \cup ArbiterAt

(* A thread goes on. *)
LEMMA Moved ==
  ASSUME ThreadsOK, NEW t \in Users \cup Arbiters, NEW w \in ThreadAt, Goto(t, w)
  PROVE  /\ pc' \in [Users \cup Arbiters -> ThreadAt] /\ pc'[t] = w
         /\ \A v \in Users \cup Arbiters : v # t => pc'[v] = pc[v]
<1>1. pc \in [Users \cup Arbiters -> ThreadAt]
  BY DEF ThreadsOK, ThreadAt, UserAt, ArbiterAt, AtArbiter
<1>2. QED
  BY <1>1 DEF Goto

(* Users and arbiters are different threads. *)
LEMMA Apart ==
  /\ NoOne \notin Users /\ \A u \in Users, a \in Arbiters : u # a
  /\ \A s : s \in ThreadAt <=> s \in UserAt \/ s \in ArbiterAt
BY IoQueueAssumption DEF ThreadAt

(* What the threads keep to themselves. *)
Waits == [ids : SUBSET Nat, before : SUBSET Nat]

(* A step within the types. *)
LEMMA ThreadsKept ==
  ASSUME ThreadsOK,
         pc' \in [Users \cup Arbiters -> ThreadAt],
         \A u \in Users : pc'[u] \in UserAt, \A a \in Arbiters : pc'[a] \in ArbiterAt,
         arg' \in [Users -> {NoArg} \cup Calls],
         \A u \in Users : pc'[u] \in {"free", "enter", "body"} => arg'[u] \in Calls,
         \A u \in Users : pc'[u] = "enter" =>
            arg'[u].ticket < d.next_unlock[0] /\ arg'[u].ticket \in Nat,
         d.next_unlock[0] \in Nat, d'.next_unlock[0] \in Nat, d.next_unlock[0] =< d'.next_unlock[0],
         d.next_lock[2] \in Nat, d'.next_lock[2] \in Nat, d.next_lock[2] =< d'.next_lock[2],
         place' \in [Arbiters -> Nat],
         waits' \in [Users -> Waits],
         \A u \in Users : waits'[u].ids \subseteq waits'[u].before /\ waits'[u].before \subseteq Ids
  PROVE  ThreadsOK'
<1>1. \A k \in Nat : k < d.next_unlock[0] => k < d'.next_unlock[0]
  OBVIOUS
<1>2. Ids \subseteq Ids'
  BY DEF Ids
<1>3. \A u \in Users : pc'[u] = "enter" => arg'[u].ticket < d'.next_unlock[0]
  BY <1>1
<1>4. \A u \in Users : waits'[u].ids \subseteq waits'[u].before /\ waits'[u].before \subseteq Ids'
  BY <1>2, Zenon
<1>5. QED
  BY <1>3, <1>4 DEF ThreadsOK, ThreadAt, UserAt, ArbiterAt, AtArbiter, Waits

(* The parts of ThreadsOK by the names of this section. *)
LEMMA Threads ==
  ASSUME ThreadsOK
  PROVE  /\ pc \in [Users \cup Arbiters -> ThreadAt]
         /\ \A u \in Users : pc[u] \in UserAt
         /\ \A a \in Arbiters : pc[a] \in ArbiterAt
         /\ arg \in [Users -> {NoArg} \cup Calls]
         /\ \A u \in Users : pc[u] \in {"free", "enter", "body"} => arg[u] \in Calls
         /\ \A u \in Users : pc[u] = "enter" =>
              arg[u].ticket < d.next_unlock[0] /\ arg[u].ticket \in Nat
         /\ place \in [Arbiters -> Nat]
         /\ waits \in [Users -> Waits]
         /\ \A u \in Users : waits[u].ids \subseteq waits[u].before /\ waits[u].before \subseteq Ids
<1>1. \A u \in Users : pc[u] = "enter" => arg[u].ticket \in Nat
  BY DEF ThreadsOK, Calls
<1>2. QED
  BY <1>1 DEF ThreadsOK, ThreadAt, UserAt, ArbiterAt, AtArbiter, Waits

(* What a submitter relies on. *)
LEMMA BodySame ==
  ASSUME NEW q, NEW y, SameCells(q, y), y.idx = q.idx, y.request = q.request, RoomOK(q),
         NEW x, SearchOK(q, x)
  PROVE  RoomOK(y) /\ SearchOK(y, x)
<1>1. y.queue = q.queue /\ y.offset = q.offset
  BY DEF SameCells
<1>2. \A p : IsNull(y, p) <=> IsNull(q, p)
  BY <1>1, Zenon DEF IsNull, At, Cell
<1>3. \A p : Addr(y, p) = Addr(q, p)
  BY <1>1, Zenon DEF Addr, Request, At, Cell
<1>4. RoomOK(y)
  BY <1>1, Zenon DEF RoomOK
<1>5. SearchOK(y, x)
  BY <1>2, <1>3, Zenon DEF SearchOK, PlaceOK
<1>6. QED
  BY <1>4, <1>5

(* Without a holder of lock[3] nobody is in the body of $trans. *)
LEMMA NoBody ==
  ASSUME holder' = NoOne, HolderOK'
  PROVE  BodyOK'
<1>1. \A u \in Users : pc'[u] # "body"
  BY Apart, Zenon DEF HolderOK
<1>2. QED
  BY <1>1, Zenon DEF BodyOK

LEMMA Unheld ==
  ASSUME HolderOK, holder = NoOne
  PROVE  \A u \in Users : pc[u] # "body" /\ pc[u] # "stuck"
BY Apart, Zenon DEF HolderOK

(* The counters of the queue are numbers. *)
LEMMA DataNumbers ==
  ASSUME NEW q, DataOK(q)
  PROVE  /\ q \in ioqueue_data /\ q.idx[0] \in Nat /\ q.idx[1] \in Nat /\ q.idx[4] \in Nat
         /\ q.next_lock[0] \in Nat /\ q.next_lock[1] \in Nat /\ q.next_lock[2] \in Nat
         /\ q.next_unlock[0] \in Nat /\ q.next_unlock[1] \in Nat
         /\ q.idx[0] =< q.idx[1] /\ q.idx[1] =< q.idx[4]
BY Fields, Zenon DEF DataOK, ZonesOK, locked_head, head, tail

(* What the arbiters rely on in a step of a user: their requests stay in   *)
(* the locked zone, and no counter goes back.                              *)
DataGrows ==
  /\ DataOK(d')
  /\ \A p \in d.idx[0] .. (d.idx[1] - 1) : ~IsNull(d, p) =>
       p \in d'.idx[0] .. (d'.idx[1] - 1) /\ ~IsNull(d', p)
  /\ d'.idx[1] = d.idx[1] /\ d'.next_lock[1] = d.next_lock[1] /\ d.idx[4] =< d'.idx[4]
  /\ d.next_unlock[0] =< d'.next_unlock[0] /\ d.next_lock[2] =< d'.next_lock[2]

(* So does a step that leaves the cells and the indices as they are. *)
LEMMA DataSame ==
  ASSUME DataOK(d), d' = d \/ (SameCells(d, d') /\ d'.idx = d.idx
         /\ d'.next_lock[1] = d.next_lock[1])
  PROVE  DataGrows
<1>1. /\ d.idx[4] =< d.idx[4] /\ d.next_unlock[0] =< d.next_unlock[0]
      /\ d.next_lock[2] =< d.next_lock[2]
  BY DataNumbers
<1>2. CASE d' = d
  BY <1>1, <1>2, Zenon DEF DataGrows
<1>3. CASE SameCells(d, d') /\ d'.idx = d.idx /\ d'.next_lock[1] = d.next_lock[1]
  <2>1. DataOK(d') /\ \A p : IsNull(d', p) <=> IsNull(d, p)
    BY <1>3, SameCellsOK, Zenon
  <2>2. d'.next_unlock = d.next_unlock /\ d'.next_lock[2] = d.next_lock[2]
    BY <1>3, Zenon DEF SameCells
  <2>3. QED
    BY <1>1, <1>3, <2>1, <2>2, Zenon DEF DataGrows
<1>4. QED
  BY <1>2, <1>3

(* User u goes to w with its argument. *)
ArgTo(u, w) ==
  /\ arg' \in [Users -> {NoArg} \cup Calls]
  /\ \A v \in Users : v # u => arg'[v] = arg[v]
  /\ w \in {"free", "enter", "body"} => arg'[u] \in Calls
  /\ w = "enter" => arg'[u].ticket < d.next_unlock[0] /\ arg'[u].ticket \in Nat

(* $wait waits for ids that were given out. *)
WaitsTo ==
  /\ waits' \in [Users -> Waits]
  /\ \A v \in Users : waits'[v].ids \subseteq waits'[v].before /\ waits'[v].before \subseteq Ids

(* A step of a user keeps IInv, if it keeps what the others rely on. *)
LEMMA UserMoves ==
  ASSUME IInv, NEW u \in Users, NEW w \in UserAt, Goto(u, w), place' = place, DataGrows,
         ArgTo(u, w),
         WaitsTo, HolderOK', BodyOK'
  PROVE  IInv'
<1>1. DataOK(d) /\ ThreadsOK /\ ArbitersOK /\ TicketsOK
  BY DEF IInv
<1>2. /\ pc' \in [Users \cup Arbiters -> ThreadAt] /\ pc'[u] = w
      /\ \A v \in Users \cup Arbiters : v # u => pc'[v] = pc[v]
  <2>1. u \in Users \cup Arbiters /\ w \in ThreadAt
    BY DEF ThreadAt
  <2>2. QED
    BY <1>1, <2>1, Moved, Zenon
<1>3. \A a \in Arbiters : pc'[a] = pc[a]
  BY <1>2, Apart, Zenon
<1>4. DataOK(d')
  BY DEF DataGrows
<1>5. ArbitersOK'
  <2>1. \A p \in d.idx[0] .. (d.idx[1] - 1) : ~IsNull(d, p) =>
           p \in d'.idx[0] .. (d'.idx[1] - 1) /\ ~IsNull(d', p)
    BY DEF DataGrows
  <2>2. \A a \in Arbiters : pc'[a] \in AtArbiter => pc[a] \in AtArbiter /\ place'[a] = place[a]
    BY <1>3, Zenon
  <2>3. QED
    BY <1>1, <2>1, <2>2, ArbitersKept, Zenon
<1>6. place \in [Arbiters -> Nat]
  BY <1>1, Threads, Zenon
<1>7. TicketsOK'
  <2>1. d.idx[4] \in Nat /\ d'.idx[4] \in Nat
    BY <1>1, <1>4, DataNumbers
  <2>2. d.idx[4] =< d'.idx[4] /\ d'.idx[1] = d.idx[1] /\ d'.next_lock[1] = d.next_lock[1]
    BY DEF DataGrows
  <2>3. \A a \in Arbiters : pc'[a] \in InQueue => pc[a] \in InQueue /\ place'[a] = place[a]
    BY <1>3, Zenon
  <2>4. \A a \in Arbiters : pc'[a] = "take" => pc[a] = "take" \/ place[a] < d.idx[4]
    BY <1>3, Zenon
  <2>5. QED
    BY <1>1, <1>6, <2>1, <2>2, <2>3, <2>4, TicketsKept, Zenon
<1>8. ThreadsOK'
  <2>1. \A v \in Users : pc'[v] \in UserAt
    <3>1. ASSUME NEW v \in Users
          PROVE  pc'[v] \in UserAt
      <4>1. CASE v = u
        BY <1>2, <4>1
      <4>2. CASE v # u
        BY <1>1, <1>2, <4>2, Threads, Zenon
      <4>3. QED
        BY <4>1, <4>2
    <3>2. QED
      BY <3>1
  <2>2. \A a \in Arbiters : pc'[a] \in ArbiterAt
    BY <1>1, <1>3, Threads, Zenon
  <2>3. \A v \in Users : pc'[v] \in {"free", "enter", "body"} => arg'[v] \in Calls
    <3>1. ASSUME NEW v \in Users, pc'[v] \in {"free", "enter", "body"}
          PROVE  arg'[v] \in Calls
      <4>1. CASE v = u
        BY <1>2, <3>1, <4>1 DEF ArgTo
      <4>2. CASE v # u
        <5>1. pc[v] \in {"free", "enter", "body"} /\ arg'[v] = arg[v]
          BY <1>2, <3>1, <4>2 DEF ArgTo
        <5>2. QED
          BY <1>1, <5>1, Threads
      <4>3. QED
        BY <4>1, <4>2
    <3>2. QED
      BY <3>1
  <2>4. \A v \in Users : pc'[v] = "enter" =>
            arg'[v].ticket < d.next_unlock[0] /\ arg'[v].ticket \in Nat
    <3>1. ASSUME NEW v \in Users, pc'[v] = "enter"
          PROVE  arg'[v].ticket < d.next_unlock[0] /\ arg'[v].ticket \in Nat
      <4>1. CASE v = u
        BY <1>2, <3>1, <4>1 DEF ArgTo
      <4>2. CASE v # u
        <5>1. pc[v] = "enter" /\ arg'[v] = arg[v]
          BY <1>2, <3>1, <4>2 DEF ArgTo
        <5>2. QED
          BY <1>1, <5>1, Threads
      <4>3. QED
        BY <4>1, <4>2
    <3>2. QED
      BY <3>1
  <2>5. arg' \in [Users -> {NoArg} \cup Calls]
    BY DEF ArgTo
  <2>6. /\ d.next_unlock[0] \in Nat /\ d'.next_unlock[0] \in Nat
           /\ d.next_unlock[0] =< d'.next_unlock[0]
        /\ d.next_lock[2] \in Nat /\ d'.next_lock[2] \in Nat /\ d.next_lock[2] =< d'.next_lock[2]
    BY <1>1, <1>4, DataNumbers DEF DataGrows
  <2>7. /\ waits' \in [Users -> Waits]
        /\ \A v \in Users : waits'[v].ids \subseteq waits'[v].before
           /\ waits'[v].before \subseteq Ids
    BY DEF WaitsTo
  <2>8. place' \in [Arbiters -> Nat]
    BY <1>6
  <2>9. QED
    BY <1>1, <1>2, <2>1, <2>2, <2>3, <2>4, <2>5, <2>6, <2>7, <2>8, ThreadsKept, Zenon
<1>9. QED
  BY <1>4, <1>5, <1>7, <1>8, Zenon DEF IInv

(* The argument stays, or is set. *)
LEMMA ArgSame ==
  ASSUME ThreadsOK, NEW u \in Users, arg' = arg, NEW w, w \notin {"free", "enter", "body"}
  PROVE  ArgTo(u, w)
BY Threads DEF ArgTo

LEMMA ArgSet ==
  ASSUME ThreadsOK, NEW u \in Users, NEW x \in {NoArg} \cup Calls, arg' = [arg EXCEPT ![u] = x]
  PROVE  /\ arg' \in [Users -> {NoArg} \cup Calls] /\ arg'[u] = x
         /\ \A v \in Users : v # u => arg'[v] = arg[v]
BY Threads

(* No step but $wait changes what is waited for. *)
LEMMA WaitsSame ==
  ASSUME ThreadsOK, waits' = waits
  PROVE  WaitsTo
BY Threads DEF WaitsTo

(* A step outside the lock. *)
LEMMA HolderSame ==
  ASSUME HolderOK, ThreadsOK, NEW u \in Users, NEW w, Goto(u, w), d'.extlock = d.extlock,
         holder' = holder, w \in {"body", "stuck"} <=> pc[u] \in {"body", "stuck"}
  PROVE  HolderOK'
<1>1. pc'[u] = w /\ \A v \in Users : v # u => pc'[v] = pc[v]
  BY Threads DEF Goto
<1>2. \A v \in Users : pc'[v] \in {"body", "stuck"} <=> holder' = v
  <2>1. ASSUME NEW v \in Users
        PROVE  pc'[v] \in {"body", "stuck"} <=> holder' = v
    <3>1. CASE v = u
      BY <1>1, <3>1, Zenon DEF HolderOK
    <3>2. CASE v # u
      BY <1>1, <3>2, Zenon DEF HolderOK
    <3>3. QED
      BY <3>1, <3>2
  <2>2. QED
    BY <2>1
<1>3. QED
  BY <1>2, Zenon DEF HolderOK

(* A step outside the lock keeps what the submitter relies on. *)
LEMMA BodyKept ==
  ASSUME BodyOK, ThreadsOK, d' = d \/ (SameCells(d, d') /\ d'.idx = d.idx
         /\ d'.request = d.request),
         \A v \in Users : pc'[v] = "body" => pc[v] = "body" /\ arg'[v] = arg[v]
  PROVE  BodyOK'
<1>1. ASSUME NEW v \in Users, pc'[v] = "body"
      PROVE  RoomOK(d') /\ SearchOK(d', arg'[v])
  <2>1. RoomOK(d) /\ SearchOK(d, arg[v]) /\ arg'[v] = arg[v]
    BY <1>1, Zenon DEF BodyOK
  <2>2. CASE d' = d
    BY <2>1, <2>2, Zenon
  <2>3. CASE SameCells(d, d') /\ d'.idx = d.idx /\ d'.request = d.request
    BY <2>1, <2>3, BodySame, Zenon
  <2>4. QED
    BY <2>2, <2>3
<1>2. QED
  BY <1>1, Zenon DEF BodyOK

(* The submitter returns: the lock is free. *)
LEMMA HolderFree ==
  ASSUME HolderOK, ThreadsOK, NEW u \in Users, pc[u] = "body", Goto(u, "idle"), holder' = NoOne,
         d'.extlock = FALSE
  PROVE  HolderOK' /\ BodyOK'
<1>1. pc'[u] = "idle" /\ \A v \in Users : v # u => pc'[v] = pc[v]
  BY Threads DEF Goto
<1>2. ASSUME NEW v \in Users
      PROVE  pc'[v] \notin {"body", "stuck"}
  <2>1. CASE v = u
    BY <1>1, <2>1
  <2>2. CASE v # u
    <3>1. holder = u /\ holder # v
      BY <2>2, Zenon DEF HolderOK
    <3>2. QED
      BY <1>1, <2>2, <3>1, Zenon DEF HolderOK
  <2>3. QED
    BY <2>1, <2>2
<1>3. \A v \in Users : NoOne # v
  BY Apart, Zenon
<1>4. HolderOK'
  <2>1. \A v \in Users : pc'[v] \in {"body", "stuck"} <=> holder' = v
    BY <1>2, <1>3, Zenon
  <2>2. QED
    BY <2>1, Zenon DEF HolderOK
<1>5. QED
  BY <1>4, NoBody, Zenon

------------------------------------------------------------------------------
(*****************************************************************************)
(* The steps of the users.                                                   *)
(*****************************************************************************)

(* $trans is called: the ticket for queue(:1:)$lock is drawn. *)
LEMMA CallTransStep ==
  ASSUME IInv, NEW u \in Users, NEW s \in Submissions, CallTrans(u, s)
  PROVE  IInv'
<1>1. DataOK(d) /\ ThreadsOK /\ HolderOK /\ BodyOK
  BY DEF IInv
<1>2. pc[u] = "idle" /\ Goto(u, "free") /\ d' = d /\ holder' = holder /\ place' = place
      /\ waits' = waits
  BY DEF CallTrans, Idle
<1>3. PICK x : x = [req |-> s.req, prio |-> s.prio, ticket |-> d.next_lock[0] + 1,
             search |-> NoSearch]
  OBVIOUS
<1>4. x \in Calls
  <2>1. d.next_lock[0] + 1 \in Nat
    BY <1>1, DataNumbers
  <2>2. QED
    BY <1>3, <2>1 DEF Calls
<1>5. arg' = [arg EXCEPT ![u] = x]
  BY <1>3 DEF CallTrans
<1>6. /\ arg' \in [Users -> {NoArg} \cup Calls] /\ arg'[u] = x
      /\ \A v \in Users : v # u => arg'[v] = arg[v]
  BY <1>1, <1>4, <1>5, ArgSet
<1>7. ArgTo(u, "free")
  BY <1>4, <1>6 DEF ArgTo
<1>8. pc'[u] = "free" /\ \A v \in Users : v # u => pc'[v] = pc[v]
  BY <1>1, <1>2, Threads DEF Goto
<1>9. HolderOK'
  BY <1>1, <1>2, HolderSame
<1>10. BodyOK'
  <2>1. \A v \in Users : pc'[v] = "body" => pc[v] = "body" /\ arg'[v] = arg[v]
    BY <1>6, <1>8
  <2>2. QED
    BY <1>1, <1>2, <2>1, BodyKept, Zenon
<1>11. DataGrows
  BY <1>1, <1>2, DataSame, Zenon
<1>12. WaitsTo
  BY <1>1, <1>2, WaitsSame, Zenon
<1>13. "free" \in UserAt
  BY DEF UserAt
<1>14. QED
  BY <1>2, <1>7, <1>9, <1>10, <1>11, <1>12, <1>13, UserMoves, Zenon

(* queue(:1:)$lock is let in, or ends in the error state. *)
LEMMA LockWokenStep ==
  ASSUME IInv, NEW u \in Users, LockWoken(u)
  PROVE  IInv'
<1>1. DataOK(d) /\ ThreadsOK /\ HolderOK /\ BodyOK
  BY DEF IInv
<1>2. pc[u] = "free" /\ d' = d /\ holder' = holder /\ place' = place /\ waits' = waits
  BY DEF LockWoken
<1>3. PICK w : w = IF d.error_state THEN "idle" ELSE "enter"
  OBVIOUS
<1>4. Goto(u, w) /\ w \in UserAt /\ w \notin {"body", "stuck", "free"}
  BY <1>3 DEF LockWoken, UserAt
<1>5. ArgTo(u, w)
  <2>1. CASE d.error_state
    <3>1. arg' = [arg EXCEPT ![u] = NoArg] /\ w = "idle"
      BY <1>3, <2>1 DEF LockWoken
    <3>2. /\ arg' \in [Users -> {NoArg} \cup Calls]
          /\ \A v \in Users : v # u => arg'[v] = arg[v]
      BY <1>1, <3>1, ArgSet
    <3>3. QED
      BY <3>1, <3>2 DEF ArgTo
  <2>2. CASE ~d.error_state
    <3>1. arg' = arg /\ w = "enter" /\ arg[u].ticket < d.next_unlock[0]
      BY <1>3, <2>2 DEF LockWoken, Unlocked
    <3>2. arg[u] \in Calls
      BY <1>1, <1>2, Threads
    <3>3. arg[u].ticket \in Nat
      BY <3>2 DEF Calls
    <3>4. arg' \in [Users -> {NoArg} \cup Calls]
      BY <1>1, <3>1, Threads
    <3>5. QED
      BY <3>1, <3>2, <3>3, <3>4 DEF ArgTo
  <2>3. QED
    BY <2>1, <2>2
<1>8. pc'[u] = w /\ \A v \in Users : v # u => pc'[v] = pc[v]
  BY <1>1, <1>4, Threads DEF Goto
<1>9. HolderOK'
  <2>1. w \in {"body", "stuck"} <=> pc[u] \in {"body", "stuck"}
    BY <1>2, <1>4
  <2>2. d'.extlock = d.extlock
    BY <1>2
  <2>3. QED
    BY <1>1, <1>2, <1>4, <2>1, <2>2, HolderSame, Zenon
<1>10. BodyOK'
  <2>1. \A v \in Users : pc'[v] = "body" => pc[v] = "body" /\ arg'[v] = arg[v]
    BY <1>4, <1>5, <1>8 DEF ArgTo
  <2>2. QED
    BY <1>1, <1>2, <2>1, BodyKept, Zenon
<1>11. DataGrows
  BY <1>1, <1>2, DataSame, Zenon
<1>12. WaitsTo
  BY <1>1, <1>2, WaitsSame, Zenon
<1>14. QED
  BY <1>2, <1>4, <1>5, <1>9, <1>10, <1>11, <1>12, UserMoves, Zenon

(* Another writer came first: the ticket is drawn again. *)
LEMMA LockRetryStep ==
  ASSUME IInv, NEW u \in Users, LockRetry(u)
  PROVE  IInv'
<1>1. DataOK(d) /\ ThreadsOK /\ HolderOK /\ BodyOK
  BY DEF IInv
<1>2. pc[u] = "enter" /\ Goto(u, "free") /\ d' = d /\ holder' = holder /\ place' = place
      /\ waits' = waits
  BY DEF LockRetry
<1>3. PICK c \in Calls : c = arg[u]
  BY <1>1, <1>2, Threads
<1>4. PICK x : x = [c EXCEPT !.ticket = d.next_lock[0] + 1]
  OBVIOUS
<1>5. x \in Calls
  <2>1. d.next_lock[0] + 1 \in Nat
    BY <1>1, DataNumbers
  <2>2. QED
    BY <1>4, <2>1 DEF Calls
<1>6. arg' = [arg EXCEPT ![u] = x]
  <2>1. arg' = [arg EXCEPT ![u] = [arg[u] EXCEPT !.ticket = d.next_lock[0] + 1]]
    BY <1>1, <1>3, Threads DEF LockRetry
  <2>2. QED
    BY <1>3, <1>4, <2>1
<1>7. /\ arg' \in [Users -> {NoArg} \cup Calls] /\ arg'[u] = x
      /\ \A v \in Users : v # u => arg'[v] = arg[v]
  BY <1>1, <1>5, <1>6, ArgSet
<1>8. ArgTo(u, "free")
  BY <1>5, <1>7 DEF ArgTo
<1>9. pc'[u] = "free" /\ \A v \in Users : v # u => pc'[v] = pc[v]
  BY <1>1, <1>2, Threads DEF Goto
<1>10. HolderOK'
  BY <1>1, <1>2, HolderSame
<1>11. BodyOK'
  <2>1. \A v \in Users : pc'[v] = "body" => pc[v] = "body" /\ arg'[v] = arg[v]
    BY <1>7, <1>9
  <2>2. QED
    BY <1>1, <1>2, <2>1, BodyKept, Zenon
<1>12. DataGrows
  BY <1>1, <1>2, DataSame, Zenon
<1>13. WaitsTo
  BY <1>1, <1>2, WaitsSame, Zenon
<1>14. "free" \in UserAt
  BY DEF UserAt
<1>15. QED
  BY <1>2, <1>8, <1>10, <1>11, <1>12, <1>13, <1>14, UserMoves, Zenon

(* $cancel sets marks. *)
LEMMA CallCancelStep ==
  ASSUME IInv, NEW u \in Users, NEW A, CallCancel(u, A)
  PROVE  IInv'
<1>1. DataOK(d) /\ ThreadsOK /\ HolderOK /\ BodyOK
  BY DEF IInv
<1>2. /\ pc[u] = "idle" /\ pc' = pc /\ holder = NoOne /\ holder' = holder /\ place' = place
         /\ waits' = waits
      /\ arg' = arg /\ d' = Cancelled(d, A)
  BY DEF CallCancel, Idle
<1>3. Goto(u, "idle")
  BY <1>1, <1>2, Threads DEF Goto
<1>4. /\ SameCells(d, d') /\ d'.extlock = d.extlock
      /\ d'.next_lock = d.next_lock /\ d'.idx = d.idx
  BY <1>1, <1>2, CancelIs, Zenon
<1>5. HolderOK'
  <2>1. "idle" \in {"body", "stuck"} <=> pc[u] \in {"body", "stuck"}
    BY <1>2
  <2>2. QED
    BY <1>1, <1>2, <1>3, <1>4, <2>1, HolderSame, Zenon
<1>6. BodyOK'
  BY <1>2, <1>5, NoBody, Zenon
<1>7. DataGrows
  BY <1>1, <1>4, DataSame, Zenon
<1>8. WaitsTo
  BY <1>1, <1>2, WaitsSame, Zenon
<1>9. ArgTo(u, "idle")
  BY <1>1, <1>2, ArgSame
<1>10. "idle" \in UserAt
  BY DEF UserAt
<1>11. QED
  BY <1>2, <1>3, <1>5, <1>6, <1>7, <1>8, <1>9, <1>10, UserMoves, Zenon

(* $wait picks ids that were given out. *)
LEMMA WaitIdsIs ==
  ASSUME DataOK(d)
  PROVE  WaitIds \subseteq Ids /\ Ids \subseteq Nat
<1>1. PICK l \in Nat, t \in Nat, N \in Nat : l = d.idx[0] /\ t = d.idx[4] /\ N = d.next_lock[2]
  BY DataNumbers
<1>2. Ids \subseteq Nat
  BY DEF Ids
<1>3. CASE l =< t - 1 /\ ~IsNull(d, t - 1)
  <2>1. t - 1 \in l .. (t - 1)
    BY <1>3
  <2>2. t - 1 \in Positions(d)
    BY <1>1, <2>1, Zenon DEF Positions, locked_head, tail
  <2>3. Request(d, t - 1) \in ioqueue_request /\ Id(d, t - 1) < N
    BY <1>1, <1>3, <2>2, Zenon DEF DataOK, RequestsOK
  <2>4. PICK i \in Nat : i = Request(d, t - 1).lock_id /\ i < N
    BY <2>3, SubmittedIs DEF Id
  <2>5. i \in 0 .. (N - 1)
    BY <2>4
  <2>6. i \in Ids
    BY <1>1, <2>5, Zenon DEF Ids
  <2>7. WaitIds = {i}
    BY <1>1, <1>3, <2>4, Zenon DEF WaitIds, locked_head, tail
  <2>8. QED
    BY <1>2, <2>6, <2>7
<1>4. CASE ~(l =< t - 1 /\ ~IsNull(d, t - 1))
  <2>1. WaitIds = Ids
    BY <1>1, <1>4, Zenon DEF WaitIds, locked_head, tail
  <2>2. QED
    BY <1>2, <2>1
<1>5. QED
  BY <1>3, <1>4

(* $wait begins. *)
LEMMA CallWaitStep ==
  ASSUME IInv, NEW u \in Users, CallWait(u)
  PROVE  IInv'
<1>1. DataOK(d) /\ ThreadsOK /\ HolderOK /\ BodyOK
  BY DEF IInv
<1>2. /\ pc[u] = "idle" /\ Goto(u, "wait") /\ holder = NoOne /\ holder' = holder /\ place' = place
      /\ arg' = arg /\ d' = d /\ waits' = [waits EXCEPT ![u] = [ids |-> WaitIds, before |-> Ids]]
  BY DEF CallWait, Idle
<1>3. HolderOK'
  BY <1>1, <1>2, HolderSame
<1>4. BodyOK'
  BY <1>2, <1>3, NoBody, Zenon
<1>5. DataGrows
  BY <1>1, <1>2, DataSame, Zenon
<1>6. WaitsTo
  <2>1. PICK x : x = [ids |-> WaitIds, before |-> Ids]
    OBVIOUS
  <2>2. x \in Waits /\ x.ids \subseteq x.before /\ x.before \subseteq Ids
    BY <1>1, <2>1, WaitIdsIs DEF Waits
  <2>3. waits' = [waits EXCEPT ![u] = x]
    BY <1>2, <2>1, Zenon
  <2>4. waits' \in [Users -> Waits] /\ waits'[u] = x /\ \A v \in Users : v # u =>
        waits'[v] = waits[v]
    BY <1>1, <2>2, <2>3, Threads
  <2>5. ASSUME NEW v \in Users
        PROVE  waits'[v].ids \subseteq waits'[v].before /\ waits'[v].before \subseteq Ids
    <3>1. CASE v = u
      BY <2>2, <2>4, <3>1, Zenon
    <3>2. CASE v # u
      BY <1>1, <2>4, <3>2, Threads, Zenon
    <3>3. QED
      BY <3>1, <3>2
  <2>6. QED
    BY <2>4, <2>5, Zenon DEF WaitsTo
<1>7. ArgTo(u, "wait")
  BY <1>1, <1>2, ArgSame
<1>8. "wait" \in UserAt
  BY DEF UserAt
<1>9. QED
  BY <1>2, <1>3, <1>4, <1>5, <1>6, <1>7, <1>8, UserMoves, Zenon

(* $wait returns. *)
LEMMA WaitReturnStep ==
  ASSUME IInv, NEW u \in Users, WaitReturn(u)
  PROVE  IInv'
<1>1. DataOK(d) /\ ThreadsOK /\ HolderOK /\ BodyOK
  BY DEF IInv
<1>2. /\ pc[u] = "wait" /\ Goto(u, "idle") /\ holder' = holder /\ place' = place
      /\ arg' = arg /\ d' = d /\ waits' = [waits EXCEPT ![u] = NoWait]
  BY DEF WaitReturn
<1>3. pc'[u] = "idle" /\ \A v \in Users : v # u => pc'[v] = pc[v]
  BY <1>1, <1>2, Threads DEF Goto
<1>4. HolderOK'
  BY <1>1, <1>2, HolderSame
<1>5. BodyOK'
  <2>1. \A v \in Users : pc'[v] = "body" => pc[v] = "body" /\ arg'[v] = arg[v]
    BY <1>2, <1>3
  <2>2. QED
    BY <1>1, <1>2, <2>1, BodyKept, Zenon
<1>6. DataGrows
  BY <1>1, <1>2, DataSame, Zenon
<1>7. WaitsTo
  <2>1. NoWait \in Waits /\ NoWait.ids \subseteq NoWait.before /\ NoWait.before \subseteq Ids
    BY DEF Waits, NoWait
  <2>2. waits' \in [Users -> Waits] /\ waits'[u] = NoWait /\ \A v \in Users : v # u =>
        waits'[v] = waits[v]
    BY <1>1, <1>2, <2>1, Threads
  <2>3. ASSUME NEW v \in Users
        PROVE  waits'[v].ids \subseteq waits'[v].before /\ waits'[v].before \subseteq Ids
    <3>1. CASE v = u
      BY <2>1, <2>2, <3>1, Zenon
    <3>2. CASE v # u
      BY <1>1, <2>2, <3>2, Threads, Zenon
    <3>3. QED
      BY <3>1, <3>2
  <2>4. QED
    BY <2>2, <2>3, Zenon DEF WaitsTo
<1>8. ArgTo(u, "idle")
  BY <1>1, <1>2, ArgSame
<1>9. "idle" \in UserAt
  BY DEF UserAt
<1>10. QED
  BY <1>2, <1>4, <1>5, <1>6, <1>7, <1>8, <1>9, UserMoves, Zenon

(* A submitter who holds the lock finds a request block. *)
LEMMA RoomLeft ==
  ASSUME NEW q, DataOK(q), RoomOK(q)
  PROVE  q.freelist # << >>
<1>1. SUFFICES ASSUME q.freelist = << >>
               PROVE  FALSE
  OBVIOUS
<1>2. PICK l \in Nat, t \in Nat : l = q.idx[0] /\ t = q.idx[4]
  BY DataNumbers
<1>3. Positions(q) = l .. (t - 1)
  BY <1>2, Zenon DEF Positions, locked_head, tail
<1>4. ASSUME NEW b \in Blocks
      PROVE  \E p \in l .. (t - 1) : At(q, p) = b
  <2>1. ~Lists(q.freelist, b)
    BY <1>1 DEF Lists
  <2>2. QED
    BY <1>3, <2>1, Zenon DEF DataOK, BlocksOK
<1>5. PICK f : f = [b \in Blocks |-> CHOOSE p \in l .. (t - 1) : At(q, p) = b]
  OBVIOUS
<1>6. \A b \in Blocks : f[b] \in l .. (t - 1) /\ At(q, f[b]) = b
  BY <1>4, <1>5, Zenon
<1>7. f \in Injection(Blocks, l .. (t - 1))
  <2>1. f \in [Blocks -> l .. (t - 1)] /\ DOMAIN f = Blocks
    BY <1>5, <1>6, Zenon
  <2>2. \A b, c \in DOMAIN f : f[b] = f[c] => b = c
    BY <1>6, <2>1, Zenon
  <2>3. QED
    BY <2>1, <2>2, Zenon DEF Injection, IsInjective
<1>8. PICK e \in Int : e = t - 1
  BY <1>2
<1>9. IsFiniteSet(l .. e) /\ Cardinality(l .. e) = IF l > e THEN 0 ELSE e - l + 1
  BY FS_Interval
<1>10. Cardinality(Blocks) =< Cardinality(l .. e)
  BY <1>7, <1>8, <1>9, FS_Injection, Zenon
<1>11. Cardinality(Blocks) = IOQUEUE_MAX_REQUESTS
  <2>1. PICK M \in Nat : M = IOQUEUE_MAX_REQUESTS /\ M >= 2
    BY Sizes
  <2>2. PICK k \in Int : k = M - 1
    BY <2>1
  <2>3. Cardinality(0 .. k) = IF 0 > k THEN 0 ELSE k - 0 + 1
    BY FS_Interval
  <2>4. Blocks = 0 .. k
    BY <2>1, <2>2, Zenon DEF Blocks
  <2>5. QED
    BY <2>1, <2>2, <2>3, <2>4
<1>12. t - l =< IOQUEUE_MAX_REQUESTS - 2
  BY <1>2, Zenon DEF RoomOK, locked_head, tail
<1>13. QED
  BY <1>8, <1>9, <1>10, <1>11, <1>12, Sizes

(* A submitted request is a normal or a background one. *)
LEMMA PriorityIs ==
  ASSUME NoUrgent, NEW x \in Calls
  PROVE  /\ x.prio \in {1, 2} /\ x.prio \in {s.prio : s \in Submissions} /\ x.req.log_addr \in Nat
         /\ x.req \in {s.req : s \in Submissions}
<1>1. x.prio \in {s.prio : s \in Submissions} /\ x.req \in {s.req : s \in Submissions}
  BY DEF Calls
<1>2. PICK s \in Submissions : x.prio = s.prio
  BY <1>1
<1>3. PICK r \in Submissions : x.req = r.req
  BY <1>1
<1>4. s.prio \in {1, 2}
  BY IoQueueAssumption DEF NoUrgent, prio_urgent, prio_normal, prio_background
<1>5. r.req.log_addr \in Nat
  BY IoQueueAssumption
<1>6. QED
  BY <1>1, <1>2, <1>3, <1>4, <1>5

(* The queue that the submitter finds. *)
EnteredTo ==
  \E q : Entered(d, q) /\ DataOK(q) /\ SameCells(q, d') /\ d'.idx = q.idx
    /\ d'.error_state = q.error_state

(* queue(:1:)$lock is granted: make_valid has made room, and the search is *)
(* done.                                                                   *)
LEMMA LockEnterStep ==
  ASSUME NoUrgent, IInv, NEW u \in Users, LockEnter(u)
  PROVE  IInv' /\ EnteredTo
<1>1. DataOK(d) /\ ThreadsOK /\ HolderOK /\ BodyOK
  BY DEF IInv
<1>2. /\ pc[u] = "enter" /\ holder = NoOne /\ Goto(u, "body") /\ holder' = u /\ place' = place
      /\ waits' = waits /\ arg[u].ticket = d.next_lock[0] + 1
  BY DEF LockEnter
<1>3. PICK c \in Calls : c = arg[u]
  BY <1>1, <1>2, Threads
<1>4. d.idx[4] + 1 < d.next_unlock[0]
  <2>1. c.ticket < d.next_unlock[0] /\ c.ticket = d.next_lock[0] + 1
    BY <1>1, <1>2, <1>3, Threads
  <2>2. d.next_lock[0] = d.idx[4]
    BY <1>1, Zenon DEF DataOK, CountersOK, tail
  <2>3. QED
    BY <2>1, <2>2, Zenon
<1>5. PICK q : /\ q = Validated(make_valid(d, d.idx[4] + 1)) /\ d' = [q EXCEPT !.extlock = TRUE]
               /\ arg' = [arg EXCEPT ![u].search = SearchAll(q, arg[u].req, arg[u].prio)]
  BY Zenon DEF LockEnter, tail
<1>6. Entered(d, q)
  BY <1>1, <1>4, <1>5, ValidatedIs, Zenon
<1>7. q \in ioqueue_data /\ SameQueue(d, q) /\ RoomOK(q) /\ q.next_lock = d.next_lock
      /\ q.idx[1] = d.idx[1]
      /\ q.idx[0] = d.idx[0] /\ q.idx[4] = d.idx[4]
  BY <1>6, Zenon DEF Entered
<1>8. DataOK(q)
  BY <1>1, <1>7, SameQueueOK, Zenon
<1>9. c.prio \in {1, 2} /\ c.req.log_addr \in Nat
  BY PriorityIs
<1>10. PICK s : s = SearchAll(q, c.req, c.prio)
  OBVIOUS
<1>11. PICK x : x = [c EXCEPT !.search = s]
  OBVIOUS
<1>12. x.req = c.req /\ x.prio = c.prio /\ x.search = s /\ x.ticket = c.ticket
  BY <1>11 DEF Calls
<1>13. SearchOK(q, x)
  <2>1. x.req.log_addr \in Nat /\ x.prio \in {1, 2} /\ x.search = SearchAll(q, x.req, x.prio)
    BY <1>9, <1>10, <1>12, Zenon
  <2>2. QED
    BY <1>7, <1>8, <2>1, SearchAllOK, Zenon
<1>14. x \in Calls
  <2>1. s \in Searches
    BY <1>12, <1>13, Zenon DEF SearchOK
  <2>2. QED
    BY <1>11, <2>1 DEF Calls
<1>15. arg' = [arg EXCEPT ![u] = x]
  <2>1. arg' = [arg EXCEPT ![u] = [arg[u] EXCEPT !.search = SearchAll(q, arg[u].req, arg[u].prio)]]
    BY <1>1, <1>3, <1>5, Threads
  <2>2. QED
    BY <1>3, <1>10, <1>11, <2>1, Zenon
<1>16. /\ arg' \in [Users -> {NoArg} \cup Calls] /\ arg'[u] = x
       /\ \A v \in Users : v # u => arg'[v] = arg[v]
  BY <1>1, <1>14, <1>15, ArgSet
<1>17. ArgTo(u, "body")
  BY <1>14, <1>16 DEF ArgTo
<1>18. pc'[u] = "body" /\ \A v \in Users : v # u => pc'[v] = pc[v]
  BY <1>1, <1>2, Threads DEF Goto
<1>19. /\ SameCells(q, d') /\ d'.extlock = TRUE /\ d'.next_lock = q.next_lock /\ d'.idx = q.idx
       /\ d'.request = q.request /\ d'.error_state = q.error_state
  <2>1. TRUE \in BOOLEAN
    OBVIOUS
  <2>2. d' = [q EXCEPT !.extlock = TRUE]
    BY <1>5
  <2>3. QED
    BY <1>8, <2>1, <2>2, ExtlockIs
<1>20. DataOK(d') /\ \A p : IsNull(d', p) <=> IsNull(q, p)
  BY <1>8, <1>19, SameCellsOK, Zenon
<1>21. HolderOK'
  <2>1. u # NoOne
    BY Apart
  <2>2. ASSUME NEW v \in Users
        PROVE  pc'[v] \in {"body", "stuck"} <=> holder' = v
    <3>1. CASE v = u
      BY <1>2, <1>18, <3>1
    <3>2. CASE v # u
      <4>1. pc[v] # "body" /\ pc[v] # "stuck"
        BY <1>1, <1>2, Unheld, Zenon
      <4>2. QED
        BY <1>2, <1>18, <3>2, <4>1
    <3>3. QED
      BY <3>1, <3>2
  <2>3. QED
    BY <1>2, <1>19, <2>1, <2>2 DEF HolderOK
<1>22. BodyOK'
  <2>1. RoomOK(d') /\ SearchOK(d', x)
    BY <1>7, <1>13, <1>19, BodySame, Zenon
  <2>2. \A v \in Users : v # u => pc'[v] # "body"
    BY <1>1, <1>2, <1>18, Unheld, Zenon
  <2>3. QED
    BY <1>16, <2>1, <2>2, Zenon DEF BodyOK
<1>23. DataGrows
  <2>1. \A p \in Positions(d) : IsNull(q, p) <=> IsNull(d, p)
    BY <1>7, Zenon DEF SameQueue, IsNull
  <2>2. PICK l \in Nat, h \in Nat, t \in Nat : l = d.idx[0] /\ h = d.idx[1] /\ t = d.idx[4]
               /\ h =< t
    BY <1>1, DataNumbers
  <2>3. \A p \in l .. (h - 1) : p \in l .. (t - 1)
    BY <2>2
  <2>4. \A p \in l .. (h - 1) : p \in Positions(d)
    BY <2>2, <2>3, Zenon DEF Positions, locked_head, tail
  <2>5. \A p \in l .. (h - 1) : IsNull(d', p) <=> IsNull(d, p)
    BY <1>20, <2>1, <2>4, Zenon
  <2>6. d'.idx[0] = l /\ d'.idx[1] = h /\ d'.idx[4] = t
    BY <1>7, <1>19, <2>2, Zenon
  <2>7. d'.next_unlock = d.next_unlock /\ d'.next_lock = d.next_lock
    BY <1>7, <1>19, Zenon DEF SameCells, SameQueue
  <2>8. d.idx[4] =< d.idx[4] /\ d.next_unlock[0] =< d.next_unlock[0]
        /\ d.next_lock[2] =< d.next_lock[2]
    BY <1>1, DataNumbers
  <2>9. QED
    BY <1>20, <2>2, <2>5, <2>6, <2>7, <2>8, Zenon DEF DataGrows
<1>24. WaitsTo
  BY <1>1, <1>2, WaitsSame, Zenon
<1>25. "body" \in UserAt
  BY DEF UserAt
<1>26. IInv'
  BY <1>2, <1>17, <1>21, <1>22, <1>23, <1>24, <1>25, UserMoves, Zenon
<1>27. EnteredTo
  BY <1>6, <1>8, <1>19, Zenon DEF EnteredTo
<1>28. QED
  BY <1>26, <1>27

(* The submitter in its body. *)
LEMMA BodyIs ==
  ASSUME NoUrgent, IInv, NEW u \in Users, pc[u] = "body"
  PROVE  /\ DataOK(d) /\ ThreadsOK /\ HolderOK /\ BodyOK /\ RoomOK(d) /\ SearchOK(d, arg[u])
         /\ arg[u] \in Calls /\ arg[u].prio \in {1, 2}
<1>1. DataOK(d) /\ ThreadsOK /\ HolderOK /\ BodyOK
  BY DEF IInv
<1>2. arg[u] \in Calls
  BY <1>1, Threads
<1>3. arg[u].prio \in {1, 2}
  BY <1>2, PriorityIs
<1>4. QED
  BY <1>1, <1>2, <1>3, Zenon DEF BodyOK

(* The call ends. *)
LEMMA ArgNone ==
  ASSUME ThreadsOK, NEW u \in Users, arg' = [arg EXCEPT ![u] = NoArg]
  PROVE  ArgTo(u, "idle")
<1>1. /\ arg' \in [Users -> {NoArg} \cup Calls]
      /\ \A v \in Users : v # u => arg'[v] = arg[v]
  BY ArgSet
<1>2. QED
  BY <1>1 DEF ArgTo

(* An equal request was found: no new one is needed. *)
LEMMA TransMergeStep ==
  ASSUME NoUrgent, IInv, NEW u \in Users, TransMerge(u)
  PROVE  IInv' /\ SameCells(d, d') /\ d'.idx = d.idx /\ d'.error_state = d.error_state
<1>1. /\ pc[u] = "body" /\ arg[u].search.result.found /\ place' = place /\ waits' = waits
      /\ Unlock(u, IF arg[u].prio > arg[u].search.class
               THEN [d EXCEPT !.request[At(d, Place(u))].prio = arg[u].prio]
               ELSE d)
  BY DEF TransMerge, Found
<1>2. DataOK(d) /\ ThreadsOK /\ HolderOK /\ BodyOK /\ SearchOK(d, arg[u]) /\ arg[u].prio \in {1, 2}
  BY <1>1, BodyIs, Zenon
<1>3. ~(arg[u].prio > arg[u].search.class)
  <2>1. arg[u].search \in Searches /\ arg[u].prio =< arg[u].search.class
    BY <1>1, <1>2, Zenon DEF SearchOK
  <2>2. PICK k \in 1 .. 3 : k = arg[u].search.class
    BY <2>1 DEF Searches
  <2>3. QED
    BY <1>2, <2>1, <2>2
<1>4. Unlock(u, d)
  BY <1>1, <1>3, Zenon
<1>5. d' = [d EXCEPT !.extlock = FALSE] /\ holder' = NoOne /\ Goto(u, "idle")
      /\ arg' = [arg EXCEPT ![u] = NoArg]
  BY <1>4 DEF Unlock
<1>6. /\ SameCells(d, d') /\ d'.extlock = FALSE /\ d'.next_lock = d.next_lock /\ d'.idx = d.idx
      /\ d'.error_state = d.error_state
  <2>1. FALSE \in BOOLEAN
    OBVIOUS
  <2>2. QED
    BY <1>2, <1>5, <2>1, ExtlockIs
<1>7. HolderOK' /\ BodyOK'
  BY <1>1, <1>2, <1>5, <1>6, HolderFree, Zenon
<1>8. DataGrows
  BY <1>2, <1>6, DataSame, Zenon
<1>9. ArgTo(u, "idle")
  BY <1>2, <1>5, ArgNone, Zenon
<1>10. WaitsTo
  BY <1>1, <1>2, WaitsSame, Zenon
<1>11. "idle" \in UserAt
  BY DEF UserAt
<1>12. IInv'
  BY <1>1, <1>5, <1>7, <1>8, <1>9, <1>10, <1>11, UserMoves, Zenon
<1>13. QED
  BY <1>6, <1>12

(* $trans ends half-way after a fatal search or in the error state. *)
LEMMA TransAbortStep ==
  ASSUME NoUrgent, IInv, NEW u \in Users, TransAbort(u)
  PROVE  IInv' /\ (d' = d) /\ (Fatal(u) \/ d.error_state)
<1>1. pc[u] = "body" /\ Goto(u, "stuck") /\ holder' = holder /\ arg' = arg /\ place' = place
      /\ waits' = waits
  BY DEF TransAbort
<1>2. DataOK(d) /\ ThreadsOK /\ HolderOK /\ BodyOK /\ RoomOK(d)
  BY <1>1, BodyIs, Zenon
<1>3. d.freelist # << >>
  BY <1>2, RoomLeft, Zenon
<1>4. d' = d /\ (Fatal(u) \/ d.error_state)
  BY <1>3, Zenon DEF TransAbort
<1>5. pc'[u] = "stuck" /\ \A v \in Users : v # u => pc'[v] = pc[v]
  BY <1>1, <1>2, Threads DEF Goto
<1>6. HolderOK'
  <2>1. d'.extlock = d.extlock
    BY <1>4
  <2>2. "stuck" \in {"body", "stuck"} <=> pc[u] \in {"body", "stuck"}
    BY <1>1
  <2>3. QED
    BY <1>1, <1>2, <2>1, <2>2, HolderSame, Zenon
<1>7. BodyOK'
  <2>1. \A v \in Users : pc'[v] = "body" => pc[v] = "body" /\ arg'[v] = arg[v]
    BY <1>1, <1>5
  <2>2. QED
    BY <1>2, <1>4, <2>1, BodyKept, Zenon
<1>8. DataGrows
  BY <1>2, <1>4, DataSame, Zenon
<1>9. ArgTo(u, "stuck")
  BY <1>1, <1>2, ArgSame
<1>10. WaitsTo
  BY <1>1, <1>2, WaitsSame, Zenon
<1>11. "stuck" \in UserAt
  BY DEF UserAt
<1>12. IInv'
  BY <1>1, <1>6, <1>7, <1>8, <1>9, <1>10, <1>11, UserMoves, Zenon
<1>13. QED
  BY <1>4, <1>12

(* What a submission does to the data. *)
LEMMA SubmissionIs ==
  ASSUME NoUrgent, IInv, NEW u \in Users, TransSubmit(u), NEW x, x = arg[u], NEW n, n = Place(u),
         NEW q, q = Submitted(d, x.req, x.prio, n)
  PROVE  /\ DataOK(q) /\ Inserted(d, x.req, x.prio, n, Head(d.freelist), q)
         /\ n \in d.idx[1] .. d.idx[4]
         /\ d' = [q EXCEPT !.extlock = FALSE]
<1>1. /\ pc[u] = "body" /\ ~arg[u].search.result.found /\ ~arg[u].search.result.fatal
      /\ d.freelist # << >> /\ d' = [q EXCEPT !.extlock = FALSE] /\ n = arg[u].search.result.next
  BY Zenon DEF TransSubmit, Found, Fatal, Place, Unlock
<1>2. /\ DataOK(d) /\ ThreadsOK /\ HolderOK /\ BodyOK /\ RoomOK(d) /\ SearchOK(d, arg[u])
      /\ arg[u] \in Calls /\ arg[u].prio \in {1, 2}
  BY <1>1, BodyIs, Zenon
<1>3. /\ x.prio \in {1, 2} /\ x.prio \in {s.prio : s \in Submissions}
      /\ x.req \in {s.req : s \in Submissions}
  BY <1>2, PriorityIs
<1>4. IF x.prio = prio_normal
      THEN PlaceOK(d, x.req.log_addr, d.idx[head], d.idx[sched_normal] - 1, n)
      ELSE n = d.idx[sched_normal]
  BY <1>1, <1>2, Zenon DEF SearchOK
<1>5. InPlace(d, x.req, x.prio, n)
  BY <1>4, Zenon DEF InPlace
<1>6. n \in d.idx[1] .. d.idx[4]
  <2>1. d \in ioqueue_data /\ ZonesOK(d) /\ OrderOK(d)
    BY <1>2 DEF DataOK
  <2>2. PICK h \in Nat, m \in Nat, t \in Nat : h = d.idx[1] /\ m = d.idx[2] /\ t = d.idx[4]
    BY <2>1, Fields
  <2>3. h =< m /\ m =< t
    BY <1>2, <2>1, <2>2, Zenon DEF OrderOK, RoomOK, head, sched_normal, tail
  <2>4. CASE x.prio = prio_normal
    <3>1. PlaceOK(d, x.req.log_addr, h, m - 1, n)
      BY <1>4, <2>2, <2>4, Zenon DEF head, sched_normal
    <3>2. n \in h .. ((m - 1) + 1)
      BY <3>1, Zenon DEF PlaceOK
    <3>3. n \in h .. t
      BY <2>3, <3>2
    <3>4. QED
      BY <2>2, <3>3, Zenon
  <2>5. CASE x.prio # prio_normal
    <3>1. n = m
      BY <1>4, <2>2, <2>5, Zenon DEF sched_normal
    <3>2. n \in h .. t
      BY <2>3, <3>1
    <3>3. QED
      BY <2>2, <3>2, Zenon
  <2>6. QED
    BY <2>4, <2>5
<1>7. Inserted(d, x.req, x.prio, n, Head(d.freelist), q)
  BY <1>1, <1>2, <1>3, <1>6, SubmitIs, Zenon
<1>8. DataOK(q)
  BY <1>1, <1>2, <1>3, <1>5, <1>6, <1>7, InsertedOK, Zenon
<1>9. QED
  BY <1>1, <1>6, <1>7, <1>8

(* The request is put at its place. *)
LEMMA TransSubmitStep ==
  ASSUME NoUrgent, IInv, NEW u \in Users, TransSubmit(u)
  PROVE  IInv'
<1>1. PICK x : x = arg[u]
  OBVIOUS
<1>2. PICK n : n = Place(u)
  OBVIOUS
<1>3. PICK b : b = Head(d.freelist)
  OBVIOUS
<1>4. PICK q : q = Submitted(d, x.req, x.prio, n)
  OBVIOUS
<1>5. /\ DataOK(q) /\ Inserted(d, x.req, x.prio, n, b, q) /\ n \in d.idx[1] .. d.idx[4]
      /\ d' = [q EXCEPT !.extlock = FALSE]
  BY <1>1, <1>2, <1>3, <1>4, SubmissionIs, Zenon
<1>6. DataOK(d) /\ ThreadsOK /\ HolderOK /\ BodyOK
  BY DEF IInv
<1>7. /\ pc[u] = "body" /\ holder' = NoOne /\ Goto(u, "idle") /\ arg' = [arg EXCEPT ![u] = NoArg]
      /\ place' = place /\ waits' = waits
  BY DEF TransSubmit, Unlock
<1>8. SameCells(q, d') /\ d'.extlock = FALSE /\ d'.next_lock = q.next_lock /\ d'.idx = q.idx
  <2>1. FALSE \in BOOLEAN
    OBVIOUS
  <2>2. QED
    BY <1>5, <2>1, ExtlockIs
<1>9. DataOK(d') /\ \A p : IsNull(d', p) <=> IsNull(q, p)
  BY <1>5, <1>8, SameCellsOK, Zenon
<1>10. HolderOK' /\ BodyOK'
  BY <1>6, <1>7, <1>8, HolderFree, Zenon
<1>11. DataGrows
  <2>1. PICK l \in Nat, h \in Nat, t \in Nat : l = d.idx[0] /\ h = d.idx[1] /\ t = d.idx[4]
               /\ h =< t
    BY <1>6, DataNumbers
  <2>2. d'.idx[0] = l /\ d'.idx[1] = h /\ d'.idx[4] = t + 1
    BY <1>5, <1>8, <2>1, Zenon DEF Inserted
  <2>3. \A p \in l .. t : p < n => At(q, p) = At(d, p)
    BY <1>5, <2>1, Zenon DEF Inserted
  <2>4. \A p \in l .. (h - 1) : p \in l .. t /\ p < n
    BY <1>5, <2>1
  <2>5. \A p \in l .. (h - 1) : IsNull(d', p) <=> IsNull(d, p)
    BY <1>9, <2>3, <2>4, Zenon DEF IsNull
  <2>6. PICK N \in Nat : N = d.next_lock[2]
    BY <1>6, DataNumbers
  <2>7. d'.next_lock[2] = N + 1 /\ d'.next_lock[1] = d.next_lock[1]
        /\ d'.next_unlock[0] = d.next_unlock[0]
    BY <1>5, <1>8, <2>6, Zenon DEF Inserted, SameCells
  <2>8. t =< t + 1 /\ N =< N + 1 /\ d.next_unlock[0] =< d.next_unlock[0]
    BY <1>6, DataNumbers
  <2>9. QED
    BY <1>9, <2>1, <2>2, <2>5, <2>6, <2>7, <2>8, Zenon DEF DataGrows
<1>12. ArgTo(u, "idle")
  BY <1>6, <1>7, ArgNone, Zenon
<1>13. WaitsTo
  BY <1>6, <1>7, WaitsSame, Zenon
<1>14. "idle" \in UserAt
  BY DEF UserAt
<1>15. QED
  BY <1>7, <1>10, <1>11, <1>12, <1>13, <1>14, UserMoves, Zenon

------------------------------------------------------------------------------
(*****************************************************************************)
(* The steps of the arbiters.                                                *)
(*****************************************************************************)

(* An arbiter goes on. *)
LEMMA ArbiterAlone ==
  ASSUME ThreadsOK, NEW a \in Arbiters, NEW w \in ArbiterAt, Goto(a, w)
  PROVE  /\ pc' \in [Users \cup Arbiters -> ThreadAt] /\ pc'[a] = w
         /\ \A b \in Arbiters : b # a => pc'[b] = pc[b]
         /\ \A u \in Users : pc'[u] = pc[u]
         /\ \A b \in Arbiters : pc'[b] \in ArbiterAt
<1>1. /\ pc' \in [Users \cup Arbiters -> ThreadAt] /\ pc'[a] = w
      /\ \A v \in Users \cup Arbiters : v # a => pc'[v] = pc[v]
  <2>1. a \in Users \cup Arbiters /\ w \in ThreadAt
    BY DEF ThreadAt
  <2>2. QED
    BY <2>1, Moved, Zenon
<1>2. \A b \in Arbiters : b # a => pc'[b] = pc[b]
  BY <1>1
<1>3. \A u \in Users : pc'[u] = pc[u]
  BY <1>1, Apart, Zenon
<1>4. \A b \in Arbiters : pc'[b] \in ArbiterAt
  <2>1. ASSUME NEW b \in Arbiters
        PROVE  pc'[b] \in ArbiterAt
    <3>1. CASE b = a
      BY <1>1, <3>1
    <3>2. CASE b # a
      BY <1>2, <3>2, Threads, Zenon
    <3>3. QED
      BY <3>1, <3>2
  <2>2. QED
    BY <2>1
<1>5. QED
  BY <1>1, <1>2, <1>3, <1>4

(* A step of an arbiter keeps IInv, if it keeps what the others rely on. *)
LEMMA ArbiterMoves ==
  ASSUME IInv, NEW a \in Arbiters, NEW w \in ArbiterAt, Goto(a, w), holder' = holder, arg' = arg,
         waits' = waits, DataOK(d'), d'.extlock = d.extlock, place' \in [Arbiters -> Nat],
         d.next_unlock[0] =< d'.next_unlock[0], d.next_lock[2] =< d'.next_lock[2],
         \/ holder = NoOne \/ d' = d
         \/ SameCells(d, d') /\ d'.idx = d.idx /\ d'.request = d.request,
         ArbitersOK', TicketsOK'
  PROVE  IInv'
<1>1. DataOK(d) /\ ThreadsOK /\ HolderOK /\ BodyOK
  BY DEF IInv
<1>2. /\ pc' \in [Users \cup Arbiters -> ThreadAt]
      /\ \A u \in Users : pc'[u] = pc[u]
      /\ \A b \in Arbiters : pc'[b] \in ArbiterAt
  BY <1>1, ArbiterAlone, Zenon
<1>3. ThreadsOK'
  <2>1. \A u \in Users : pc'[u] \in UserAt
    BY <1>1, <1>2, Threads, Zenon
  <2>2. /\ d.next_unlock[0] \in Nat /\ d'.next_unlock[0] \in Nat
        /\ d.next_lock[2] \in Nat /\ d'.next_lock[2] \in Nat
    BY <1>1, DataNumbers
  <2>3. arg' \in [Users -> {NoArg} \cup Calls]
    BY <1>1, Threads
  <2>4. \A u \in Users : pc'[u] \in {"free", "enter", "body"} => arg'[u] \in Calls
    <3>1. \A u \in Users : pc[u] \in {"free", "enter", "body"} => arg[u] \in Calls
      BY <1>1, Threads
    <3>2. QED
      BY <1>2, <3>1
  <2>5. \A u \in Users : pc'[u] = "enter" =>
            arg'[u].ticket < d.next_unlock[0] /\ arg'[u].ticket \in Nat
    <3>1. \A u \in Users : pc[u] = "enter" =>
            arg[u].ticket < d.next_unlock[0] /\ arg[u].ticket \in Nat
      BY <1>1, Threads
    <3>2. QED
      BY <1>2, <3>1, Zenon
  <2>6. /\ waits' \in [Users -> Waits]
        /\ \A u \in Users : waits'[u].ids \subseteq waits'[u].before
           /\ waits'[u].before \subseteq Ids
    <3>1. /\ waits \in [Users -> Waits]
          /\ \A u \in Users : waits[u].ids \subseteq waits[u].before
             /\ waits[u].before \subseteq Ids
      BY <1>1, Threads
    <3>2. QED
      BY <3>1, Zenon
  <2>7. QED
    BY <1>1, <1>2, <2>1, <2>2, <2>3, <2>4, <2>5, <2>6, ThreadsKept, Zenon
<1>4. HolderOK'
  <2>1. \A u \in Users : pc'[u] \in {"body", "stuck"} <=> holder' = u
    BY <1>1, <1>2, Zenon DEF HolderOK
  <2>2. QED
    BY <1>1, <2>1, Zenon DEF HolderOK
<1>5. BodyOK'
  <2>1. CASE holder = NoOne
    BY <1>4, <2>1, NoBody, Zenon
  <2>2. CASE d' = d \/ (SameCells(d, d') /\ d'.idx = d.idx /\ d'.request = d.request)
    <3>1. \A u \in Users : pc'[u] = "body" => pc[u] = "body" /\ arg'[u] = arg[u]
      BY <1>2, Zenon
    <3>2. QED
      BY <1>1, <2>2, <3>1, BodyKept, Zenon
  <2>3. QED
    BY <2>1, <2>2
<1>6. QED
  BY <1>3, <1>4, <1>5, Zenon DEF IInv

(* A step that at most sets the error state. *)
LEMMA ArbiterWalks ==
  ASSUME IInv, NEW a \in Arbiters, NEW w \in ArbiterAt, Goto(a, w), holder' = holder, arg' = arg,
         waits' = waits, place' = place, d' = d \/ d' = break_all_locks(d),
         w \in AtArbiter => pc[a] \in AtArbiter, w \in InQueue => pc[a] \in InQueue,
         w = "take" => place[a] < d.idx[4]
  PROVE  IInv'
<1>1. DataOK(d) /\ ThreadsOK /\ ArbitersOK /\ TicketsOK
  BY DEF IInv
<1>2. /\ pc'[a] = w /\ \A b \in Arbiters : b # a => pc'[b] = pc[b]
  BY <1>1, ArbiterAlone, Zenon
<1>3. \/ d' = d
      \/ SameCells(d, d') /\ d'.idx = d.idx /\ d'.request = d.request /\ d'.next_lock = d.next_lock
  BY <1>1, ErrorIs, Zenon
<1>4. d'.extlock = d.extlock
  BY <1>1, ErrorIs, Zenon
<1>5. DataGrows
  BY <1>1, <1>3, DataSame, Zenon
<1>6. ArbitersOK'
  <2>1. \A p \in d.idx[0] .. (d.idx[1] - 1) : ~IsNull(d, p) =>
           p \in d'.idx[0] .. (d'.idx[1] - 1) /\ ~IsNull(d', p)
    BY <1>5 DEF DataGrows
  <2>2. \A b \in Arbiters : pc'[b] \in AtArbiter => pc[b] \in AtArbiter /\ place'[b] = place[b]
    BY <1>2, Zenon
  <2>3. QED
    BY <1>1, <2>1, <2>2, ArbitersKept, Zenon
<1>7. place \in [Arbiters -> Nat]
  BY <1>1, Threads, Zenon
<1>8. TicketsOK'
  <2>1. d.idx[4] \in Nat /\ d'.idx[4] \in Nat
    BY <1>1, <1>5, DataNumbers DEF DataGrows
  <2>2. d.idx[4] =< d'.idx[4] /\ d'.idx[1] = d.idx[1] /\ d'.next_lock[1] = d.next_lock[1]
    BY <1>5 DEF DataGrows
  <2>3. \A b \in Arbiters : pc'[b] \in InQueue => pc[b] \in InQueue /\ place'[b] = place[b]
    BY <1>2, Zenon
  <2>4. \A b \in Arbiters : pc'[b] = "take" => pc[b] = "take" \/ place[b] < d.idx[4]
    BY <1>2, Zenon
  <2>5. QED
    BY <1>1, <1>7, <2>1, <2>2, <2>3, <2>4, TicketsKept, Zenon
<1>9. DataOK(d') /\ d.next_unlock[0] =< d'.next_unlock[0] /\ d.next_lock[2] =< d'.next_lock[2]
  BY <1>5 DEF DataGrows
<1>10. place' \in [Arbiters -> Nat]
  BY <1>7
<1>11. QED
  BY <1>3, <1>4, <1>6, <1>8, <1>9, <1>10, ArbiterMoves, Zenon

(* The arbiter is let in, or ends in the error state. *)
LEMMA GadrWokenStep ==
  ASSUME IInv, NEW a \in Arbiters, GadrWoken(a)
  PROVE  IInv'
<1>1. /\ pc[a] = "avail" /\ holder' = holder /\ arg' = arg /\ waits' = waits /\ place' = place
  BY DEF GadrWoken
<1>2. CASE d.error_state
  <2>1. d' = break_all_locks(d) /\ Goto(a, "ended")
    BY <1>2 DEF GadrWoken, Fail
  <2>2. "ended" \in ArbiterAt /\ "ended" \notin AtArbiter /\ "ended" \notin InQueue
        /\ "ended" # "take"
    BY DEF ArbiterAt, AtArbiter, InQueue
  <2>3. QED
    BY <1>1, <2>1, <2>2, ArbiterWalks, Zenon
<1>3. CASE ~d.error_state
  <2>1. d' = d /\ Goto(a, "take") /\ place[a] < d.next_unlock[1]
    BY <1>3 DEF GadrWoken, Unlocked
  <2>2. "take" \in ArbiterAt /\ "take" \notin AtArbiter /\ pc[a] \in InQueue
    BY <1>1 DEF ArbiterAt, AtArbiter, InQueue
  <2>3. place[a] < d.idx[4]
    BY <2>1, Zenon DEF IInv, DataOK, CountersOK, tail
  <2>4. QED
    BY <1>1, <2>1, <2>2, <2>3, ArbiterWalks, Zenon
<1>4. QED
  BY <1>2, <1>3

(* The arbiter fetches its request. *)
LEMMA FetchStep ==
  ASSUME IInv, NEW a \in Arbiters, Fetch(a)
  PROVE  IInv'
<1>1. /\ pc[a] = "fetch" /\ holder' = holder /\ arg' = arg /\ waits' = waits /\ place' = place
  BY DEF Fetch
<1>2. PICK w \in {"ended", "delete", "driver"} :
        Goto(a, w) /\ (d' = d \/ (w = "ended" /\ d' = break_all_locks(d)))
  BY DEF Fetch, Fail
<1>3. w \in ArbiterAt /\ pc[a] \in AtArbiter /\ w \notin InQueue /\ w # "take"
  BY <1>1, <1>2 DEF ArbiterAt, AtArbiter, InQueue
<1>4. QED
  BY <1>1, <1>2, <1>3, ArbiterWalks, Zenon

(* The driver returns. *)
LEMMA DriverStep ==
  ASSUME IInv, NEW a \in Arbiters, NEW ok \in BOOLEAN, Driver(a, ok)
  PROVE  IInv'
<1>1. /\ pc[a] = "driver" /\ holder' = holder /\ arg' = arg /\ waits' = waits /\ place' = place
  BY DEF Driver
<1>2. PICK w \in {"ended", "delete"} :
        Goto(a, w) /\ (d' = d \/ (w = "ended" /\ d' = break_all_locks(d)))
  BY DEF Driver, Fail
<1>3. w \in ArbiterAt /\ pc[a] \in AtArbiter /\ w \notin InQueue /\ w # "take"
  BY <1>1, <1>2 DEF ArbiterAt, AtArbiter, InQueue
<1>4. QED
  BY <1>1, <1>2, <1>3, ArbiterWalks, Zenon

(* The arbiter's position is set. *)
LEMMA PlaceSet ==
  ASSUME ThreadsOK, NEW a \in Arbiters, NEW x \in Nat, place' = [place EXCEPT ![a] = x]
  PROVE  /\ place' \in [Arbiters -> Nat] /\ place'[a] = x
         /\ \A b \in Arbiters : b # a => place'[b] = place[b]
BY Threads

(* The arbiter draws a ticket. *)
LEMMA GadrTicketStep ==
  ASSUME IInv, NEW a \in Arbiters, GadrTicket(a)
  PROVE  IInv'
<1>1. DataOK(d) /\ ThreadsOK /\ HolderOK /\ ArbitersOK /\ TicketsOK
  BY DEF IInv
<1>2. /\ pc[a] = "start" /\ holder = NoOne /\ holder' = holder /\ arg' = arg /\ waits' = waits
      /\ place' = [place EXCEPT ![a] = d.next_lock[1]] /\ d' = waitlistlock_getid(d, 1)
      /\ Goto(a, "avail")
  BY DEF GadrTicket
<1>3. "avail" \in ArbiterAt /\ "avail" \notin AtArbiter /\ "avail" # "take"
  BY DEF ArbiterAt, AtArbiter
<1>4. pc'[a] = "avail" /\ \A b \in Arbiters : b # a => pc'[b] = pc[b]
  BY <1>1, <1>2, <1>3, ArbiterAlone, Zenon
<1>5. PICK N \in Nat : N = d.next_lock[1]
  BY <1>1, DataNumbers
<1>6. /\ place' \in [Arbiters -> Nat] /\ place'[a] = N
      /\ \A b \in Arbiters : b # a => place'[b] = place[b]
  BY <1>1, <1>2, <1>5, PlaceSet, Zenon
<1>7. /\ SameCells(d, d') /\ d'.extlock = d.extlock /\ d'.next_lock[1] = N + 1 /\ d'.idx = d.idx
  BY <1>1, <1>2, <1>5, TicketIs, Zenon
<1>8. DataOK(d') /\ \A p : IsNull(d', p) <=> IsNull(d, p)
  BY <1>1, <1>7, SameCellsOK, Zenon
<1>9. ArbitersOK'
  <2>1. \A p \in d.idx[0] .. (d.idx[1] - 1) : ~IsNull(d, p) =>
           p \in d'.idx[0] .. (d'.idx[1] - 1) /\ ~IsNull(d', p)
    BY <1>7, <1>8, Zenon
  <2>2. \A b \in Arbiters : pc'[b] \in AtArbiter => pc[b] \in AtArbiter /\ place'[b] = place[b]
    BY <1>3, <1>4, <1>6, Zenon
  <2>3. QED
    BY <1>1, <2>1, <2>2, ArbitersKept, Zenon
<1>10. TicketsOK'
  <2>1. PICK C \in SUBSET (0 .. (N - 1)) : Taken(C)
    BY <1>1, <1>5, Zenon DEF TicketsOK
  <2>2. C \in SUBSET (0 .. ((N + 1) - 1)) /\ N \notin C
    BY <2>1
  <2>3. \A b \in Arbiters : pc'[b] \in {"avail", "take"} => place'[b] \notin C
    <3>1. ASSUME NEW b \in Arbiters, pc'[b] \in {"avail", "take"}
          PROVE  place'[b] \notin C
      <4>1. CASE b = a
        BY <1>6, <2>2, <4>1, Zenon
      <4>2. CASE b # a
        BY <1>4, <1>6, <2>1, <3>1, <4>2, Zenon DEF Taken
      <4>3. QED
        BY <4>1, <4>2
    <3>2. QED
      BY <3>1
  <2>4. Taken(C)'
    BY <1>7, <2>1, <2>3, Zenon DEF Taken
  <2>5. \A b \in Arbiters : b # a /\ pc'[b] \in {"avail", "take"} => place'[b] \in Nat
        /\ place'[b] < N
    <3>1. \A b \in Arbiters : b # a /\ pc'[b] \in {"avail", "take"} => place'[b] < N
      BY <1>1, <1>4, <1>5, <1>6, Zenon DEF TicketsOK
    <3>2. QED
      BY <1>6, <3>1
  <2>6. ASSUME NEW b \in Arbiters, pc'[b] \in {"avail", "take"}
        PROVE  place'[b] < N + 1
    <3>1. CASE b = a
      BY <1>6, <3>1
    <3>2. CASE b # a
      <4>1. place'[b] \in Nat /\ place'[b] < N
        BY <2>5, <2>6, <3>2, Zenon
      <4>2. QED
        BY <4>1
    <3>3. QED
      BY <3>1, <3>2
  <2>7. \A b \in Arbiters : pc'[b] = "take" => place'[b] < d'.idx[4]
    BY <1>1, <1>3, <1>4, <1>6, <1>7, Zenon DEF TicketsOK, tail
  <2>8. \A b \in Arbiters : b # a /\ pc'[b] \in {"avail", "take"} => place'[b] # N
    BY <2>5
  <2>9. ASSUME NEW b \in Arbiters, NEW c \in Arbiters, pc'[b] \in {"avail", "take"},
               pc'[c] \in {"avail", "take"}, place'[b] = place'[c]
        PROVE  b = c
    <3>1. CASE b = a \/ c = a
      BY <1>6, <2>8, <2>9, <3>1, Zenon
    <3>2. CASE b # a /\ c # a
      BY <1>1, <1>4, <1>6, <2>9, <3>2, Zenon DEF TicketsOK
    <3>3. QED
      BY <3>1, <3>2
  <2>10. QED
    BY <1>7, <2>2, <2>4, <2>6, <2>7, <2>9, Zenon DEF TicketsOK, tail
<1>11. d.next_unlock[0] =< d'.next_unlock[0] /\ d.next_lock[2] =< d'.next_lock[2]
  BY <1>1, <1>7, DataNumbers DEF SameCells
<1>12. QED
  BY <1>2, <1>3, <1>6, <1>7, <1>8, <1>9, <1>10, <1>11, ArbiterMoves, Zenon

(* One more ticket. *)
LEMMA Counting ==
  ASSUME NEW C, IsFiniteSet(C), C \subseteq Nat, NEW t \in Nat, \A c \in C : c < t,
         NEW x \in Nat, x < t, x \notin C
  PROVE  /\ Cardinality(C) < t /\ IsFiniteSet(C \cup {x})
         /\ Cardinality(C \cup {x}) = Cardinality(C) + 1
<1>1. PICK B : B = C \cup {x}
  OBVIOUS
<1>2. IsFiniteSet(B) /\ Cardinality(B) = Cardinality(C) + 1
  BY <1>1, FS_AddElement
<1>3. PICK I : I = 0 .. (t - 1)
  OBVIOUS
<1>4. B \subseteq I
  BY <1>1, <1>3
<1>5. IsFiniteSet(I) /\ Cardinality(I) = t
  <2>1. IsFiniteSet(I) /\ Cardinality(I) = IF 0 > t - 1 THEN 0 ELSE (t - 1) - 0 + 1
    BY <1>3, FS_Interval
  <2>2. QED
    BY <2>1
<1>6. Cardinality(B) =< Cardinality(I)
  BY <1>4, <1>5, FS_Subset
<1>7. Cardinality(C) \in Nat
  BY FS_CardinalityType
<1>8. QED
  BY <1>1, <1>2, <1>5, <1>6, <1>7

(* The reader who is let in finds a request. *)
LEMMA TakeReady ==
  ASSUME IInv, NEW a \in Arbiters, pc[a] = "take", NEW C \in SUBSET (0 .. (d.next_lock[1] - 1)),
         Taken(C)
  PROVE  /\ d.idx[1] < d.idx[4] /\ ~IsNull(d, d.idx[1])
         /\ IsFiniteSet(C \cup {place[a]}) /\ Cardinality(C \cup {place[a]}) = d.idx[1] + 1
<1>1. DataOK(d) /\ ThreadsOK /\ TicketsOK
  BY DEF IInv
<1>2. PICK h \in Nat, t \in Nat : h = d.idx[1] /\ t = d.idx[4]
  BY <1>1, DataNumbers
<1>3. PICK x \in Nat : x = place[a]
  BY <1>1, Threads
<1>4. C \subseteq Nat /\ IsFiniteSet(C) /\ Cardinality(C) = h /\ \A c \in C : c < t
  BY <1>2 DEF Taken, head, tail
<1>5. x \notin C
  BY <1>3 DEF Taken
<1>6. x < t
  BY <1>1, <1>2, <1>3, Zenon DEF TicketsOK, tail
<1>7. h < t /\ IsFiniteSet(C \cup {x}) /\ Cardinality(C \cup {x}) = h + 1
  BY <1>4, <1>5, <1>6, Counting
<1>8. h \in h .. (t - 1)
  BY <1>7
<1>9. ~IsNull(d, h)
  BY <1>1, <1>2, <1>8, Zenon DEF DataOK, FullOK, Schedulable, head, tail
<1>10. QED
  BY <1>2, <1>3, <1>7, <1>9, Zenon

(* The arbiter takes the request at head. *)
LEMMA GadrTakeStep ==
  ASSUME IInv, NEW a \in Arbiters, GadrTake(a)
  PROVE  IInv'
<1>1. DataOK(d) /\ ThreadsOK /\ HolderOK /\ ArbitersOK /\ TicketsOK
  BY DEF IInv
<1>2. pc[a] = "take" /\ holder = NoOne /\ holder' = holder /\ arg' = arg /\ waits' = waits
  BY DEF GadrTake
<1>3. PICK C \in SUBSET (0 .. (d.next_lock[1] - 1)) : Taken(C)
  BY <1>1, Zenon DEF TicketsOK
<1>4. PICK h \in Nat, t \in Nat, l \in Nat, N \in Nat :
        h = d.idx[1] /\ t = d.idx[4] /\ l = d.idx[0] /\ N = d.next_lock[1] /\ l =< h
  BY <1>1, DataNumbers
<1>5. /\ h < t /\ ~IsNull(d, h)
      /\ IsFiniteSet(C \cup {place[a]}) /\ Cardinality(C \cup {place[a]}) = h + 1
  BY <1>2, <1>3, <1>4, TakeReady, Zenon
<1>6. d' = [d EXCEPT !.idx[head] = @ + 1] /\ place' = [place EXCEPT ![a] = h] /\ Goto(a, "fetch")
  BY <1>4, <1>5 DEF GadrTake, head
<1>7. "fetch" \in ArbiterAt /\ "fetch" \in AtArbiter /\ "fetch" \notin {"avail", "take"}
  BY DEF ArbiterAt, AtArbiter
<1>8. pc'[a] = "fetch" /\ \A b \in Arbiters : b # a => pc'[b] = pc[b]
  BY <1>1, <1>6, <1>7, ArbiterAlone, Zenon
<1>9. /\ place' \in [Arbiters -> Nat] /\ place'[a] = h
      /\ \A b \in Arbiters : b # a => place'[b] = place[b]
  BY <1>1, <1>6, PlaceSet, Zenon
<1>10. /\ SameCells(d, d') /\ d'.extlock = d.extlock /\ d'.next_lock = d.next_lock
          /\ d'.idx[1] = h + 1
  <2>1. d.idx[1] < d.idx[4]
    BY <1>4, <1>5, Zenon
  <2>2. QED
    BY <1>1, <1>4, <1>6, <2>1, TakeIs, Zenon
<1>11. DataOK(d') /\ \A p : IsNull(d', p) <=> IsNull(d, p)
  BY <1>1, <1>10, SameCellsOK, Zenon
<1>12. d'.idx[0] = l /\ d'.idx[4] = t
  BY <1>4, <1>10, Zenon DEF SameCells
<1>13. \A b \in Arbiters : b # a /\ pc'[b] \in AtArbiter =>
         place[b] \in l .. (h - 1) /\ ~IsNull(d, place[b])
  BY <1>1, <1>4, <1>8, Zenon DEF ArbitersOK, locked_head, head
<1>14. ArbitersOK'
  <2>1. ASSUME NEW b \in Arbiters, pc'[b] \in AtArbiter
        PROVE  place'[b] \in l .. ((h + 1) - 1) /\ ~IsNull(d', place'[b])
    <3>1. CASE b = a
      <4>1. h \in l .. ((h + 1) - 1)
        BY <1>4
      <4>2. QED
        BY <1>5, <1>9, <1>11, <3>1, <4>1, Zenon
    <3>2. CASE b # a
      <4>1. place[b] \in l .. (h - 1) /\ ~IsNull(d, place[b])
        BY <1>13, <2>1, <3>2, Zenon
      <4>2. place[b] \in l .. ((h + 1) - 1)
        BY <4>1
      <4>3. QED
        BY <1>9, <1>11, <3>2, <4>1, <4>2, Zenon
    <3>3. QED
      BY <3>1, <3>2
  <2>2. \A b \in Arbiters : b # a /\ pc'[b] \in AtArbiter => place'[b] # h
    <3>1. ASSUME NEW b \in Arbiters, b # a, pc'[b] \in AtArbiter
          PROVE  place'[b] # h
      <4>1. place[b] \in l .. (h - 1)
        BY <1>13, <3>1, Zenon
      <4>2. place[b] # h
        BY <4>1
      <4>3. QED
        BY <1>9, <3>1, <4>2, Zenon
    <3>2. QED
      BY <3>1
  <2>3. ASSUME NEW b \in Arbiters, NEW c \in Arbiters, pc'[b] \in AtArbiter, pc'[c] \in AtArbiter,
               place'[b] = place'[c]
        PROVE  b = c
    <3>1. CASE b = a \/ c = a
      BY <1>9, <2>2, <2>3, <3>1, Zenon
    <3>2. CASE b # a /\ c # a
      BY <1>1, <1>8, <1>9, <2>3, <3>2, Zenon DEF ArbitersOK
    <3>3. QED
      BY <3>1, <3>2
  <2>4. QED
    BY <1>10, <1>12, <2>1, <2>3, Zenon DEF ArbitersOK, AtArbiter, locked_head, head
<1>15. TicketsOK'
  <2>1. PICK x \in Nat : x = place[a]
    BY <1>1, Threads
  <2>2. x < N /\ x < t
    BY <1>1, <1>2, <1>4, <2>1 DEF TicketsOK, tail
  <2>3. PICK B : B = C \cup {x}
    OBVIOUS
  <2>4. B \in SUBSET (0 .. (N - 1)) /\ \A c \in B : c < t
    BY <1>3, <1>4, <2>2, <2>3 DEF Taken, tail
  <2>5. IsFiniteSet(B) /\ Cardinality(B) = h + 1
    BY <1>5, <2>1, <2>3, Zenon
  <2>6. \A b \in Arbiters : pc'[b] \in {"avail", "take"} =>
          b # a /\ pc[b] \in {"avail", "take"} /\ place'[b] = place[b]
    BY <1>7, <1>8, <1>9, Zenon
  <2>7. ASSUME NEW b \in Arbiters, pc'[b] \in {"avail", "take"}
        PROVE  place'[b] \notin B
    <3>1. b # a /\ pc[b] \in {"avail", "take"} /\ place'[b] = place[b]
      BY <2>6, <2>7
    <3>2. place[b] \notin C
      BY <1>3, <3>1, Zenon DEF Taken
    <3>3. pc[a] \in {"avail", "take"}
      BY <1>2
    <3>4. place[b] # x
      BY <1>1, <2>1, <3>1, <3>3, Zenon DEF TicketsOK
    <3>5. QED
      BY <2>3, <3>1, <3>2, <3>4
  <2>8. Taken(B)'
    BY <1>10, <1>12, <2>4, <2>5, <2>7, Zenon DEF Taken, head, tail
  <2>9. d'.next_lock[1] = N
    BY <1>4, <1>10, Zenon
  <2>10. /\ \A b \in Arbiters : pc'[b] \in {"avail", "take"} => place'[b] < N
         /\ \A b \in Arbiters : pc'[b] = "take" => place'[b] < t
         /\ \A b, c \in Arbiters :
              pc'[b] \in {"avail", "take"} /\ pc'[c] \in {"avail", "take"} /\ place'[b] = place'[c]
              => b = c
    <3>1. \A b \in Arbiters : pc[b] \in {"avail", "take"} => place[b] < N
      BY <1>1, <1>4, Zenon DEF TicketsOK
    <3>2. \A b \in Arbiters : pc'[b] = "take" => pc[b] = "take" /\ place'[b] = place[b]
      BY <1>8, <2>6
    <3>3. \A b \in Arbiters : pc[b] = "take" => place[b] < t
      BY <1>1, <1>4, Zenon DEF TicketsOK, tail
    <3>4. \A b, c \in Arbiters :
            pc[b] \in {"avail", "take"} /\ pc[c] \in {"avail", "take"} /\ place[b] = place[c] =>
              b = c
      BY <1>1, Zenon DEF TicketsOK
    <3>5. QED
      BY <2>6, <3>1, <3>2, <3>3, <3>4, Zenon
  <2>11. QED
    BY <1>12, <2>4, <2>8, <2>9, <2>10, Zenon DEF TicketsOK, tail
<1>16. d.next_unlock[0] =< d'.next_unlock[0] /\ d.next_lock[2] =< d'.next_lock[2]
  BY <1>1, <1>10, DataNumbers DEF SameCells
<1>17. QED
  BY <1>2, <1>6, <1>7, <1>9, <1>10, <1>11, <1>14, <1>15, <1>16, ArbiterMoves, Zenon

(* The arbiter deletes its request. *)
LEMMA DeleteStep ==
  ASSUME IInv, NEW a \in Arbiters, Delete(a)
  PROVE  /\ IInv' /\ Deleted(d, place[a], d')
         /\ place[a] \in d.idx[0] .. (d.idx[1] - 1) /\ ~IsNull(d, place[a]) /\ pc'[a] = "start"
<1>1. DataOK(d) /\ ThreadsOK /\ HolderOK /\ ArbitersOK /\ TicketsOK
  BY DEF IInv
<1>2. /\ pc[a] = "delete" /\ holder = NoOne /\ holder' = holder /\ arg' = arg /\ waits' = waits
      /\ place' = [place EXCEPT ![a] = 0]
  BY DEF Delete
<1>3. PICK h \in Nat, t \in Nat, l \in Nat, N \in Nat :
        h = d.idx[1] /\ t = d.idx[4] /\ l = d.idx[0] /\ N = d.next_lock[1] /\ l =< h /\ h =< t
  BY <1>1, DataNumbers
<1>4. PICK p : p = place[a]
  OBVIOUS
<1>5. p \in l .. (h - 1) /\ ~IsNull(d, p)
  <2>1. pc[a] \in AtArbiter
    BY <1>2 DEF AtArbiter
  <2>2. QED
    BY <1>1, <1>3, <1>4, <2>1, Zenon DEF ArbitersOK, locked_head, head
<1>6. p \in Positions(d)
  <2>1. p \in l .. (t - 1)
    BY <1>3, <1>5
  <2>2. QED
    BY <1>3, <2>1, Zenon DEF Positions, locked_head, tail
<1>7. Valid(place[a])
  BY <1>1, <1>4, <1>6, CellIs, Zenon DEF Valid, DataOK
<1>8. d' = delete(d, p) /\ Goto(a, "start")
  BY <1>4, <1>7 DEF Delete
<1>9. Deleted(d, p, d')
  BY <1>1, <1>5, <1>6, <1>8, DeleteIs, Zenon
<1>10. /\ DataOK(d') /\ d'.idx[0] \in l .. h
       /\ \A k \in Positions(d) : k # p /\ ~IsNull(d, k) => k \in Positions(d') /\ ~IsNull(d', k)
  BY <1>1, <1>3, <1>5, <1>9, DeletedOK, Zenon
<1>11. d'.extlock = d.extlock /\ d'.next_lock = d.next_lock /\ d'.idx[1] = h /\ d'.idx[4] = t
  <2>1. 1 \in 1 .. 7 /\ 4 \in 1 .. 7
    OBVIOUS
  <2>2. QED
    BY <1>3, <1>9, <2>1, Zenon DEF Deleted
<1>12. "start" \in ArbiterAt /\ "start" \notin AtArbiter /\ "start" \notin InQueue
       /\ "start" # "take"
  BY DEF ArbiterAt, AtArbiter, InQueue
<1>13. pc'[a] = "start" /\ \A b \in Arbiters : b # a => pc'[b] = pc[b]
  BY <1>1, <1>8, <1>12, ArbiterAlone, Zenon
<1>14. /\ place' \in [Arbiters -> Nat] /\ \A b \in Arbiters : b # a => place'[b] = place[b]
  <2>1. 0 \in Nat
    OBVIOUS
  <2>2. QED
    BY <1>1, <1>2, <2>1, PlaceSet, Zenon
<1>15. ArbitersOK'
  <2>1. ASSUME NEW b \in Arbiters, pc'[b] \in AtArbiter
        PROVE  place'[b] \in d'.idx[0] .. (h - 1) /\ ~IsNull(d', place'[b])
    <3>1. b # a /\ pc[b] \in AtArbiter /\ place'[b] = place[b]
      BY <1>12, <1>13, <1>14, <2>1, Zenon
    <3>2. place[b] \in l .. (h - 1) /\ ~IsNull(d, place[b])
      BY <1>1, <1>3, <3>1, Zenon DEF ArbitersOK, locked_head, head
    <3>3. place[b] # p
      <4>1. pc[a] \in AtArbiter
        BY <1>2 DEF AtArbiter
      <4>2. QED
        BY <1>1, <1>4, <3>1, <4>1, Zenon DEF ArbitersOK
    <3>4. place[b] \in l .. (t - 1)
      BY <1>3, <3>2
    <3>5. place[b] \in Positions(d)
      BY <1>3, <3>4, Zenon DEF Positions, locked_head, tail
    <3>6. place[b] \in Positions(d') /\ ~IsNull(d', place[b])
      BY <1>10, <3>2, <3>3, <3>5, Zenon
    <3>7. place[b] \in d'.idx[0] .. (t - 1)
      BY <1>11, <3>6, Zenon DEF Positions, locked_head, tail
    <3>8. d'.idx[0] \in Nat
      BY <1>10, DataNumbers
    <3>9. place[b] \in d'.idx[0] .. (h - 1)
      BY <3>2, <3>7, <3>8
    <3>10. QED
      BY <3>1, <3>6, <3>9, Zenon
  <2>2. \A b, c \in Arbiters : pc'[b] \in AtArbiter /\ pc'[c] \in AtArbiter /\ place'[b] = place'[c]
          => b = c
    <3>1. \A b \in Arbiters : pc'[b] \in AtArbiter => pc[b] \in AtArbiter /\ place'[b] = place[b]
      BY <1>12, <1>13, <1>14, Zenon
    <3>2. QED
      BY <1>1, <3>1, Zenon DEF ArbitersOK
  <2>3. QED
    BY <1>11, <2>1, <2>2, Zenon DEF ArbitersOK, AtArbiter, locked_head, head
<1>16. TicketsOK'
  <2>1. d.idx[4] \in Nat /\ d'.idx[4] \in Nat /\ d.idx[4] =< d'.idx[4] /\ d'.idx[1] = d.idx[1]
    BY <1>3, <1>11
  <2>2. d'.next_lock[1] = d.next_lock[1]
    BY <1>11
  <2>3. \A b \in Arbiters : pc'[b] \in InQueue => pc[b] \in InQueue /\ place'[b] = place[b]
    BY <1>12, <1>13, <1>14, Zenon
  <2>4. \A b \in Arbiters : pc'[b] = "take" => pc[b] = "take" \/ place[b] < d.idx[4]
    BY <1>12, <1>13, Zenon
  <2>5. place \in [Arbiters -> Nat]
    BY <1>1, Threads, Zenon
  <2>6. QED
    BY <1>1, <2>1, <2>2, <2>3, <2>4, <2>5, TicketsKept, Zenon
<1>17. d.next_unlock[0] =< d'.next_unlock[0] /\ d.next_lock[2] =< d'.next_lock[2]
  <2>1. d.next_lock[2] =< d'.next_lock[2]
    BY <1>1, <1>11, DataNumbers
  <2>2. d.next_unlock[0] = l + IOQUEUE_MAX_REQUESTS
    BY <1>1, <1>3, Zenon DEF DataOK, CountersOK, locked_head
  <2>3. PICK m \in l .. h : m = d'.idx[0] /\ d'.next_unlock[0] = m + IOQUEUE_MAX_REQUESTS
    BY <1>9, <1>10, Zenon DEF Deleted
  <2>4. l + IOQUEUE_MAX_REQUESTS =< m + IOQUEUE_MAX_REQUESTS
    BY Sizes
  <2>5. QED
    BY <2>1, <2>2, <2>3, <2>4, Zenon
<1>18. IInv'
  BY <1>2, <1>8, <1>10, <1>11, <1>12, <1>14, <1>15, <1>16, <1>17, ArbiterMoves, Zenon
<1>19. QED
  BY <1>3, <1>4, <1>5, <1>9, <1>13, <1>18, Zenon

------------------------------------------------------------------------------
(*****************************************************************************)
(* IInv is an invariant, and what follows from it.                           *)
(*****************************************************************************)

(* What output_init leaves. *)
LEMMA InitData ==
  ASSUME Init
  PROVE  DataOK(d)
<1>1. d = [queue |-> [c \in Cells |-> 0], offset |-> 0,
          idx |-> [i \in 0 .. 7 |-> 0],
          request |-> [b \in Blocks |-> Zeroed],
          freelist |-> [i \in 1 .. IOQUEUE_MAX_REQUESTS |-> i - 1],
          next_lock |-> [n \in 0 .. 2 |-> 0],
          next_unlock |-> [n \in 0 .. 1 |-> IF n = 0 THEN IOQUEUE_MAX_REQUESTS ELSE 0],
          done |-> {}, extlock |-> FALSE, error_state |-> FALSE]
  BY DEF Init
<1>2. PICK M \in Nat : M = IOQUEUE_MAX_REQUESTS /\ M >= 2 /\ Blocks = 0 .. (M - 1)
  BY Sizes
<1>3. PICK f : f = [i \in 1 .. M |-> i - 1]
  OBVIOUS
<1>4. /\ f \in Seq(Blocks) /\ DOMAIN f = 1 .. M /\ \A i \in 1 .. M : f[i] = i - 1
  BY <1>2, <1>3
<1>5. Distinct(f) /\ \A b \in Blocks : Lists(f, b)
  <2>1. Distinct(f)
    BY <1>4 DEF Distinct
  <2>2. ASSUME NEW b \in Blocks
        PROVE  Lists(f, b)
    <3>1. b + 1 \in 1 .. M /\ (b + 1) - 1 = b
      BY <1>2
    <3>2. f[b + 1] = b
      BY <1>4, <3>1
    <3>3. QED
      BY <1>4, <3>1, <3>2, Zenon DEF Lists
  <2>3. QED
    BY <2>1, <2>2
<1>6. d \in ioqueue_data
  <2>1. 0 \in Blocks
    BY <1>2
  <2>2. d.queue \in [Cells -> Blocks \cup {NULLPTR}]
        /\ d.request \in [Blocks -> ioqueue_request \cup {Zeroed}]
    BY <1>1, <2>1
  <2>3. /\ d.offset \in Nat /\ d.idx \in [0 .. 7 -> Nat] /\ d.freelist \in Seq(Blocks)
        /\ d.next_lock \in [0 .. 2 -> Nat] /\ d.next_unlock \in [0 .. 1 -> Nat]
        /\ d.done \in SUBSET Nat /\ d.extlock \in BOOLEAN /\ d.error_state \in BOOLEAN
    BY <1>1, <1>2, <1>3, <1>4
  <2>4. QED
    BY <1>1, <2>2, <2>3 DEF ioqueue_data
<1>7. /\ d.offset = 0 /\ d.idx[0] = 0 /\ d.idx[1] = 0 /\ d.idx[2] = 0 /\ d.idx[3] = 0
         /\ d.idx[4] = 0
      /\ d.freelist = f /\ d.done = {} /\ d.next_lock[0] = 0 /\ d.next_lock[1] = 0
      /\ d.next_lock[2] = 0 /\ d.next_unlock[0] = M /\ d.next_unlock[1] = 0
  <2>1. /\ d.offset = 0 /\ d.freelist = f /\ d.done = {}
        /\ d.idx = [i \in 0 .. 7 |-> 0] /\ d.next_lock = [n \in 0 .. 2 |-> 0]
        /\ d.next_unlock = [n \in 0 .. 1 |-> IF n = 0 THEN M ELSE 0]
    BY <1>1, <1>2, <1>3
  <2>2. QED
    BY <2>1
<1>8. Positions(d) = {} /\ Schedulable(d) = {}
  <2>1. 0 .. (0 - 1) = {}
    OBVIOUS
  <2>2. QED
    BY <1>7, <2>1, Zenon DEF Positions, Schedulable, locked_head, head, tail
<1>9. ZonesOK(d)
  BY <1>2, <1>7, Sizes DEF ZonesOK
<1>10. FullOK(d)
  BY <1>8 DEF FullOK
<1>11. BlocksOK(d)
  BY <1>5, <1>7, <1>8 DEF BlocksOK
<1>12. RequestsOK(d)
  BY <1>7, <1>8 DEF RequestsOK
<1>13. CountersOK(d)
  BY <1>2, <1>7 DEF CountersOK
<1>14. OrderOK(d)
  <2>1. d.idx[head] .. (d.idx[sched_normal] - 1) = {}
    BY <1>7
  <2>2. QED
    BY <1>7, <1>8, <2>1 DEF OrderOK
<1>15. QED
  BY <1>6, <1>9, <1>10, <1>11, <1>12, <1>13, <1>14 DEF DataOK

(* IInv holds initially. *)
LEMMA InitOK ==
  ASSUME Init
  PROVE  IInv
<1>1. DataOK(d)
  BY InitData
<1>2. /\ \A u \in Users : pc[u] = "idle"
      /\ \A a \in Arbiters : pc[a] = "start"
  BY IoQueueAssumption DEF Init
<1>3. /\ d.extlock = FALSE /\ holder = NoOne /\ arg = [u \in Users |-> NoArg]
      /\ place = [a \in Arbiters |-> 0] /\ waits = [u \in Users |-> NoWait]
      /\ pc = [t \in Users \cup Arbiters |-> IF t \in Users THEN "idle" ELSE "start"]
  BY DEF Init
<1>4. d.idx[1] = 0
  BY DEF Init
<1>5. ThreadsOK
  <2>1. NoWait \in [ids : SUBSET Nat, before : SUBSET Nat] /\ NoWait.ids = {} /\ NoWait.before = {}
    BY DEF NoWait
  <2>2. /\ waits \in [Users -> [ids : SUBSET Nat, before : SUBSET Nat]]
        /\ \A u \in Users : waits[u].ids \subseteq waits[u].before /\ waits[u].before \subseteq Ids
    BY <1>3, <2>1
  <2>3. pc \in [Users \cup Arbiters -> {"idle", "free", "enter", "body", "wait", "stuck",
             "start", "avail", "take", "fetch", "driver", "delete", "ended"}]
    BY <1>3
  <2>4. arg \in [Users -> {NoArg} \cup Calls] /\ place \in [Arbiters -> Nat]
    BY <1>3
  <2>5. /\ "start" \in {"start", "avail", "take", "ended"} \cup AtArbiter
        /\ "idle" \in {"idle", "free", "enter", "body", "wait", "stuck"}
        /\ "idle" \notin {"free", "enter", "body"} /\ "idle" # "enter"
    OBVIOUS
  <2>6. QED
    BY <1>2, <2>2, <2>3, <2>4, <2>5, Zenon DEF ThreadsOK
<1>6. HolderOK
  <2>1. \A u \in Users : pc[u] \notin {"body", "stuck"} /\ u # NoOne
    BY <1>2, Apart
  <2>2. QED
    BY <1>3, <2>1 DEF HolderOK
<1>7. BodyOK
  BY <1>2 DEF BodyOK
<1>8. ArbitersOK
  <2>1. "start" \notin AtArbiter
    BY DEF AtArbiter
  <2>2. QED
    BY <1>2, <2>1, Zenon DEF ArbitersOK
<1>9. TicketsOK
  <2>1. Taken({})
    BY <1>4, FS_EmptySet DEF Taken
  <2>2. {} \in SUBSET (0 .. (d.next_lock[1] - 1))
    OBVIOUS
  <2>3. \A a \in Arbiters : pc[a] \notin {"avail", "take"} /\ pc[a] # "take"
    <3>1. "start" \notin {"avail", "take"} /\ "start" # "take"
      OBVIOUS
    <3>2. QED
      BY <1>2, <3>1, Zenon
  <2>4. QED
    BY <2>1, <2>2, <2>3, Zenon DEF TicketsOK
<1>10. QED
  BY <1>1, <1>5, <1>6, <1>7, <1>8, <1>9 DEF IInv

(* Every step keeps IInv. *)
LEMMA NextOK ==
  ASSUME NoUrgent, IInv, [Next]_vars
  PROVE  IInv'
<1>1. CASE UNCHANGED vars
  <2>1. d' = d /\ holder' = holder /\ pc' = pc /\ arg' = arg /\ place' = place /\ waits' = waits
    BY <1>1 DEF vars
  <2>2. DataOK(d)' /\ ThreadsOK' /\ HolderOK' /\ BodyOK' /\ ArbitersOK' /\ TicketsOK'
    BY <2>1 DEF IInv, ThreadsOK, HolderOK, BodyOK, ArbitersOK, TicketsOK, Taken, Ids
  <2>3. QED
    BY <2>2 DEF IInv
<1>2. ASSUME NEW u \in Users, Call(u)
      PROVE  IInv'
  BY <1>2, CallTransStep, CallCancelStep, CallWaitStep, Zenon DEF Call
<1>3. ASSUME NEW u \in Users, UserStep(u)
      PROVE  IInv'
  BY <1>3, LockWokenStep, LockRetryStep, LockEnterStep, TransMergeStep, TransSubmitStep,
     TransAbortStep, WaitReturnStep, Zenon DEF UserStep
<1>4. ASSUME NEW a \in Arbiters, ArbiterStep(a)
      PROVE  IInv'
  BY <1>4, GadrTicketStep, GadrWokenStep, GadrTakeStep, FetchStep, DriverStep, DeleteStep, Zenon
  DEF ArbiterStep
<1>5. QED
  BY <1>1, <1>2, <1>3, <1>4, Zenon DEF Next

(* IInv always holds. *)
LEMMA Invariance ==
  ASSUME NoUrgent
  PROVE  Spec => []IInv
<1>1. Init => IInv
  BY InitOK
<1>2. IInv /\ [Next]_vars => IInv'
  BY NextOK
<1>3. QED
  BY <1>1, <1>2, PTL DEF Spec

(* A list without duplicates is as long as the set of its elements. *)
LEMMA DistinctLength ==
  ASSUME NEW S, NEW s \in Seq(S), Distinct(s)
  PROVE  Cardinality(Range(s)) = Len(s) /\ Range(s) = {b \in S : Lists(s, b)}
           /\ IsFiniteSet(Range(s))
<1>1. PICK n \in Nat : n = Len(s) /\ DOMAIN s = 1 .. n
  OBVIOUS
<1>2. \A i \in 1 .. n : s[i] \in S
  BY <1>1
<1>3. PICK R : R = Range(s)
  OBVIOUS
<1>4. /\ \A x \in R : \E i \in 1 .. n : s[i] = x
      /\ \A i \in 1 .. n : s[i] \in R
  BY <1>1, <1>3, Zenon DEF Range
<1>5. s \in [1 .. n -> R]
  <2>1. s \in [1 .. n -> S]
    BY <1>1
  <2>2. QED
    BY <1>1, <1>4, <2>1
<1>6. s \in Surjection(1 .. n, R)
  BY <1>4, <1>5, Zenon DEF Surjection
<1>7. s \in Injection(1 .. n, R)
  <2>1. IsInjective(s)
    BY Zenon DEF IsInjective, Distinct
  <2>2. QED
    BY <1>5, <2>1, Zenon DEF Injection
<1>8. IsFiniteSet(1 .. n) /\ Cardinality(1 .. n) = n
  <2>1. IsFiniteSet(1 .. n) /\ Cardinality(1 .. n) = IF 1 > n THEN 0 ELSE n - 1 + 1
    <3>1. 1 \in Int /\ n \in Int
      OBVIOUS
    <3>2. QED
      BY <3>1, FS_Interval
  <2>2. QED
    BY <2>1
<1>9. IsFiniteSet(R) /\ Cardinality(R) = n
  BY <1>6, <1>7, <1>8, FS_Surjection
<1>10. R = {b \in S : Lists(s, b)}
  <2>1. \A x \in R : x \in S
    BY <1>2, <1>4
  <2>2. \A x : x \in R <=> Lists(s, x)
    BY <1>1, <1>4, Zenon DEF Lists
  <2>3. QED
    BY <2>1, <2>2
<1>11. QED
  BY <1>1, <1>3, <1>9, <1>10, Zenon

(* The properties that the runs check follow from IInv. *)
LEMMA TypeFollows ==
  ASSUME IInv
  PROVE  TypeOK
<1>1. DataOK(d) /\ ThreadsOK /\ HolderOK
  BY DEF IInv
<1>2. d \in ioqueue_data
  BY <1>1 DEF DataOK
<1>3. Len(d.freelist) =< IOQUEUE_MAX_REQUESTS
  <2>1. d.freelist \in Seq(Blocks) /\ Distinct(d.freelist)
    BY <1>1, <1>2, Fields DEF DataOK, BlocksOK
  <2>2. PICK R : R = Range(d.freelist)
    OBVIOUS
  <2>3. Cardinality(R) = Len(d.freelist) /\ R \subseteq Blocks
    BY <2>1, <2>2, DistinctLength
  <2>4. PICK M \in Nat : M = IOQUEUE_MAX_REQUESTS /\ M >= 2 /\ Blocks = 0 .. (M - 1)
    BY Sizes
  <2>5. IsFiniteSet(Blocks) /\ Cardinality(Blocks) = M
    <3>1. PICK k \in Int : k = M - 1
      BY <2>4
    <3>2. IsFiniteSet(0 .. k) /\ Cardinality(0 .. k) = IF 0 > k THEN 0 ELSE k - 0 + 1
      BY FS_Interval
    <3>3. Blocks = 0 .. k
      BY <2>4, <3>1, Zenon
    <3>4. QED
      BY <2>4, <3>1, <3>2, <3>3
  <2>6. Cardinality(R) =< Cardinality(Blocks)
    BY <2>3, <2>5, FS_Subset
  <2>7. QED
    BY <2>3, <2>4, <2>5, <2>6, Zenon
<1>4. d.done \subseteq Ids
  BY <1>1, Zenon DEF DataOK, RequestsOK, Ids
<1>5. d.extlock = (holder # NoOne) /\ holder \in Users \cup {NoOne}
  BY <1>1, Zenon DEF HolderOK
<1>6. /\ \A u \in Users : pc[u] \in {"idle", "free", "enter", "body", "wait", "stuck"}
      /\ \A a \in Arbiters : pc[a] \in {"start", "avail", "take", "fetch", "driver", "delete",
         "ended"}
      /\ \A u \in Users : waits[u].ids \subseteq waits[u].before /\ waits[u].before \subseteq Ids
  BY <1>1 DEF ThreadsOK, AtArbiter
<1>7. QED
  BY <1>2, <1>3, <1>4, <1>5, <1>6, Zenon DEF TypeOK

LEMMA AccountsFollow ==
  ASSUME IInv
  PROVE  RequestsAccounted
<1>1. DataOK(d)
  BY DEF IInv
<1>2. d \in ioqueue_data /\ ZonesOK(d) /\ BlocksOK(d) /\ RequestsOK(d)
  BY <1>1 DEF DataOK
<1>3. PICK l \in Nat, t \in Nat : l = d.idx[0] /\ t = d.idx[4]
  BY <1>1, DataNumbers
<1>4. Zone = l .. (t - 1) /\ Positions(d) = l .. (t - 1)
  BY <1>3, Zenon DEF Zone, Positions, locked_head, tail
<1>5. PICK E : E = Entries
  OBVIOUS
<1>6. \A p : p \in E <=> p \in Positions(d) /\ ~IsNull(d, p)
  BY <1>4, <1>5, Zenon DEF Entries
<1>7. ASSUME NEW id \in Ids
      PROVE  Cardinality(Queued(id)) = IF id \in d.done THEN 0 ELSE 1
  <2>1. \A p : p \in Queued(id) <=> p \in E /\ Id(d, p) = id
    BY <1>5, Zenon DEF Queued, Id
  <2>2. CASE id \in d.done
    <3>1. \A p : p \notin Queued(id)
      <4>1. \A p \in Positions(d) : ~IsNull(d, p) => Id(d, p) \notin d.done
        BY <1>2, Zenon DEF RequestsOK
      <4>2. QED
        BY <1>6, <2>1, <2>2, <4>1
    <3>2. Queued(id) = {}
      BY <3>1
    <3>3. QED
      BY <2>2, <3>2, FS_EmptySet
  <2>3. CASE id \notin d.done
    <3>1. PICK p \in Positions(d) : ~IsNull(d, p) /\ Id(d, p) = id
      BY <1>2, <2>3, Zenon DEF RequestsOK, Ids
    <3>2. \A k : k \in Queued(id) <=> k = p
      BY <1>2, <1>6, <2>1, <3>1, Zenon DEF RequestsOK
    <3>3. Queued(id) = {p}
      BY <3>2
    <3>4. QED
      BY <2>3, <3>3, FS_Singleton
  <2>4. QED
    BY <2>2, <2>3
<1>8. PICK B : B = {At(d, p) : p \in E}
  OBVIOUS
<1>9. Cardinality(E) = Cardinality(B)
  <2>1. PICK f : f = [p \in E |-> At(d, p)]
    OBVIOUS
  <2>2. f \in [E -> B] /\ DOMAIN f = E /\ \A p \in E : f[p] = At(d, p)
    BY <1>8, <2>1
  <2>3. f \in Surjection(E, B)
    <3>1. \A b \in B : \E p \in E : f[p] = b
      BY <1>8, <2>2
    <3>2. QED
      BY <2>2, <3>1, Zenon DEF Surjection
  <2>4. f \in Injection(E, B)
    <3>1. \A p, k \in E : At(d, p) = At(d, k) => p = k
      BY <1>2, <1>6, Zenon DEF BlocksOK
    <3>2. IsInjective(f)
      BY <2>2, <3>1, Zenon DEF IsInjective
    <3>3. QED
      BY <2>2, <3>2, Zenon DEF Injection
  <2>5. IsFiniteSet(E)
    <3>1. PICK e \in Int : e = t - 1
      BY <1>3
    <3>2. IsFiniteSet(l .. e)
      BY FS_Interval
    <3>3. E \subseteq l .. e
      BY <1>4, <1>6, <3>1
    <3>4. QED
      BY <3>2, <3>3, FS_Subset
  <2>6. QED
    BY <2>3, <2>4, <2>5, FS_Surjection
<1>10. d.freelist \in Seq(Blocks) /\ Distinct(d.freelist)
  BY <1>2, Fields DEF BlocksOK
<1>11. /\ Cardinality(Range(d.freelist)) = Len(d.freelist)
       /\ Range(d.freelist) = {b \in Blocks : Lists(d.freelist, b)}
  BY <1>10, DistinctLength
<1>12. Range(d.freelist) = Blocks \ B
  <2>1. ASSUME NEW b \in Blocks
        PROVE  Lists(d.freelist, b) <=> b \notin B
    <3>1. Lists(d.freelist, b) <=> \A p \in Positions(d) : At(d, p) # b
      BY <1>2, Zenon DEF BlocksOK
    <3>2. b # NULLPTR
      BY Sizes
    <3>3. \A p \in Positions(d) : At(d, p) = b => p \in E
      BY <1>6, <3>2, Zenon DEF IsNull
    <3>4. b \in B <=> \E p \in E : At(d, p) = b
      BY <1>8
    <3>5. QED
      BY <1>6, <3>1, <3>3, <3>4, Zenon
  <2>2. QED
    BY <1>11, <2>1
<1>13. QED
  BY <1>5, <1>7, <1>8, <1>9, <1>11, <1>12, Zenon DEF RequestsAccounted

LEMMA TicketsFollow ==
  ASSUME IInv
  PROVE  TicketsMatchQueue
<1>1. DataOK(d) /\ TicketsOK
  BY DEF IInv
<1>2. PICK C \in SUBSET (0 .. (d.next_lock[1] - 1)) : Taken(C)
  BY <1>1, Zenon DEF TicketsOK
<1>3. \A a \in Arbiters : pc[a] = "take" => d.idx[head] < d.idx[tail] /\ ~IsNull(d, d.idx[head])
  BY <1>2, TakeReady, Zenon DEF head, tail
<1>4. QED
  BY <1>1, <1>3, Zenon DEF DataOK, CountersOK, TicketsMatchQueue

LEMMA OrderFollows ==
  ASSUME IInv
  PROVE  NormalSorted
<1>1. DataOK(d)
  BY DEF IInv
<1>2. OrderOK(d) /\ d \in ioqueue_data
  BY <1>1 DEF DataOK
<1>3. PICK h \in Nat, n \in Nat, t \in Nat : h = d.idx[1] /\ n = d.idx[2] /\ t = d.idx[4]
  BY <1>2, Fields
<1>4. \A p \in h .. (t - 1) : Request(d, p).prio = IF p < n THEN prio_normal ELSE prio_background
  BY <1>2, <1>3, Zenon DEF OrderOK, Schedulable, head, tail, sched_normal
<1>5. \A p, k \in h .. (n - 1) : p < k => Addr(d, p) =< Addr(d, k)
  BY <1>2, <1>3, Zenon DEF OrderOK, head, sched_normal
<1>6. ASSUME NEW p \in h .. (t - 1), NEW k \in h .. (t - 1), p < k, Request(d, k).prio = prio_normal
      PROVE  Request(d, p).prio = prio_normal /\ Addr(d, p) =< Addr(d, k)
  <2>1. k < n
    BY <1>4, <1>6
  <2>2. p < n
    BY <1>6, <2>1
  <2>3. p \in h .. (n - 1) /\ k \in h .. (n - 1)
    BY <2>1, <2>2
  <2>4. QED
    BY <1>4, <1>5, <1>6, <2>2, <2>3, Zenon
<1>7. QED
  BY <1>3, <1>6, Zenon DEF NormalSorted, Addr, head, tail

------------------------------------------------------------------------------
(*****************************************************************************)
(* With one arbiter: the order in which the requests leave the queue.        *)
(*****************************************************************************)

(* The same requests at the same places. *)
SameLine ==
  /\ d'.idx[0] = d.idx[0] /\ d'.idx[4] = d.idx[4] /\ d'.done = d.done
  /\ d.error_state => d'.error_state
  /\ \A p \in Positions(d) : /\ IsNull(d', p) <=> IsNull(d, p)
                             /\ ~IsNull(d, p) => Id(d', p) = Id(d, p)

(* All steps but those of submission and deletion leave the line as it is: *)
(* first the two ways in which they do, then all of them.                  *)
LEMMA SameLineIs ==
  ASSUME DataOK(d), d' = d \/ (SameCells(d, d') /\ (d.error_state => d'.error_state))
  PROVE  SameLine
<1>1. CASE d' = d
  BY <1>1, Zenon DEF SameLine
<1>2. CASE SameCells(d, d') /\ (d.error_state => d'.error_state)
  <2>1. \A p : At(d', p) = At(d, p) /\ (IsNull(d', p) <=> IsNull(d, p))
    BY <1>2, SameCellsOK, Zenon
  <2>2. \A p \in Positions(d) : ~IsNull(d, p) => Id(d', p) = Id(d, p)
    <3>1. ASSUME NEW p \in Positions(d), ~IsNull(d, p)
          PROVE  Id(d', p) = Id(d, p)
      <4>1. Request(d, p) \in ioqueue_request
        BY <3>1, Zenon DEF DataOK, RequestsOK
      <4>2. At(d, p) \in Blocks
        BY <3>1, CellIs, Zenon DEF DataOK
      <4>3. QED
        BY <1>2, <2>1, <4>1, <4>2, Zenon DEF SameCells, Request, Id
    <3>2. QED
      BY <3>1
  <2>3. QED
    BY <1>2, <2>1, <2>2, Zenon DEF SameLine, SameCells
<1>3. QED
  BY <1>1, <1>2

LEMMA EnterLine ==
  ASSUME DataOK(d), EnteredTo
  PROVE  SameLine /\ d'.idx[1] = d.idx[1]
<1>1. PICK q : Entered(d, q) /\ DataOK(q) /\ SameCells(q, d') /\ d'.idx = q.idx
             /\ d'.error_state = q.error_state
  BY Zenon DEF EnteredTo
<1>2. q \in ioqueue_data /\ SameQueue(d, q) /\ q.idx[1] = d.idx[1] /\ q.error_state = d.error_state
  BY <1>1, Zenon DEF Entered
<1>3. \A p : At(d', p) = At(q, p) /\ (IsNull(d', p) <=> IsNull(q, p))
  BY <1>1, SameCellsOK, Zenon
<1>4. \A p \in Positions(d) : At(q, p) = At(d, p) /\ (IsNull(q, p) <=> IsNull(d, p))
  BY <1>2, Zenon DEF SameQueue, IsNull
<1>5. ASSUME NEW p \in Positions(d), ~IsNull(d, p)
      PROVE  Id(d', p) = Id(d, p)
  <2>1. Request(q, p) \in ioqueue_request /\ Request(q, p).lock_id = Request(d, p).lock_id
    BY <1>2, <1>5, Zenon DEF SameQueue
  <2>2. At(d, p) \in Blocks
    BY <1>5, CellIs, Zenon DEF DataOK
  <2>3. q.request[At(q, p)] \in ioqueue_request /\ At(q, p) \in Blocks
    BY <1>4, <2>1, <2>2, Zenon DEF Request
  <2>4. d'.request[At(q, p)].lock_id = q.request[At(q, p)].lock_id
    BY <1>1, <2>3, Zenon DEF SameCells
  <2>5. QED
    BY <1>3, <2>1, <2>4, Zenon DEF Request, Id
<1>6. d'.idx[0] = d.idx[0] /\ d'.idx[4] = d.idx[4] /\ d'.done = d.done
  BY <1>1, <1>2, Zenon DEF SameQueue, SameCells
<1>7. SameLine
  BY <1>1, <1>2, <1>3, <1>4, <1>5, <1>6, Zenon DEF SameLine
<1>8. QED
  BY <1>1, <1>2, <1>7

(* What a user's step does. *)
LEMMA UserGoes ==
  ASSUME ThreadsOK, NEW u \in Users, Call(u) \/ UserStep(u)
  PROVE  \E w \in UserAt : Goto(u, w) /\ (w = "stuck" => TransAbort(u))
<1>1. /\ "idle" \in UserAt /\ "free" \in UserAt /\ "enter" \in UserAt /\ "body" \in UserAt
      /\ "wait" \in UserAt /\ "stuck" \in UserAt
      /\ "idle" # "stuck" /\ "free" # "stuck" /\ "enter" # "stuck" /\ "body" # "stuck"
         /\ "wait" # "stuck"
  BY DEF UserAt
<1>2. ASSUME NEW A, CallCancel(u, A)
      PROVE  Goto(u, "idle")
  BY <1>2, Threads DEF CallCancel, Idle, Goto
<1>3. CASE Call(u)
  <2>1. (\E s \in Submissions : CallTrans(u, s)) => Goto(u, "free")
    BY Zenon DEF CallTrans
  <2>2. CallWait(u) => Goto(u, "wait")
    BY Zenon DEF CallWait
  <2>3. (\E A \in Cancels : CallCancel(u, A)) => Goto(u, "idle")
    BY <1>2, Zenon
  <2>4. QED
    BY <1>1, <1>3, <2>1, <2>2, <2>3, Zenon DEF Call
<1>4. CASE UserStep(u)
  <2>1. LockWoken(u) => Goto(u, "idle") \/ Goto(u, "enter")
    BY DEF LockWoken
  <2>2. (LockRetry(u) => Goto(u, "free")) /\ (LockEnter(u) => Goto(u, "body"))
    BY Zenon DEF LockRetry, LockEnter
  <2>3. (TransMerge(u) => Goto(u, "idle")) /\ (TransSubmit(u) => Goto(u, "idle"))
    BY Zenon DEF TransMerge, TransSubmit, Unlock
  <2>4. (TransAbort(u) => Goto(u, "stuck")) /\ (WaitReturn(u) => Goto(u, "idle"))
    BY Zenon DEF TransAbort, WaitReturn
  <2>5. QED
    BY <1>1, <1>4, <2>1, <2>2, <2>3, <2>4, Zenon DEF UserStep
<1>5. QED
  BY <1>3, <1>4

LEMMA UserLine ==
  ASSUME NoUrgent, IInv, NEW u \in Users, Call(u) \/ UserStep(u)
  PROVE  /\ \A a \in Arbiters : pc'[a] = pc[a]
         /\ (SameLine /\ d'.idx[1] = d.idx[1]) \/ TransSubmit(u)
<1>1. DataOK(d) /\ ThreadsOK
  BY DEF IInv
<1>2. \A a \in Arbiters : pc'[a] = pc[a]
  <2>1. PICK w \in UserAt : Goto(u, w)
    BY <1>1, UserGoes, Zenon
  <2>2. u \in Users \cup Arbiters /\ w \in ThreadAt
    BY DEF ThreadAt
  <2>3. \A v \in Users \cup Arbiters : v # u => pc'[v] = pc[v]
    BY <1>1, <2>1, <2>2, Moved, Zenon
  <2>4. QED
    BY <2>3, Apart, Zenon
<1>3. d' = d => SameLine /\ d'.idx[1] = d.idx[1]
  BY <1>1, SameLineIs, Zenon
<1>4. ASSUME NEW A, CallCancel(u, A)
      PROVE  SameLine /\ d'.idx[1] = d.idx[1]
  <2>1. d' = Cancelled(d, A)
    BY <1>4 DEF CallCancel
  <2>2. SameCells(d, d') /\ d'.error_state = d.error_state /\ d'.idx = d.idx
    BY <1>1, <2>1, CancelIs, Zenon
  <2>3. QED
    BY <1>1, <2>2, SameLineIs, Zenon
<1>5. CASE Call(u)
  <2>1. (\E s \in Submissions : CallTrans(u, s)) => d' = d
    BY Zenon DEF CallTrans
  <2>2. CallWait(u) => d' = d
    BY Zenon DEF CallWait
  <2>3. QED
    BY <1>2, <1>3, <1>4, <1>5, <2>1, <2>2, Zenon DEF Call
<1>6. TransMerge(u) => SameLine /\ d'.idx[1] = d.idx[1]
  BY <1>1, TransMergeStep, SameLineIs, Zenon
<1>7. LockEnter(u) => SameLine /\ d'.idx[1] = d.idx[1]
  BY <1>1, LockEnterStep, EnterLine, Zenon
<1>8. TransAbort(u) => d' = d
  BY TransAbortStep, Zenon
<1>9. (LockWoken(u) => d' = d) /\ (LockRetry(u) => d' = d) /\ (WaitReturn(u) => d' = d)
  BY Zenon DEF LockWoken, LockRetry, WaitReturn
<1>10. CASE UserStep(u)
  BY <1>2, <1>3, <1>6, <1>7, <1>8, <1>9, <1>10, Zenon DEF UserStep
<1>11. QED
  BY <1>5, <1>10

LEMMA ArbiterLine ==
  ASSUME IInv, NEW a \in Arbiters, ArbiterStep(a)
  PROVE  SameLine \/ Delete(a)
<1>1. DataOK(d)
  BY DEF IInv
<1>2. d' = d \/ d' = break_all_locks(d) => SameLine
  BY <1>1, SameLineIs, ErrorIs, Zenon
<1>3. GadrTicket(a) => SameLine
  <2>1. GadrTicket(a) => d' = waitlistlock_getid(d, 1)
    BY Zenon DEF GadrTicket
  <2>2. QED
    BY <1>1, <2>1, SameLineIs, TicketIs, Zenon
<1>4. GadrTake(a) => SameLine
  <2>1. ASSUME GadrTake(a)
        PROVE  SameLine
    <3>1. pc[a] = "take"
      BY <2>1 DEF GadrTake
    <3>2. PICK C \in SUBSET (0 .. (d.next_lock[1] - 1)) : Taken(C)
      BY Zenon DEF IInv, TicketsOK
    <3>3. d.idx[1] < d.idx[4] /\ ~IsNull(d, d.idx[1])
      BY <3>1, <3>2, TakeReady, Zenon
    <3>4. d' = [d EXCEPT !.idx[head] = @ + 1]
      BY <2>1, <3>3 DEF GadrTake, head
    <3>5. SameCells(d, d') /\ d'.error_state = d.error_state
      BY <1>1, <3>3, <3>4, TakeIs, Zenon
    <3>6. QED
      BY <1>1, <3>5, SameLineIs, Zenon
  <2>2. QED
    BY <2>1
<1>5. GadrWoken(a) \/ Fetch(a) \/ (\E ok \in BOOLEAN : Driver(a, ok)) => d' = d
      \/ d' = break_all_locks(d)
  BY DEF GadrWoken, Fetch, Driver, Fail
<1>6. QED
  BY <1>2, <1>3, <1>4, <1>5, Zenon DEF ArbiterStep

(* No entry is empty. *)
NoHoles(q) == \A p \in Positions(q) : ~IsNull(q, p)

(* The ids of the requests after one more was put at n. *)
LinedUp(l, t, n) ==
  \A p \in l .. t : Id(d', p) = IF p < n THEN Id(d, p) ELSE IF p = n THEN d.next_lock[2]
    ELSE Id(d, p - 1)

(* A submission: the ids of the entries behind its place move up. *)
LEMMA SubmitLine ==
  ASSUME NoUrgent, IInv, NEW u \in Users, TransSubmit(u), NoHoles(d)
  PROVE  /\ NoHoles(d') /\ waits' = waits /\ d'.done = d.done /\ d'.error_state = d.error_state
         /\ d'.idx[0] = d.idx[0] /\ d'.idx[1] = d.idx[1] /\ d'.idx[4] = d.idx[4] + 1
         /\ \E n \in d.idx[0] .. d.idx[4] : LinedUp(d.idx[0], d.idx[4], n)
<1>1. PICK x : x = arg[u]
  OBVIOUS
<1>2. PICK n : n = Place(u)
  OBVIOUS
<1>3. PICK b : b = Head(d.freelist)
  OBVIOUS
<1>4. PICK q : q = Submitted(d, x.req, x.prio, n)
  OBVIOUS
<1>5. /\ DataOK(q) /\ Inserted(d, x.req, x.prio, n, b, q) /\ n \in d.idx[1] .. d.idx[4]
      /\ d' = [q EXCEPT !.extlock = FALSE]
  BY <1>1, <1>2, <1>3, <1>4, SubmissionIs, Zenon
<1>6. DataOK(d) /\ d \in ioqueue_data /\ BlocksOK(d)
  BY DEF IInv, DataOK
<1>7. waits' = waits /\ d.freelist # << >>
  BY DEF TransSubmit
<1>8. SameCells(q, d') /\ d'.error_state = q.error_state /\ d'.idx = q.idx /\ d'.request = q.request
  <2>1. FALSE \in BOOLEAN
    OBVIOUS
  <2>2. QED
    BY <1>5, <2>1, ExtlockIs
<1>9. \A p : At(d', p) = At(q, p) /\ (IsNull(d', p) <=> IsNull(q, p))
  BY <1>5, <1>8, SameCellsOK, Zenon
<1>10. b \in Blocks /\ Lists(d.freelist, b)
  <2>1. d.freelist \in Seq(Blocks) /\ Distinct(d.freelist)
    BY <1>6, Fields DEF BlocksOK
  <2>2. PICK w : w = Tail(d.freelist)
    OBVIOUS
  <2>3. QED
    BY <1>3, <1>7, <2>1, <2>2, Popped
<1>11. PICK l \in Nat, h \in Nat, t \in Nat : l = d.idx[0] /\ h = d.idx[1] /\ t = d.idx[4]
              /\ l =< h /\ h =< t
  BY <1>6, DataNumbers
<1>12. d'.idx[0] = l /\ d'.idx[1] = h /\ d'.idx[4] = t + 1 /\ d'.done = d.done
       /\ d'.error_state = d.error_state
  BY <1>5, <1>8, <1>11, Zenon DEF Inserted, SameCells
<1>13. \A p \in l .. t : At(d', p) = IF p < n THEN At(d, p) ELSE IF p = n THEN b ELSE At(d, p - 1)
  BY <1>5, <1>9, <1>11, Zenon DEF Inserted
<1>14. Positions(d) = l .. (t - 1) /\ Positions(d') = l .. ((t + 1) - 1)
  BY <1>11, <1>12, Zenon DEF Positions, locked_head, tail
<1>15. \A p \in l .. (t - 1) : At(d, p) \in Blocks /\ At(d, p) # b
  <2>1. \A p \in l .. (t - 1) : At(d, p) \in Blocks
    BY <1>6, <1>14, CellIs, Zenon DEF NoHoles, DataOK
  <2>2. \A p \in l .. (t - 1) : At(d, p) # b
    BY <1>6, <1>10, <1>14, Zenon DEF BlocksOK
  <2>3. QED
    BY <2>1, <2>2
<1>16. d'.request = [d.request EXCEPT ![b] = NewRequest(d, x.req, x.prio)]
  BY <1>5, <1>8, Zenon DEF Inserted
<1>17. d'.request[b].lock_id = d.next_lock[2] /\ \A c \in Blocks : c # b =>
       d'.request[c] = d.request[c]
  <2>1. PICK g \in [Blocks -> ioqueue_request \cup {Zeroed}] : g = d.request
    BY <1>6, Fields
  <2>2. PICK e : e = NewRequest(d, x.req, x.prio)
    OBVIOUS
  <2>3. PICK f : f = [g EXCEPT ![b] = e]
    OBVIOUS
  <2>4. f[b] = e /\ \A c \in Blocks : c # b => f[c] = g[c]
    BY <1>10, <2>1, <2>3
  <2>5. e.lock_id = d.next_lock[2]
    BY <2>2 DEF NewRequest
  <2>6. d'.request = f
    BY <1>16, <2>1, <2>2, <2>3, Zenon
  <2>7. QED
    BY <2>1, <2>4, <2>5, <2>6, Zenon
<1>18. n \in Nat /\ n \in h .. t
  BY <1>5, <1>11
<1>19. \A p \in l .. t : (p < n => p \in l .. (t - 1))
       /\ (~(p < n) /\ p # n => p - 1 \in l .. (t - 1))
  BY <1>11, <1>18
<1>20. ASSUME NEW p \in l .. t
       PROVE  ~IsNull(d', p) /\ Id(d', p) = IF p < n THEN Id(d, p) ELSE IF p = n
                THEN d.next_lock[2] ELSE Id(d, p - 1)
  <2>1. NULLPTR \notin Blocks
    BY Sizes
  <2>2. CASE p < n
    <3>1. At(d', p) = At(d, p) /\ At(d, p) \in Blocks /\ At(d, p) # b
      BY <1>13, <1>15, <1>19, <1>20, <2>2, Zenon
    <3>2. QED
      BY <1>17, <2>1, <2>2, <3>1, Zenon DEF IsNull, Id, Request
  <2>3. CASE ~(p < n) /\ p = n
    <3>1. At(d', p) = b
      BY <1>13, <1>20, <2>3, Zenon
    <3>2. QED
      BY <1>10, <1>17, <2>1, <2>3, <3>1, Zenon DEF IsNull, Id, Request
  <2>4. CASE ~(p < n) /\ p # n
    <3>1. At(d', p) = At(d, p - 1) /\ At(d, p - 1) \in Blocks /\ At(d, p - 1) # b
      BY <1>13, <1>15, <1>19, <1>20, <2>4, Zenon
    <3>2. QED
      BY <1>17, <2>1, <2>4, <3>1, Zenon DEF IsNull, Id, Request
  <2>5. QED
    BY <2>2, <2>3, <2>4
<1>21. NoHoles(d')
  <2>1. l .. ((t + 1) - 1) = l .. t
    BY <1>11
  <2>2. QED
    BY <1>14, <1>20, <2>1, Zenon DEF NoHoles
<1>22. LinedUp(l, t, n) /\ n \in l .. t
  BY <1>11, <1>18, <1>20 DEF LinedUp
<1>23. QED
  BY <1>7, <1>11, <1>12, <1>21, <1>22, Zenon

(* A deletion: the first entry leaves. *)
LEMMA DeleteLine ==
  ASSUME IInv, InLine, NEW a \in Arbiters, Delete(a)
  PROVE  /\ NoHoles(d') /\ waits' = waits /\ d'.error_state = d.error_state
         /\ d.idx[0] < d.idx[4]
         /\ d'.idx[0] = d.idx[0] + 1 /\ d'.idx[1] = d'.idx[0] /\ d'.idx[4] = d.idx[4]
         /\ d'.done = d.done \cup {Id(d, d.idx[0])}
         /\ \A p \in Positions(d') : p \in Positions(d) /\ Id(d', p) = Id(d, p)
<1>1. DataOK(d)
  BY DEF IInv
<1>2. PICK l \in Nat, h \in Nat, t \in Nat : l = d.idx[0] /\ h = d.idx[1] /\ t = d.idx[4]
             /\ l =< h /\ h =< t
  BY <1>1, DataNumbers
<1>3. PICK p : p = place[a]
  OBVIOUS
<1>4. Deleted(d, p, d') /\ p \in l .. (h - 1) /\ ~IsNull(d, p)
  BY <1>2, <1>3, DeleteStep, Zenon
<1>5. h = l + 1
  <2>1. pc[a] \in AtArbiter
    BY DEF Delete, AtArbiter
  <2>2. QED
    BY <1>2, <2>1, Zenon DEF InLine, locked_head, head
<1>6. p = l /\ l < t
  BY <1>2, <1>4, <1>5
<1>7. PICK m \in l .. t : m = d'.idx[0] /\ (m < t => m # p) /\ \A k \in l .. (m - 1) : k = p
             \/ IsNull(d, k)
  BY <1>2, <1>4, Zenon DEF Deleted
<1>8. Positions(d) = l .. (t - 1)
  BY <1>2, Zenon DEF Positions, locked_head, tail
<1>9. m = l + 1
  <2>1. m # l
    BY <1>6, <1>7
  <2>2. CASE m > l + 1
    <3>1. l + 1 \in l .. (m - 1) /\ l + 1 # p /\ l + 1 \in l .. (t - 1)
      BY <1>6, <2>2
    <3>2. QED
      BY <1>7, <1>8, <3>1, Zenon DEF InLine
  <2>3. QED
    BY <1>7, <2>1, <2>2
<1>10. d'.idx[1] = h /\ d'.idx[4] = t
  <2>1. 1 \in 1 .. 7 /\ 4 \in 1 .. 7
    OBVIOUS
  <2>2. QED
    BY <1>2, <1>4, <2>1, Zenon DEF Deleted
<1>11. Positions(d') = (l + 1) .. (t - 1)
  BY <1>7, <1>9, <1>10, Zenon DEF Positions, locked_head, tail
<1>12. ASSUME NEW k \in Positions(d')
       PROVE  k \in Positions(d) /\ Id(d', k) = Id(d, k) /\ ~IsNull(d', k)
  <2>1. k \in l .. (t - 1) /\ k # p
    BY <1>6, <1>11
  <2>2. At(d', k) = At(d, k)
    BY <1>4, <1>8, <2>1, Zenon DEF Deleted
  <2>3. ~IsNull(d, k)
    BY <1>8, <2>1, Zenon DEF InLine
  <2>4. d'.request = d.request
    BY <1>4, Zenon DEF Deleted
  <2>5. QED
    BY <1>8, <2>1, <2>2, <2>3, <2>4, Zenon DEF IsNull, Id, Request
<1>13. NoHoles(d')
  BY <1>12 DEF NoHoles
<1>14. d'.done = d.done \cup {Id(d, l)} /\ d'.error_state = d.error_state
  BY <1>4, <1>6, Zenon DEF Deleted
<1>15. waits' = waits
  BY DEF Delete
<1>16. QED
  BY <1>2, <1>5, <1>6, <1>7, <1>9, <1>10, <1>12, <1>13, <1>14, <1>15, Zenon

(* $wait stays right over a step that leaves the line as it is, over a     *)
(* submission, and over a deletion.                                        *)
LEMMA DrainedSame ==
  ASSUME SameLine, NoHoles(d), NEW v, waits'[v] = waits[v], Drained(v)
  PROVE  Drained(v)'
<1>1. Positions(d') = Positions(d) /\ d'.done = d.done
  BY Zenon DEF SameLine, Positions, locked_head, tail
<1>2. \A p \in Positions(d) : Id(d', p) = Id(d, p)
  BY Zenon DEF SameLine, NoHoles
<1>3. QED
  BY <1>1, <1>2, Zenon DEF Drained

LEMMA DrainedSubmit ==
  ASSUME NoUrgent, IInv, NEW u \in Users, TransSubmit(u), NoHoles(d), NEW v \in Users, Drained(v)
  PROVE  Drained(v)'
<1>1. PICK l \in Nat, t \in Nat, N \in Nat : l = d.idx[0] /\ t = d.idx[4] /\ N = d.next_lock[2]
  BY DataNumbers DEF IInv
<1>2. PICK n \in l .. t : LinedUp(l, t, n)
  BY <1>1, SubmitLine, Zenon
<1>3. waits' = waits /\ d'.done = d.done /\ d'.idx[0] = l /\ d'.idx[4] = t + 1
  BY <1>1, SubmitLine, Zenon
<1>4. /\ Positions(d) = l .. (t - 1)
      /\ Positions(d') = l .. ((t + 1) - 1)
  BY <1>1, <1>3, Zenon DEF Positions, locked_head, tail
<1>5. waits[v].ids \subseteq waits[v].before /\ N \notin waits[v].before
  <2>1. waits[v].ids \subseteq waits[v].before /\ waits[v].before \subseteq Ids
    BY Threads, Zenon DEF IInv
  <2>2. N \notin Ids
    BY <1>1 DEF Ids
  <2>3. QED
    BY <2>1, <2>2
<1>6. CASE waits[v].before \subseteq waits[v].ids
  BY <1>3, <1>6, Zenon DEF Drained
<1>7. CASE ~(waits[v].before \subseteq waits[v].ids)
  <2>1. PICK x \in waits[v].ids :
          /\ x \in d.done => waits[v].before \subseteq d.done
          /\ \A p, k \in l .. (t - 1) : Id(d, p) = x /\ Id(d, k) \in waits[v].before => k =< p
    BY <1>4, <1>7, Zenon DEF Drained
  <2>2. ASSUME NEW p \in l .. t, Id(d', p) \in waits[v].before
        PROVE  \E P \in l .. (t - 1) : /\ Id(d, P) = Id(d', p)
                                       /\ (p < n /\ P = p) \/ (p > n /\ P = p - 1)
    <3>1. Id(d', p) = IF p < n THEN Id(d, p) ELSE IF p = n THEN N ELSE Id(d, p - 1)
      BY <1>1, <1>2, Zenon DEF LinedUp
    <3>2. p # n
      BY <1>5, <2>2, <3>1
    <3>3. CASE p < n
      <4>1. p \in l .. (t - 1)
        BY <1>1, <3>3
      <4>2. Id(d, p) = Id(d', p)
        BY <3>1, <3>3
      <4>3. QED
        BY <3>3, <4>1, <4>2, Zenon
    <3>4. CASE p > n
      <4>1. p - 1 \in l .. (t - 1) /\ ~(p < n)
        BY <1>1, <3>4
      <4>2. Id(d, p - 1) = Id(d', p)
        BY <3>1, <3>2, <4>1
      <4>3. QED
        BY <3>4, <4>1, <4>2, Zenon
    <3>5. QED
      BY <1>2, <3>2, <3>3, <3>4
  <2>3. ASSUME NEW p \in l .. t, NEW k \in l .. t, Id(d', p) = x, Id(d', k) \in waits[v].before
        PROVE  k =< p
    <3>1. PICK P \in l .. (t - 1) : Id(d, P) = x /\ ((p < n /\ P = p) \/ (p > n /\ P = p - 1))
      <4>1. Id(d', p) \in waits[v].before
        BY <1>5, <2>1, <2>3
      <4>2. QED
        BY <2>2, <2>3, <4>1, Zenon
    <3>2. PICK K \in l .. (t - 1) : /\ Id(d, K) \in waits[v].before
                                    /\ (k < n /\ K = k) \/ (k > n /\ K = k - 1)
      BY <2>2, <2>3, Zenon
    <3>3. K =< P
      BY <2>1, <3>1, <3>2, Zenon
    <3>4. QED
      BY <3>1, <3>2, <3>3
  <2>4. l .. ((t + 1) - 1) = l .. t
    BY <1>1
  <2>5. QED
    BY <1>3, <1>4, <2>1, <2>3, <2>4, Zenon DEF Drained
<1>8. QED
  BY <1>6, <1>7

LEMMA DrainedDelete ==
  ASSUME IInv, InLine, NEW a \in Arbiters, Delete(a), NEW v \in Users, Drained(v)
  PROVE  Drained(v)'
<1>1. PICK l \in Nat, t \in Nat, N \in Nat : l = d.idx[0] /\ t = d.idx[4] /\ N = d.next_lock[2]
  BY DataNumbers DEF IInv
<1>2. /\ waits' = waits /\ d'.done = d.done \cup {Id(d, l)} /\ l < t
      /\ \A p \in Positions(d') : p \in Positions(d) /\ Id(d', p) = Id(d, p)
  BY <1>1, DeleteLine, Zenon
<1>3. Positions(d) = l .. (t - 1)
  BY <1>1, Zenon DEF Positions, locked_head, tail
<1>4. waits[v].ids \subseteq waits[v].before /\ waits[v].before \subseteq 0 .. (N - 1)
  BY <1>1, Threads, Zenon DEF IInv, Ids
<1>5. CASE waits[v].before \subseteq waits[v].ids
  BY <1>2, <1>5, Zenon DEF Drained
<1>6. CASE ~(waits[v].before \subseteq waits[v].ids)
  <2>1. PICK x \in waits[v].ids :
          /\ x \in d.done => waits[v].before \subseteq d.done
          /\ \A p, k \in Positions(d) : Id(d, p) = x /\ Id(d, k) \in waits[v].before => k =< p
    BY <1>6, Zenon DEF Drained
  <2>2. \A p, k \in Positions(d') : Id(d', p) = x /\ Id(d', k) \in waits[v].before => k =< p
    BY <1>2, <2>1, Zenon
  <2>3. ASSUME x \in d'.done
        PROVE  waits[v].before \subseteq d'.done
    <3>1. CASE x \in d.done
      BY <1>2, <2>1, <3>1
    <3>2. CASE x = Id(d, l)
      <4>1. l \in l .. (t - 1)
        BY <1>2
      <4>2. ASSUME NEW i \in waits[v].before, i \notin d.done
            PROVE  i = Id(d, l)
        <5>1. PICK k \in l .. (t - 1) : Id(d, k) = i
          BY <1>1, <1>3, <1>4, <4>2, Zenon DEF IInv, DataOK, RequestsOK
        <5>2. k =< l
          BY <1>3, <2>1, <3>2, <4>1, <5>1, Zenon
        <5>3. k = l
          BY <5>2
        <5>4. QED
          BY <5>1, <5>3
      <4>3. QED
        BY <1>2, <4>2
    <3>3. QED
      BY <1>2, <2>3, <3>1, <3>2
  <2>4. QED
    BY <1>2, <2>1, <2>2, <2>3, Zenon DEF Drained
<1>7. QED
  BY <1>5, <1>6

(* $wait begins: the last request is behind all others. *)
LEMMA WaitBegins ==
  ASSUME IInv, NoHoles(d), NEW u \in Users, CallWait(u)
  PROVE  Drained(u)' /\ \A v \in Users : v # u => waits'[v] = waits[v]
<1>1. DataOK(d) /\ ThreadsOK
  BY DEF IInv
<1>2. PICK x : x = [ids |-> WaitIds, before |-> Ids]
  OBVIOUS
<1>3. waits' = [waits EXCEPT ![u] = x] /\ d' = d
  BY <1>2, Zenon DEF CallWait
<1>4. waits'[u] = x /\ \A v \in Users : v # u => waits'[v] = waits[v]
  BY <1>1, <1>3, Threads
<1>5. waits'[u].ids = WaitIds /\ waits'[u].before = Ids
  BY <1>2, <1>4
<1>6. PICK l \in Nat, t \in Nat : l = d.idx[0] /\ t = d.idx[4]
  BY <1>1, DataNumbers
<1>7. Positions(d) = l .. (t - 1)
  BY <1>6, Zenon DEF Positions, locked_head, tail
<1>8. CASE l =< t - 1 /\ ~IsNull(d, t - 1)
  <2>1. PICK e \in l .. (t - 1) : e = t - 1
    BY <1>8
  <2>2. WaitIds = {Id(d, e)}
    BY <1>6, <1>8, <2>1, Zenon DEF WaitIds, Id, locked_head, tail
  <2>3. RequestsOK(d)
    BY <1>1, Zenon DEF DataOK
  <2>4. \A p \in l .. (t - 1) : ~IsNull(d, p) => Id(d, p) \notin d.done
    BY <1>7, <2>3, Zenon DEF RequestsOK
  <2>5. Id(d, e) \notin d.done
    BY <1>8, <2>1, <2>4, Zenon
  <2>6. ASSUME NEW p \in l .. (t - 1), NEW k \in l .. (t - 1), Id(d, p) = Id(d, e)
        PROVE  k =< p
    <3>1. p = e
      BY <1>7, <2>1, <2>3, <2>6, Zenon DEF RequestsOK, NoHoles
    <3>2. QED
      BY <2>1, <3>1
  <2>7. Id(d, e) \in waits'[u].ids /\ d' = d
    BY <1>3, <1>5, <2>2
  <2>8. \A p, k \in Positions(d) : Id(d, p) = Id(d, e) => k =< p
    BY <1>7, <2>6, Zenon
  <2>9. \A p, k \in Positions(d') : Id(d', p) = Id(d, e) => k =< p
    BY <1>3, <2>8
  <2>10. Id(d, e) \notin d'.done
    BY <1>3, <2>5
  <2>11. QED
    BY <1>4, <2>7, <2>9, <2>10, Zenon DEF Drained
<1>9. CASE ~(l =< t - 1 /\ ~IsNull(d, t - 1))
  <2>1. WaitIds = Ids
    BY <1>6, <1>9, Zenon DEF WaitIds, locked_head, tail
  <2>2. QED
    BY <1>4, <1>5, <2>1, Zenon DEF Drained
<1>10. QED
  BY <1>8, <1>9

------------------------------------------------------------------------------
(*****************************************************************************)
(* The theorems.                                                             *)
(*****************************************************************************)

(* A line as it was has no holes. *)
LEMMA SameHoles ==
  ASSUME SameLine, NoHoles(d)
  PROVE  NoHoles(d')
<1>1. Positions(d') = Positions(d)
  BY Zenon DEF SameLine, Positions, locked_head, tail
<1>2. QED
  BY <1>1, Zenon DEF SameLine, NoHoles

(* The only arbiter has one request at most. *)
LEMMA HeadInLine ==
  ASSUME OneArbiter, IInv, InLine, NEW a \in Arbiters, ArbiterStep(a)
  PROVE  /\ \A b \in Arbiters : pc'[b] \in AtArbiter => d'.idx[1] = d'.idx[0] + 1
         /\ \A b \in Arbiters : pc'[b] \in {"start", "avail", "take"} => d'.idx[1] = d'.idx[0]
<1>1. DataOK(d) /\ ThreadsOK
  BY DEF IInv
<1>2. \A b \in Arbiters : b = a
  BY DEF OneArbiter
<1>3. /\ pc[a] \in AtArbiter => d.idx[1] = d.idx[0] + 1
      /\ pc[a] \in {"start", "avail", "take"} => d.idx[1] = d.idx[0]
  BY Zenon DEF InLine, locked_head, head
<1>4. ASSUME NEW w, Goto(a, w)
      PROVE  pc'[a] = w
  BY <1>1, <1>4, Threads DEF Goto
<1>5. break_all_locks(d).idx = d.idx
  BY <1>1, ErrorIs, Zenon
<1>6. CASE GadrTicket(a)
  <2>1. pc[a] = "start" /\ pc'[a] = "avail" /\ d'.idx = d.idx
    <3>1. d' = waitlistlock_getid(d, 1) /\ Goto(a, "avail") /\ pc[a] = "start"
      BY <1>6 DEF GadrTicket
    <3>2. QED
      BY <1>1, <1>4, <3>1, TicketIs, Zenon
  <2>2. QED
    BY <1>2, <1>3, <2>1 DEF AtArbiter
<1>7. CASE GadrWoken(a)
  <2>1. pc[a] = "avail" /\ pc'[a] \in {"ended", "take"} /\ d'.idx = d.idx
    BY <1>4, <1>5, <1>7 DEF GadrWoken, Fail
  <2>2. QED
    BY <1>2, <1>3, <2>1 DEF AtArbiter
<1>8. CASE GadrTake(a)
  <2>1. pc[a] = "take"
    BY <1>8 DEF GadrTake
  <2>2. PICK C \in SUBSET (0 .. (d.next_lock[1] - 1)) : Taken(C)
    BY Zenon DEF IInv, TicketsOK
  <2>3. d.idx[1] < d.idx[4] /\ ~IsNull(d, d.idx[1])
    BY <2>1, <2>2, TakeReady, Zenon
  <2>4. d' = [d EXCEPT !.idx[head] = @ + 1] /\ Goto(a, "fetch")
    BY <1>8, <2>3 DEF GadrTake, head
  <2>5. d'.idx[1] = d.idx[1] + 1 /\ d'.idx[0] = d.idx[0]
    BY <1>1, <2>3, <2>4, TakeIs, Zenon DEF SameCells
  <2>6. pc'[a] = "fetch"
    BY <1>4, <2>4
  <2>7. QED
    BY <1>2, <1>3, <2>1, <2>5, <2>6
<1>9. CASE Fetch(a) \/ \E ok \in BOOLEAN : Driver(a, ok)
  <2>1. pc[a] \in {"fetch", "driver"} /\ pc'[a] \in {"ended", "driver", "delete"} /\ d'.idx = d.idx
    BY <1>4, <1>5, <1>9 DEF Fetch, Driver, Fail
  <2>2. QED
    BY <1>2, <1>3, <2>1 DEF AtArbiter
<1>10. CASE Delete(a)
  <2>1. d'.idx[1] = d'.idx[0] /\ pc'[a] = "start"
    BY <1>10, DeleteLine, DeleteStep, Zenon
  <2>2. QED
    BY <1>2, <2>1 DEF AtArbiter
<1>11. QED
  BY <1>6, <1>7, <1>8, <1>9, <1>10 DEF ArbiterStep

(* The steps of the arbiter keep SInv. *)
LEMMA ArbiterKeepsLine ==
  ASSUME OneArbiter, IInv, SInv, NEW a \in Arbiters, ArbiterStep(a)
  PROVE  SInv'
<1>1. DataOK(d) /\ ThreadsOK /\ InLine /\ NoHoles(d)
  BY DEF IInv, SInv, InLine, NoHoles
<1>2. waits' = waits
  BY DEF ArbiterStep, GadrTicket, GadrWoken, GadrTake, Fetch, Driver, Delete
<1>3. SameLine \/ Delete(a)
  BY ArbiterLine, Zenon
<1>4. NoHoles(d') /\ (d.error_state => d'.error_state)
  <2>1. SameLine => NoHoles(d') /\ (d.error_state => d'.error_state)
    BY <1>1, SameHoles, Zenon DEF SameLine
  <2>2. Delete(a) => NoHoles(d') /\ (d.error_state => d'.error_state)
    BY <1>1, DeleteLine, Zenon
  <2>3. QED
    BY <1>3, <2>1, <2>2
<1>5. InLine'
  BY <1>1, <1>4, HeadInLine, Zenon DEF InLine, NoHoles, AtArbiter, locked_head, head
<1>6. AbortOnlyOnError'
  <2>1. \A u \in Users : pc'[u] = pc[u]
    <3>1. \E w \in ArbiterAt : Goto(a, w)
      <4>1. /\ "avail" \in ArbiterAt /\ "take" \in ArbiterAt /\ "ended" \in ArbiterAt
            /\ "fetch" \in ArbiterAt /\ "driver" \in ArbiterAt /\ "delete" \in ArbiterAt
            /\ "start" \in ArbiterAt
        BY DEF ArbiterAt, AtArbiter
      <4>2. QED
        BY <4>1 DEF ArbiterStep, GadrTicket, GadrWoken, GadrTake, Fetch, Driver, Delete, Fail
    <3>2. QED
      BY <1>1, <3>1, ArbiterAlone, Zenon
  <2>2. QED
    BY <1>4, <2>1, Zenon DEF SInv, AbortOnlyOnError
<1>7. WaitsOK'
  <2>1. ASSUME NEW v \in Users
        PROVE  Drained(v)'
    <3>1. Drained(v)
      BY Zenon DEF SInv, WaitsOK
    <3>2. CASE SameLine
      BY <1>1, <1>2, <3>1, <3>2, DrainedSame, Zenon
    <3>3. CASE Delete(a)
      BY <1>1, <3>1, <3>3, DrainedDelete, Zenon
    <3>4. QED
      BY <1>3, <3>2, <3>3
  <2>2. QED
    BY <2>1 DEF WaitsOK
<1>8. QED
  BY <1>5, <1>6, <1>7 DEF SInv

(* The steps of the users keep SInv. *)
LEMMA UserKeepsLine ==
  ASSUME NoUrgent, IInv, SInv, NEW u \in Users, Call(u) \/ UserStep(u)
  PROVE  SInv'
<1>1. DataOK(d) /\ ThreadsOK /\ InLine /\ NoHoles(d)
  BY DEF IInv, SInv, InLine, NoHoles
<1>2. /\ \A a \in Arbiters : pc'[a] = pc[a]
      /\ (SameLine /\ d'.idx[1] = d.idx[1]) \/ TransSubmit(u)
  BY UserLine, Zenon
<1>3. /\ NoHoles(d') /\ d'.idx[0] = d.idx[0] /\ d'.idx[1] = d.idx[1]
      /\ d.error_state => d'.error_state
  <2>1. CASE SameLine /\ d'.idx[1] = d.idx[1]
    BY <1>1, <2>1, SameHoles, Zenon DEF SameLine
  <2>2. CASE TransSubmit(u)
    BY <1>1, <2>2, SubmitLine, Zenon
  <2>3. QED
    BY <1>2, <2>1, <2>2
<1>4. InLine'
  BY <1>1, <1>2, <1>3, Zenon DEF InLine, NoHoles, AtArbiter, locked_head, head
<1>5. AbortOnlyOnError'
  <2>1. PICK w \in UserAt : Goto(u, w) /\ (w = "stuck" => TransAbort(u))
    BY <1>1, UserGoes, Zenon
  <2>2. pc'[u] = w /\ \A v \in Users : v # u => pc'[v] = pc[v]
    BY <1>1, <2>1, Threads DEF Goto
  <2>3. ASSUME TransAbort(u)
        PROVE  d.error_state
    <3>1. Fatal(u) \/ d.error_state
      BY <2>3, TransAbortStep, Zenon
    <3>2. SearchOK(d, arg[u])
      <4>1. pc[u] = "body"
        BY <2>3 DEF TransAbort
      <4>2. QED
        BY <4>1, BodyIs, Zenon
    <3>3. PICK l \in Nat, h \in Nat, t \in Nat :
            l = d.idx[0] /\ h = d.idx[1] /\ t = d.idx[4] /\ l =< h /\ h =< t
      BY <1>1, DataNumbers
    <3>4. Fatal(u) => \E p \in l .. (h - 1) : IsNull(d, p)
      BY <3>2, <3>3, Zenon DEF SearchOK, Fatal, locked_head, head
    <3>5. \A p \in l .. (h - 1) : p \in l .. (t - 1)
      BY <3>3
    <3>6. \A p \in l .. (h - 1) : ~IsNull(d, p)
      BY <1>1, <3>3, <3>5, Zenon DEF NoHoles, Positions, locked_head, tail
    <3>7. QED
      BY <3>1, <3>4, <3>6, Zenon
  <2>4. ASSUME NEW v \in Users, pc'[v] = "stuck"
        PROVE  d'.error_state
    <3>1. CASE v = u
      BY <1>3, <2>1, <2>2, <2>3, <2>4, <3>1
    <3>2. CASE v # u
      BY <1>3, <2>2, <2>4, <3>2, Zenon DEF SInv, AbortOnlyOnError
    <3>3. QED
      BY <3>1, <3>2
  <2>5. QED
    BY <2>4 DEF AbortOnlyOnError
<1>6. WaitsOK'
  <2>1. ASSUME NEW v \in Users
        PROVE  Drained(v)'
    <3>1. Drained(v)
      BY Zenon DEF SInv, WaitsOK
    <3>2. CASE TransSubmit(u)
      BY <1>1, <3>1, <3>2, DrainedSubmit, Zenon
    <3>3. CASE SameLine /\ waits'[v] = waits[v]
      BY <1>1, <3>1, <3>3, DrainedSame, Zenon
    <3>4. CASE SameLine /\ waits'[v] # waits[v]
      <4>1. CallWait(u) \/ WaitReturn(u)
        BY <3>4 DEF Call, UserStep, CallTrans, CallCancel, LockWoken, LockRetry, LockEnter,
           TransMerge,
                    TransSubmit, TransAbort
      <4>2. CASE CallWait(u)
        BY <1>1, <3>4, <4>2, WaitBegins, Zenon
      <4>3. CASE WaitReturn(u)
        <5>1. waits' = [waits EXCEPT ![u] = NoWait]
          BY <4>3 DEF WaitReturn
        <5>2. waits'[u] = NoWait /\ \A k \in Users : k # u => waits'[k] = waits[k]
          BY <1>1, <5>1, Threads
        <5>3. waits'[v].before = {}
          BY <3>4, <5>2 DEF NoWait
        <5>4. QED
          BY <5>3 DEF Drained
      <4>4. QED
        BY <4>1, <4>2, <4>3
    <3>5. QED
      BY <1>2, <3>2, <3>3, <3>4
  <2>2. QED
    BY <2>1 DEF WaitsOK
<1>7. QED
  BY <1>4, <1>5, <1>6 DEF SInv

(* SInv holds initially. *)
LEMMA LineInit ==
  ASSUME Init
  PROVE  SInv
<1>1. /\ d.idx[0] = 0 /\ d.idx[1] = 0 /\ d.idx[4] = 0
      /\ waits = [u \in Users |-> NoWait]
  BY DEF Init
<1>2. /\ \A u \in Users : pc[u] = "idle"
      /\ \A a \in Arbiters : pc[a] = "start"
  BY IoQueueAssumption DEF Init
<1>3. "start" \notin AtArbiter /\ "idle" # "stuck"
  BY DEF AtArbiter
<1>4. Positions(d) = {}
  BY <1>1 DEF Positions
<1>5. InLine
  BY <1>1, <1>2, <1>3, <1>4, Zenon DEF InLine, head, locked_head
<1>6. AbortOnlyOnError
  BY <1>2, <1>3, Zenon DEF AbortOnlyOnError
<1>7. WaitsOK
  BY <1>1 DEF WaitsOK, Drained, NoWait
<1>8. QED
  BY <1>5, <1>6, <1>7 DEF SInv

(* Every step keeps SInv. *)
LEMMA LineNext ==
  ASSUME NoUrgent, OneArbiter, IInv, SInv, [Next]_vars
  PROVE  SInv'
<1>1. CASE UNCHANGED vars
  <2>1. d' = d /\ holder' = holder /\ pc' = pc /\ arg' = arg /\ place' = place /\ waits' = waits
    BY <1>1 DEF vars
  <2>2. InLine' /\ AbortOnlyOnError' /\ WaitsOK'
    BY <2>1 DEF SInv, InLine, AbortOnlyOnError, WaitsOK, Drained
  <2>3. QED
    BY <2>2 DEF SInv
<1>2. QED
  BY <1>1, UserKeepsLine, ArbiterKeepsLine, Zenon DEF Next

(* The data of the io_queue keeps its types, and the freelist never gets   *)
(* more than all blocks, for any number of users and arbiters (TypeOK).    *)
THEOREM TypeCorrect ==
  ASSUME NoUrgent
  PROVE  Spec => []TypeOK
<1>1. Spec => []IInv
  BY Invariance
<1>2. IInv => TypeOK
  BY TypeFollows
<1>3. QED
  BY <1>1, <1>2, PTL

(* No request that $trans queued is lost or queued twice by the moves of   *)
(* make_valid, insertrequest and delete, and every other request block is  *)
(* free, for any number of arbiters (RequestsAccounted).                   *)
THEOREM NoRequestLost ==
  ASSUME NoUrgent
  PROVE  Spec => []RequestsAccounted
<1>1. Spec => []IInv
  BY Invariance
<1>2. IInv => RequestsAccounted
  BY AccountsFollow
<1>3. QED
  BY <1>1, <1>2, PTL

(* The waiting lists of writers and arbiters agree with the indices of the *)
(* queue, so an arbiter that $gadr lets in finds a request at head,        *)
(* although tickets are drawn and requests are taken in different steps    *)
(* (TicketsMatchQueue).                                                    *)
THEOREM TicketsAgree ==
  ASSUME NoUrgent
  PROVE  Spec => []TicketsMatchQueue
<1>1. Spec => []IInv
  BY Invariance
<1>2. IInv => TicketsMatchQueue
  BY TicketsFollow
<1>3. QED
  BY <1>1, <1>2, PTL

(* The elevator's search keeps the order: normal requests come before      *)
(* background ones and are sorted by log_addr, whatever is inserted while  *)
(* others are taken (NormalSorted).                                        *)
THEOREM QueueSorted ==
  ASSUME NoUrgent
  PROVE  Spec => []NormalSorted
<1>1. Spec => []IInv
  BY Invariance
<1>2. IInv => NormalSorted
  BY OrderFollows
<1>3. QED
  BY <1>1, <1>2, PTL

(* IInv and SInv always hold, if there is one arbiter. *)
LEMMA LineInvariance ==
  ASSUME NoUrgent, OneArbiter
  PROVE  Spec => [](IInv /\ SInv)
<1>1. Init => IInv /\ SInv
  BY InitOK, LineInit
<1>2. IInv /\ SInv /\ [Next]_vars => (IInv /\ SInv)'
  BY NextOK, LineNext
<1>3. QED
  BY <1>1, <1>2, PTL DEF Spec

(* With one arbiter $trans gives up with lock[3] held only in the error    *)
(* state: the search never meets an empty entry (AbortOnlyOnError).        *)
THEOREM NoFalseAbort ==
  ASSUME NoUrgent, OneArbiter
  PROVE  Spec => []AbortOnlyOnError
<1>1. Spec => [](IInv /\ SInv)
  BY LineInvariance
<1>2. SInv => AbortOnlyOnError
  BY DEF SInv
<1>3. QED
  BY <1>1, <1>2, PTL

(* With one arbiter $wait, which waits for the last request of the queue   *)
(* only, returns success only when all requests submitted before it were   *)
(* processed, whatever was inserted before that one since (WaitDrains).    *)
THEOREM WaitReturnsDrained ==
  ASSUME NoUrgent, OneArbiter
  PROVE  Spec => WaitDrains
<1>1. Spec => [](IInv /\ SInv)
  BY LineInvariance
<1>2. SInv /\ [Next]_vars =>
        [\A u \in Users : WaitReturn(u) /\ ~d.error_state => waits[u].before \subseteq d.done]_vars
  <2>1. ASSUME SInv, NEW u \in Users, WaitReturn(u), ~d.error_state
        PROVE  waits[u].before \subseteq d.done
    <3>1. waits[u].ids \subseteq d.done
      BY <2>1 DEF WaitReturn
    <3>2. Drained(u)
      BY <2>1, Zenon DEF SInv, WaitsOK
    <3>3. QED
      BY <3>1, <3>2 DEF Drained
  <2>2. QED
    BY <2>1
<1>3. QED
  BY <1>1, <1>2, PTL DEF Spec, WaitDrains
==============================================================================
