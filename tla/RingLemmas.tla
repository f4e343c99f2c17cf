----------------------------- MODULE RingLemmas -----------------------------
(***************************************************************************)
(* Arithmetic of ring buffers, for the proofs about pipe and queue: the    *)
(* places of the ring and the tags of the stream are counted modulo a      *)
(* size, and every sum the bricks take the remainder of passes that size   *)
(* at most once.                                                           *)
(***************************************************************************)
EXTENDS Integers, Sequences, TLAPS

(* x % n for a sum of two numbers below n. *)
Wrap(x, n) == IF x < n THEN x ELSE x - n

(* n units of a stream with T tags, from tag r on, of which the first m    *)
(* are written and the others Blank (see Stream).                          *)
Run(r, n, m, T) == [i \in 1 .. n |-> IF i =< m THEN Wrap(r + (i - 1), T) ELSE T]

(* A sum that passes the end of a ring at most once: the remainder that    *)
(* $gadr, $create and $delete compute is a single subtraction.             *)
LEMMA ModWrap ==
  ASSUME NEW n \in Nat \ {0}, NEW x \in 0 .. (2 * n - 1)
  PROVE  x % n = Wrap(x, n)
  BY DEF Wrap

(* Two moves, the first of which may wrap around, are one move. *)
LEMMA WrapTwice ==
  ASSUME NEW n \in Nat \ {0}, NEW x \in 0 .. (n - 1), NEW j \in Nat, NEW k \in Nat,
         j + k =< n
  PROVE /\ Wrap(x + j, n) \in 0 .. (n - 1)
        /\ Wrap(Wrap(x + j, n) + k, n) = Wrap(x + (j + k), n)
  BY DEF Wrap

(* Different distances below the size lead to different places. *)
LEMMA WrapInjective ==
  ASSUME NEW n \in Nat \ {0}, NEW x \in 0 .. (n - 1),
         NEW i \in 0 .. (n - 1), NEW j \in 0 .. (n - 1), i # j
  PROVE Wrap(x + i, n) # Wrap(x + j, n)
  BY DEF Wrap

(* A run is a sequence of as many numbers. *)
LEMMA RunLength ==
  ASSUME NEW T \in Nat \ {0}, NEW r \in 0 .. (T - 1), NEW n \in 0 .. T, NEW m \in Int
  PROVE Run(r, n, m, T) \in Seq(Int) /\ Len(Run(r, n, m, T)) = n
<1>1. \A i \in 1 .. n : (IF i =< m THEN Wrap(r + (i - 1), T) ELSE T) \in Int
  BY DEF Wrap
<1> QED
  BY <1>1 DEF Run

(* Its written units are the first m. *)
LEMMA RunBlank ==
  ASSUME NEW T \in Nat \ {0}, NEW r \in 0 .. (T - 1), NEW n \in 0 .. T, NEW m \in Int,
         NEW i \in 1 .. n
  PROVE Run(r, n, m, T)[i] = T <=> i > m
<1>1. Run(r, n, m, T)[i] = IF i =< m THEN Wrap(r + (i - 1), T) ELSE T
  BY DEF Run
<1> QED
  BY <1>1 DEF Wrap

(* Taking k units away from the front. *)
LEMMA RunTaken ==
  ASSUME NEW T \in Nat \ {0}, NEW r \in 0 .. (T - 1), NEW n \in 0 .. T, NEW m \in Int,
         NEW k \in 1 .. n
  PROVE Run(Wrap(r + k, T), n - k, m - k, T) = SubSeq(Run(r, n, m, T), k + 1, n)
<1>1. Run(r, n, m, T) \in Seq(Int) /\ Len(Run(r, n, m, T)) = n
  BY RunLength
<1>2. SubSeq(Run(r, n, m, T), k + 1, n) = [i \in 1 .. (n - k) |-> Run(r, n, m, T)[i + k]]
  BY <1>1
<1>3. ASSUME NEW i \in 1 .. (n - k)
      PROVE Run(r, n, m, T)[i + k]
              = IF i =< m - k THEN Wrap(Wrap(r + k, T) + (i - 1), T) ELSE T
  <2>1. Run(r, n, m, T)[i + k] = IF i + k =< m THEN Wrap(r + ((i + k) - 1), T) ELSE T
    BY DEF Run
  <2> QED
    BY <2>1 DEF Wrap
<1> QED
  BY <1>2, <1>3 DEF Run

(* Writing the unit after the m written ones. *)
LEMMA RunWritten ==
  ASSUME NEW T \in Nat \ {0}, NEW r \in 0 .. (T - 1), NEW n \in 0 .. T, NEW m \in 0 .. (n - 1)
  PROVE Run(r, n, m + 1, T) = [Run(r, n, m, T) EXCEPT ![m + 1] = Wrap(r + m, T)]
<1>1. \A i \in 1 .. n : (i =< m + 1) <=> (i =< m \/ i = m + 1)
  OBVIOUS
<1>2. (m + 1) - 1 = m /\ ~(m + 1 =< m) /\ m + 1 \in 1 .. n
  OBVIOUS
<1> QED
  BY <1>1, <1>2 DEF Run

(* Writing changes nothing when no written unit is among the n. *)
LEMMA RunAllBlank ==
  ASSUME NEW T, NEW r, NEW n \in Nat, NEW m \in Int, m < 0
  PROVE Run(r, n, m + 1, T) = Run(r, n, m, T)
<1>1. \A i \in 1 .. n : ~(i =< m + 1) /\ ~(i =< m)
  OBVIOUS
<1> QED
  BY <1>1 DEF Run

(* Adding k units at the end, of which w are written, as Stream's Put does. *)
LEMMA RunPut ==
  ASSUME NEW T \in Nat \ {0}, NEW r \in 0 .. (T - 1), NEW n \in 0 .. T, NEW k \in 0 .. (T - n),
         NEW w \in 0 .. k
  PROVE Run(r, n + k, n + w, T)
          = Run(r, n, n, T)
              \o [i \in 1 .. k |-> IF i =< w THEN (Wrap(r + n, T) + i - 1) % T ELSE T]
<1>1. n \in Nat /\ k \in Nat /\ w \in Nat
  OBVIOUS
<1> DEFINE x == Wrap(r + n, T)
           u == Run(r, n, n, T)
           v == Run(x, k, w, T)
<1>2. x \in 0 .. (T - 1)
  BY DEF Wrap
<1>3. [i \in 1 .. k |-> IF i =< w THEN (x + i - 1) % T ELSE T] = v
  <2> SUFFICES ASSUME NEW i \in 1 .. k PROVE (x + i - 1) % T = Wrap(x + (i - 1), T)
    BY DEF Run
  <2> HIDE DEF x
  <2>1. x + (i - 1) \in 0 .. (2 * T - 1) /\ x + i - 1 = x + (i - 1)
    BY <1>1, <1>2
  <2> QED
    BY <2>1, ModWrap
<1>4. /\ u \in Seq(Int) /\ Len(u) = n
      /\ v \in Seq(Int) /\ Len(v) = k
  <2> HIDE DEF x
  <2>1. k \in 0 .. T /\ n \in Int /\ w \in Int
    OBVIOUS
  <2> QED
    BY <1>2, <2>1, RunLength
<1>5. /\ \A i \in 1 .. n : u[i] = Wrap(r + (i - 1), T)
      /\ \A i \in 1 .. k : v[i] = IF n + i =< n + w THEN Wrap(r + ((n + i) - 1), T) ELSE T
  <2>1. \A i \in 1 .. k : /\ Wrap(x + (i - 1), T) = Wrap(r + ((n + i) - 1), T)
                          /\ (i =< w <=> n + i =< n + w)
    BY DEF Wrap
  <2>2. \A i \in 1 .. n : i =< n
    OBVIOUS
  <2> QED
    BY <2>1, <2>2 DEF Run
<1> HIDE DEF u, v
<1>6. /\ u \o v \in Seq(Int) /\ Len(u \o v) = n + k
      /\ \A i \in 1 .. (n + k) : (u \o v)[i] = IF i =< n THEN u[i] ELSE v[i - n]
  BY <1>4
<1>7. ASSUME NEW i \in 1 .. (n + k)
      PROVE (u \o v)[i] = IF i =< n + w THEN Wrap(r + (i - 1), T) ELSE T
  <2>1. CASE i =< n
    <3>1. i \in 1 .. n /\ i =< n + w
      BY <1>1, <2>1
    <3>2. (u \o v)[i] = u[i]
      BY <1>6, <2>1, Zenon
    <3> QED
      BY <1>5, <3>1, <3>2, Zenon
  <2>2. CASE i > n
    <3>1. i - n \in 1 .. k /\ n + (i - n) = i /\ ~(i =< n)
      BY <2>2
    <3>2. (u \o v)[i] = v[i - n]
      BY <1>6, <3>1, Zenon
    <3>3. v[i - n] = IF n + (i - n) =< n + w THEN Wrap(r + ((n + (i - n)) - 1), T) ELSE T
      BY <1>5, <3>1, Zenon
    <3> QED
      BY <3>1, <3>2, <3>3, Zenon
  <2>3. i =< n \/ i > n
    BY <1>1
  <2> QED
    BY <2>1, <2>2, <2>3, Zenon
<1>8. u \o v = Run(r, n + k, n + w, T)
  <2>1. \A q \in Seq(Int) : q = [i \in 1 .. Len(q) |-> q[i]]
    OBVIOUS
  <2>2. u \o v = [i \in 1 .. (n + k) |-> (u \o v)[i]]
    BY <1>6, <2>1, Zenon
  <2> QED
    BY <1>7, <2>2, Zenon DEF Run
<1> QED
  BY <1>3, <1>8 DEF u, x

==============================================================================
