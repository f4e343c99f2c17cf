------------------------------ MODULE LockList -------------------------------
(***************************************************************************)
(* The doubly linked list of active lock records that lock_mutex and       *)
(* lock_mand keep, written the same in both sources, as a sequence sorted  *)
(* by start address.                                                       *)
(***************************************************************************)
EXTENDS LockTypes, SequencesExt

First(S) == CHOOSE k \in S : \A j \in S : k =< j

(***************************************************************************)
(* find_next_lock_from: the records from position i on that overlap desc;  *)
(* the search ends at the first record that starts behind desc.            *)
(***************************************************************************)
Overlapping(l, d) == l.end > d.start /\ l.start < d.end

(* Mutant of Stops: the search ends at the start of desc. *)
StopsTooEarly(l, d) == l.end > d.start /\ l.start >= d.start

Stops(l, d) == l.end > d.start /\ l.start >= d.end

Reached(s, d, i) == {k \in i .. Len(s) : \A j \in i .. k : ~Stops(s[j], d)}

Found(s, d, i) == {k \in Reached(s, d, i) : Overlapping(s[k], d)}

(* Mutant of PlaceOf: always at the head of the list. *)
PlaceAtHead(s, l) == 1

(* In front of the first record that does not start earlier. *)
PlaceOf(s, l) == First({k \in 1 .. (Len(s) + 1) : k = Len(s) + 1 \/ s[k].start >= l.start})
InsertSorted(s, l) == InsertAt(s, PlaceOf(s, l), l)

SortedByStart(s) == \A i, j \in DOMAIN s : i < j => s[i].start =< s[j].start
==============================================================================
