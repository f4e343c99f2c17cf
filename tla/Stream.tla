------------------------------- MODULE Stream -------------------------------
(***************************************************************************)
(* What a pipe promises to its two users: a bounded first-in first-out     *)
(* stream.  The n-th unit carries the tag n % Tags, so that a lost,        *)
(* repeated, stale or overtaken unit is seen as a wrong tag.               *)
(*                                                                         *)
(* $create puts units into the stream, whether the writer's user has       *)
(* written them yet or not: it may write before $create, after it (as      *)
(* $gadrcreate makes it do), or partly each.  A unit that is in the stream *)
(* but not written is Blank, and the reader may take it so.  Blanks are    *)
(* the last units of the stream, they are written in order, and no further *)
(* units are put before.                                                   *)
(***************************************************************************)
EXTENDS Integers, SequencesExt

CONSTANTS
  Capacity,   \* how many units the stream holds at most
  Tags        \* the number of tags; more than Capacity

VARIABLES
  content,    \* the units put and not yet taken, oldest first
  sent        \* the tag of the next unit to be put

vars == <<content, sent>>

Blank == Tags

Init == content = << >> /\ sent = 0

(* The next k units from tag n on, of which the first w are written. *)
Units(n, k, w) == [i \in 1 .. k |-> IF i =< w THEN (n + i - 1) % Tags ELSE Blank]

Put(k, w) ==
  /\ Len(content) + k =< Capacity
  /\ \A i \in DOMAIN content : content[i] # Blank
  /\ content' = content \o Units(sent, k, w)
  /\ sent' = (sent + k) % Tags

(* The first blank unit is written: the tag it gets is that of its place.  *)
Write(i) ==
  /\ content[i] = Blank
  /\ \A j \in 1 .. (i - 1) : content[j] # Blank
  /\ content' = [content EXCEPT ![i] = (sent + Tags - (Len(content) + 1 - i)) % Tags]
  /\ UNCHANGED sent

Take(k) ==
  /\ k =< Len(content)
  /\ content' = SubSeq(content, k + 1, Len(content))
  /\ UNCHANGED sent

Next ==
  \/ \E k \in 1 .. Capacity : Take(k) \/ \E w \in 0 .. k : Put(k, w)
  \/ \E i \in DOMAIN content : Write(i)

Spec == Init /\ [][Next]_vars
==============================================================================
