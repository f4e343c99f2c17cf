----------------------------- MODULE PipeProofs -----------------------------
(***************************************************************************)
(* Proofs about Pipe, for any length of the buffer and any lengths asked   *)
(* for: the safety invariants and the action property the runs check, and  *)
(* that the pipe implements a bounded stream.                              *)
(*                                                                         *)
(* All rest on one inductive invariant, IInv.  Its centre is that $delete, *)
(* which moves avail_start and avail_len one after the other, never moves  *)
(* the writer's border: while it is between the two assignments, the       *)
(* length that counts is the one it is about to store (Avail).  With it,   *)
(* a region that was handed out stays where the code will use it           *)
(* (RegionsOK), the tags in the buffer stay the stream (DataOK), and a     *)
(* sleeper keeps its reason (WaitsOK): the other side can only make room   *)
(* from "delete" or "padr", from where a wakeup is still to come.          *)
(*                                                                         *)
(* Every action has a lemma, and the lemma one step per part of IInv.      *)
(***************************************************************************)
EXTENDS Pipe, RingLemmas

------------------------------------------------------------------------------
(* What is available to the reader while $delete is between its two        *)
(* assignments, and the writer's border, which $delete does not move.      *)
Avail == IF pc[reader] = "delete" THEN avail_len - region[reader].len ELSE avail_len
Border == Wrap(avail_start + Avail, BUFSIZE)

(* LOCK_ADDR_MOD is held by the side that is between the check of $gadr    *)
(* and its wait, or between the two assignments of $delete, and by one.    *)
LocksOK ==
  /\ \A s \in Sides : s \in mod <=> pc[s] \in {"release", "delete"}
  /\ ~(reader \in mod /\ writer \in mod)

(* Only the reader deletes, only the writer creates, and nothing is        *)
(* written but in a region.                                                *)
PlacesOK ==
  /\ pc[writer] # "delete" /\ pc[reader] \notin {"check", "create"}
  /\ pc[writer] \notin {"have", "check", "create", "padr"} => written = 0

(* A region handed out does not pass the end of the buffer.  The reader's  *)
(* starts at avail_start and is available; the writer's starts at the      *)
(* border and is free, and once it is created the border is at its end.    *)
RegionsOK ==
  /\ \A s \in Sides : region[s].addr + region[s].len =< BUFSIZE
  /\ pc[reader] = "have" => /\ region[reader].addr = avail_start
                            /\ region[reader].len =< avail_len
  /\ pc[reader] = "delete" => region[reader].len \in 1 .. avail_len
  /\ pc[writer] \in {"have", "check", "create"} =>
       /\ region[writer].addr = Border
       /\ region[writer].len =< BUFSIZE - avail_len
  /\ pc[writer] = "padr" => Wrap(region[writer].addr + region[writer].len, BUFSIZE) = Border
  /\ written =< region[writer].len

(* The available units are the next ones of the stream, from the reader's  *)
(* tag up to the writer's; all of them are written but the last Unwritten, *)
(* which the writer still owes.  What it has written of a region that is   *)
(* not created yet are the units after them.                               *)
DataOK ==
  /\ sent = Wrap(rcvd + Avail, Tags)
  /\ \A i \in 0 .. (Avail - Unwritten - 1) :
       buf[Wrap(avail_start + i, BUFSIZE)] = Wrap(rcvd + i, Tags)
  /\ pc[writer] \in {"have", "check", "create"} =>
       \A i \in 0 .. (written - 1) :
         buf[region[writer].addr + i] = Wrap(sent + i, Tags)

(* Who decides to wait does so for a reason, and keeps it until the other  *)
(* side is on its way to a wakeup.  It waits for a length that fits before *)
(* the end of the buffer: else no step of the other side could serve it.   *)
WaitsOK ==
  /\ \A s \in Sides : pc[s] = "release" => TooShort(s)
  /\ \A s \in Sides : Asleep(s) => TooShort(s) \/ OwesWakeup(Other(s))
  /\ pc[reader] \in {"release", "wait", "again"} => req[reader].len =< BUFSIZE - avail_start
  /\ pc[writer] \in {"release", "wait", "again"} => req[writer].len =< BUFSIZE - Border

(* The inductive invariant. *)
IInv == TypeOK /\ LocksOK /\ PlacesOK /\ RegionsOK /\ DataOK /\ WaitsOK

------------------------------------------------------------------------------
(* The arguments of a $gadr, and the region it returns. *)
RequestSet == [len : Lens \cup {0}, try : TryLens \cup {0}, action : action_t]
RegionSet == [addr : Offsets, len : 0 .. BUFSIZE]

(* The parts of the type invariant as the steps below need them. *)
LEMMA Typed ==
  ASSUME TypeOK
  PROVE /\ BUFSIZE \in Nat \ {0} /\ Tags \in Nat \ {0}
        /\ avail_start \in Nat /\ avail_start < BUFSIZE
        /\ avail_len \in Nat /\ avail_len =< BUFSIZE
        /\ sent \in Nat /\ sent < Tags /\ rcvd \in Nat /\ rcvd < Tags
        /\ req \in [Sides -> RequestSet] /\ region \in [Sides -> RegionSet]
        /\ reader \in Sides /\ writer \in Sides
        /\ \A s \in Sides : /\ region[s].addr \in Nat /\ region[s].len \in Nat
                            /\ region[s].addr < BUFSIZE /\ region[s].len =< BUFSIZE
                            /\ req[s].len \in Nat /\ req[s].try \in Nat
<1>1. /\ BUFSIZE \in Nat \ {0} /\ Tags \in Nat \ {0}
      /\ avail_start \in Nat /\ avail_start < BUFSIZE
      /\ avail_len \in Nat /\ avail_len =< BUFSIZE
      /\ sent \in Nat /\ sent < Tags /\ rcvd \in Nat /\ rcvd < Tags
      /\ reader \in Sides /\ writer \in Sides
  BY PipeAssumption DEF TypeOK, Offsets, Tags, Sides
<1>2. req \in [Sides -> RequestSet] /\ region \in [Sides -> RegionSet]
  BY DEF TypeOK, RequestSet, RegionSet
<1>3. ASSUME NEW s \in Sides
      PROVE  /\ region[s].addr \in Nat /\ region[s].len \in Nat
             /\ region[s].addr < BUFSIZE /\ region[s].len =< BUFSIZE
             /\ req[s].len \in Nat /\ req[s].try \in Nat
  <2>1. req[s] \in RequestSet /\ region[s] \in RegionSet
    BY <1>2
  <2>2. region[s].addr \in Offsets /\ region[s].len \in 0 .. BUFSIZE
    BY <2>1 DEF RegionSet
  <2>3. req[s].len \in Lens \cup {0} /\ req[s].try \in TryLens \cup {0}
    BY <2>1 DEF RequestSet
  <2>4. req[s].len \in Nat /\ req[s].try \in Nat
    <3>1. Lens \cup {0} \subseteq Nat /\ TryLens \cup {0} \subseteq Nat
      BY PipeAssumption
    <3>2. req[s].len \in Nat
      BY <2>3, <3>1
    <3>3. req[s].try \in Nat
      BY <2>3, <3>1
    <3> QED
      BY <3>2, <3>3
  <2> QED
    BY <2>2, <2>4, PipeAssumption DEF Offsets
<1> QED
  BY <1>1, <1>2, <1>3

(* The values the arguments and the region of a side return to. *)
LEMMA EmptyTyped == NoReq \in RequestSet /\ NoRegion \in RegionSet
  BY PipeAssumption DEF NoReq, NoRegion, RequestSet, RegionSet, Offsets, action_t

(* The border $gadr computes for the reader is avail_start, for the writer *)
(* it is the end of what is available.                                     *)
LEMMA StartFacts ==
  ASSUME TypeOK
  PROVE Start(reader) = avail_start /\ Start(writer) = Wrap(avail_start + avail_len, BUFSIZE)
<1>1. avail_start + avail_len \in 0 .. (2 * BUFSIZE - 1) /\ BUFSIZE \in Nat \ {0}
  BY Typed
<1>2. writer_start = Wrap(avail_start + avail_len, BUFSIZE)
  BY <1>1, ModWrap DEF writer_start
<1> QED
  BY <1>2 DEF Start, reader, writer

(* The region $gadr finds lies in the buffer and in what there is. *)
LEMMA BlockFacts ==
  ASSUME TypeOK, NEW s \in Sides
  PROVE /\ Start(s) \in Offsets
        /\ block_avail(s) \in 0 .. BUFSIZE
        /\ Start(s) + block_avail(s) =< BUFSIZE
        /\ block_avail(s) =< Room(s)
        /\ Granted(s) \in 0 .. block_avail(s)
<1>1. /\ BUFSIZE \in Nat \ {0}
      /\ avail_start \in Nat /\ avail_start < BUFSIZE
      /\ avail_len \in Nat /\ avail_len =< BUFSIZE
      /\ req[s].len \in Nat /\ req[s].try \in Nat
  BY Typed
<1>2. Start(s) \in Offsets
  BY <1>1, StartFacts DEF Sides, Wrap, Offsets
<1>3. Room(s) \in 0 .. BUFSIZE
  BY <1>1 DEF Room
<1>4. /\ block_avail(s) \in 0 .. BUFSIZE
      /\ Start(s) + block_avail(s) =< BUFSIZE
      /\ block_avail(s) =< Room(s)
  BY <1>1, <1>2, <1>3 DEF block_avail, Least, Offsets
<1>5. Granted(s) \in 0 .. block_avail(s)
  BY <1>1, <1>4 DEF Granted, Least, Greatest
<1> QED
  BY <1>2, <1>4, <1>5

(* What the writer owes is part of its region. *)
LEMMA UnwrittenFacts ==
  ASSUME TypeOK, RegionsOK
  PROVE  /\ Unwritten \in 0 .. region[writer].len
         /\ written \in 0 .. region[writer].len
         /\ pc[writer] # "padr" => Unwritten = 0
  BY Typed DEF TypeOK, RegionsOK, Unwritten

(* A step that leaves the status alone, and lets nobody wait who did not.  *)
LEMMA WaitsKept ==
  ASSUME WaitsOK, UNCHANGED status, Avail' = Avail,
         \A s \in Sides :
           /\ pc'[s] \in {"release", "wait", "again"} =>
                pc[s] \in {"release", "wait", "again"} /\ req'[s] = req[s]
           /\ pc'[s] = "release" => pc[s] = "release"
           /\ Asleep(s)' => Asleep(s) \/ pc[s] = "release"
           /\ Asleep(s)' /\ OwesWakeup(Other(s)) => OwesWakeup(Other(s))'
  PROVE WaitsOK'
<1>1. ASSUME NEW s \in Sides, req'[s] = req[s]
      PROVE TooShort(s)' = TooShort(s)
  BY <1>1 DEF TooShort, block_avail, Start, Room, Least, writer_start, status
<1>2. Border' = Border /\ avail_start' = avail_start
  BY DEF Border, status
<1>3. ASSUME NEW s \in Sides, pc'[s] = "release"
      PROVE TooShort(s)'
  BY <1>1, <1>3 DEF WaitsOK
<1>4. ASSUME NEW s \in Sides, Asleep(s)'
      PROVE TooShort(s)' \/ OwesWakeup(Other(s))'
  <2>1. req'[s] = req[s]
    BY <1>4 DEF Asleep
  <2> QED
    BY <1>1, <1>4, <2>1 DEF WaitsOK
<1>5. pc'[reader] \in {"release", "wait", "again"} => req'[reader].len =< BUFSIZE - avail_start'
  BY <1>2 DEF WaitsOK, Sides
<1>6. pc'[writer] \in {"release", "wait", "again"} => req'[writer].len =< BUFSIZE - Border'
  BY <1>2 DEF WaitsOK, Sides
<1> QED
  BY <1>3, <1>4, <1>5, <1>6 DEF WaitsOK

(* A user calls $gadr: only its own arguments and its place change. *)
LEMMA CallGadrPreserves ==
  ASSUME IInv, NEW s \in Sides, NEW l \in Lens, NEW y \in TryLens, NEW a \in action_t,
         CallGadr(s, l, y, a)
  PROVE IInv'
<1>1. TypeOK'
  BY Typed, EmptyTyped DEF IInv, TypeOK, Goto, RequestSet, RegionSet, Sides, reader,
     writer, status, locks, calls, stream, CallGadr
<1>2. LocksOK'
  BY DEF IInv, TypeOK, LocksOK, PlacesOK, Goto, Locked, Sides, reader, writer, locks,
     CallGadr
<1>3. PlacesOK'
  BY DEF IInv, TypeOK, PlacesOK, Goto, Locked, Sides, reader, writer, CallGadr
<1>4. RegionsOK'
  BY PipeAssumption DEF IInv, RegionsOK, Avail, Border, Goto, Locked, TypeOK, PlacesOK,
     LocksOK, Sides, reader, writer, status, CallGadr
<1>5. DataOK'
  BY DEF IInv, DataOK, Avail, Unwritten, Goto, Locked, TypeOK, LocksOK, PlacesOK, Sides, reader,
     writer, status, stream, CallGadr
<1>6. WaitsOK'
  <2>1. UNCHANGED status /\ Avail' = Avail
    BY DEF IInv, TypeOK, LocksOK, PlacesOK, Avail, Locked, Goto, Sides, reader, writer,
       status, locks, CallGadr
  <2>2. \A t \in Sides :
          /\ pc'[t] \in {"release", "wait", "again"} =>
               pc[t] \in {"release", "wait", "again"} /\ req'[t] = req[t]
          /\ pc'[t] = "release" => pc[t] = "release"
          /\ Asleep(t)' => Asleep(t) \/ pc[t] = "release"
          /\ Asleep(t)' /\ OwesWakeup(Other(t)) => OwesWakeup(Other(t))'
    BY Typed DEF IInv, TypeOK, PlacesOK, Asleep, OwesWakeup, Other, Goto, Locked, Sides,
       reader, writer, locks, CallGadr
  <2> QED
    BY <2>1, <2>2, WaitsKept DEF IInv
<1> QED
  BY <1>1, <1>2, <1>3, <1>4, <1>5, <1>6 DEF IInv

(* $gadr gives up, with action_try or because the length will never fit:   *)
(* the side is idle again.                                                 *)
LEMMA GadrRefusedPreserves ==
  ASSUME IInv, NEW s \in Sides, GadrRefused(s)
  PROVE IInv'
<1>1. TypeOK'
  BY Typed, EmptyTyped DEF IInv, TypeOK, Goto, RequestSet, RegionSet, Sides, reader,
     writer, status, locks, calls, stream, GadrRefused
<1>2. LocksOK'
  BY DEF IInv, TypeOK, LocksOK, PlacesOK, Goto, Locked, Sides, reader, writer, locks,
     GadrRefused
<1>3. PlacesOK'
  BY DEF IInv, TypeOK, PlacesOK, Goto, Locked, Sides, reader, writer, GadrRefused
<1>4. RegionsOK'
  BY PipeAssumption DEF IInv, RegionsOK, Avail, Border, Goto, Locked, TypeOK, PlacesOK,
     LocksOK, Sides, reader, writer, status, GadrRefused, NoRegion
<1>5. DataOK'
  BY DEF IInv, DataOK, Avail, Unwritten, Goto, Locked, TypeOK, LocksOK, PlacesOK, Sides, reader,
     writer, status, stream, GadrRefused, NoRegion
<1>6. WaitsOK'
  <2>1. UNCHANGED status /\ Avail' = Avail
    BY DEF IInv, TypeOK, LocksOK, PlacesOK, Avail, Locked, Goto, Sides, reader, writer,
       status, locks, GadrRefused
  <2>2. \A t \in Sides :
          /\ pc'[t] \in {"release", "wait", "again"} =>
               pc[t] \in {"release", "wait", "again"} /\ req'[t] = req[t]
          /\ pc'[t] = "release" => pc[t] = "release"
          /\ Asleep(t)' => Asleep(t) \/ pc[t] = "release"
          /\ Asleep(t)' /\ OwesWakeup(Other(t)) => OwesWakeup(Other(t))'
    BY Typed DEF IInv, TypeOK, PlacesOK, Asleep, OwesWakeup, Other, Goto, Locked, Sides,
       reader, writer, locks, GadrRefused, NoReq
  <2> QED
    BY <2>1, <2>2, WaitsKept DEF IInv
<1> QED
  BY <1>1, <1>2, <1>3, <1>4, <1>5, <1>6 DEF IInv

(* The waiter releases LOCK_ADDR_MOD, and its reason still stands: nobody  *)
(* else could move the status while it held the lock.                      *)
LEMMA GadrReleasePreserves ==
  ASSUME IInv, NEW s \in Sides, GadrRelease(s)
  PROVE IInv'
<1>1. TypeOK'
  BY Typed, EmptyTyped DEF IInv, TypeOK, Goto, RequestSet, RegionSet, Sides, reader,
     writer, status, locks, calls, stream, GadrRelease
<1>2. LocksOK'
  BY DEF IInv, TypeOK, LocksOK, PlacesOK, Goto, Locked, Sides, reader, writer, locks,
     GadrRelease
<1>3. PlacesOK'
  BY DEF IInv, TypeOK, PlacesOK, Goto, Locked, Sides, reader, writer, GadrRelease
<1>4. RegionsOK'
  BY PipeAssumption DEF IInv, RegionsOK, Avail, Border, Goto, Locked, TypeOK, PlacesOK,
     LocksOK, Sides, reader, writer, status, GadrRelease, NoRegion
<1>5. DataOK'
  BY DEF IInv, DataOK, Avail, Unwritten, Goto, Locked, TypeOK, LocksOK, PlacesOK, Sides, reader,
     writer, status, stream, GadrRelease, NoRegion
<1>6. WaitsOK'
  <2>1. UNCHANGED status /\ Avail' = Avail
    BY DEF IInv, TypeOK, LocksOK, PlacesOK, Avail, Locked, Goto, Sides, reader, writer,
       status, locks, GadrRelease
  <2>2. \A t \in Sides :
          /\ pc'[t] \in {"release", "wait", "again"} =>
               pc[t] \in {"release", "wait", "again"} /\ req'[t] = req[t]
          /\ pc'[t] = "release" => pc[t] = "release"
          /\ Asleep(t)' => Asleep(t) \/ pc[t] = "release"
          /\ Asleep(t)' /\ OwesWakeup(Other(t)) => OwesWakeup(Other(t))'
    BY Typed DEF IInv, TypeOK, PlacesOK, Asleep, OwesWakeup, Other, Goto, Locked, Sides,
       reader, writer, locks, GadrRelease, NoReq
  <2> QED
    BY <2>1, <2>2, WaitsKept DEF IInv
<1> QED
  BY <1>1, <1>2, <1>3, <1>4, <1>5, <1>6 DEF IInv

(* The waiter finds its wait lock free, and will look at the status again. *)
LEMMA GadrWokenPreserves ==
  ASSUME IInv, NEW s \in Sides, GadrWoken(s)
  PROVE IInv'
<1>1. TypeOK'
  BY Typed, EmptyTyped DEF IInv, TypeOK, Goto, RequestSet, RegionSet, Sides, reader,
     writer, status, locks, calls, stream, GadrWoken
<1>2. LocksOK'
  BY DEF IInv, TypeOK, LocksOK, PlacesOK, Goto, Locked, Sides, reader, writer, locks,
     GadrWoken
<1>3. PlacesOK'
  BY DEF IInv, TypeOK, PlacesOK, Goto, Locked, Sides, reader, writer, GadrWoken
<1>4. RegionsOK'
  BY PipeAssumption DEF IInv, RegionsOK, Avail, Border, Goto, Locked, TypeOK, PlacesOK,
     LocksOK, Sides, reader, writer, status, GadrWoken, NoRegion
<1>5. DataOK'
  BY DEF IInv, DataOK, Avail, Unwritten, Goto, Locked, TypeOK, LocksOK, PlacesOK, Sides, reader,
     writer, status, stream, GadrWoken, NoRegion
<1>6. WaitsOK'
  <2>1. UNCHANGED status /\ Avail' = Avail
    BY DEF IInv, TypeOK, LocksOK, PlacesOK, Avail, Locked, Goto, Sides, reader, writer,
       status, locks, GadrWoken
  <2>2. \A t \in Sides :
          /\ pc'[t] \in {"release", "wait", "again"} =>
               pc[t] \in {"release", "wait", "again"} /\ req'[t] = req[t]
          /\ pc'[t] = "release" => pc[t] = "release"
          /\ Asleep(t)' => Asleep(t) \/ pc[t] = "release"
          /\ Asleep(t)' /\ OwesWakeup(Other(t)) => OwesWakeup(Other(t))'
    BY Typed DEF IInv, TypeOK, PlacesOK, Asleep, OwesWakeup, Other, Goto, Locked, Sides,
       reader, writer, locks, GadrWoken, NoReq
  <2> QED
    BY <2>1, <2>2, WaitsKept DEF IInv
<1> QED
  BY <1>1, <1>2, <1>3, <1>4, <1>5, <1>6 DEF IInv

(* $padr releases the other side's wait lock: a sleeper of the other side  *)
(* is no longer asleep, so it needs no reason any more.                    *)
LEMMA PadrPreserves ==
  ASSUME IInv, NEW s \in Sides, padr(s)
  PROVE IInv'
<1>1. TypeOK'
  <2>1. written' \in 0 .. BUFSIZE
    BY PipeAssumption DEF IInv, TypeOK, padr
  <2>2. region' \in [Sides -> RegionSet] /\ pc' = [pc EXCEPT ![s] = "idle"]
    BY Typed, EmptyTyped DEF IInv, padr, Goto
  <2> QED
    BY <2>1, <2>2, Typed DEF IInv, TypeOK, RegionSet, Sides, reader, writer, status, locks,
       stream, padr
<1>2. LocksOK'
  BY DEF IInv, TypeOK, LocksOK, PlacesOK, Goto, Locked, Sides, reader, writer, locks, padr
<1>3. PlacesOK'
  BY DEF IInv, TypeOK, PlacesOK, Goto, Locked, Sides, reader, writer, padr
<1>4. RegionsOK'
  BY PipeAssumption DEF IInv, RegionsOK, Avail, Border, Goto, Locked, TypeOK, PlacesOK,
     LocksOK, Sides, reader, writer, status, padr, NoRegion
<1>5. DataOK'
  BY DEF IInv, DataOK, Avail, Unwritten, Goto, Locked, TypeOK, LocksOK, PlacesOK, Sides, reader,
     writer, status, stream, padr, NoRegion
<1>6. WaitsOK'
  <2>1. UNCHANGED status /\ Avail' = Avail
    BY DEF IInv, TypeOK, LocksOK, PlacesOK, Avail, Locked, Goto, Sides, reader, writer,
       status, locks, padr
  <2>2. \A t \in Sides :
          /\ pc'[t] \in {"release", "wait", "again"} =>
               pc[t] \in {"release", "wait", "again"} /\ req'[t] = req[t]
          /\ pc'[t] = "release" => pc[t] = "release"
          /\ Asleep(t)' => Asleep(t) \/ pc[t] = "release"
          /\ Asleep(t)' /\ OwesWakeup(Other(t)) => OwesWakeup(Other(t))'
    BY Typed DEF IInv, TypeOK, PlacesOK, Asleep, OwesWakeup, Other, Goto, Locked, Sides,
       reader, writer, locks, padr, NoReq
  <2> QED
    BY <2>1, <2>2, WaitsKept DEF IInv
<1> QED
  BY <1>1, <1>2, <1>3, <1>4, <1>5, <1>6 DEF IInv

(* $delete of a wrong address or length returns without a change of the    *)
(* status.                                                                 *)
LEMMA DeleteRefusedPreserves ==
  ASSUME IInv, NEW a \in Offsets, DeleteRefused(a)
  PROVE IInv'
<1>1. TypeOK'
  BY Typed, EmptyTyped DEF IInv, TypeOK, Goto, RequestSet, RegionSet, Sides, reader,
     writer, status, locks, calls, stream, DeleteRefused
<1>2. LocksOK'
  BY DEF IInv, TypeOK, LocksOK, PlacesOK, Goto, Locked, Sides, reader, writer, locks,
     DeleteRefused
<1>3. PlacesOK'
  BY DEF IInv, TypeOK, PlacesOK, Goto, Locked, Sides, reader, writer, DeleteRefused
<1>4. RegionsOK'
  BY PipeAssumption DEF IInv, RegionsOK, Avail, Border, Goto, Locked, TypeOK, PlacesOK,
     LocksOK, Sides, reader, writer, status, DeleteRefused, NoRegion
<1>5. DataOK'
  BY DEF IInv, DataOK, Avail, Unwritten, Goto, Locked, TypeOK, LocksOK, PlacesOK, Sides, reader,
     writer, status, stream, DeleteRefused, NoRegion
<1>6. WaitsOK'
  <2>1. UNCHANGED status /\ Avail' = Avail
    BY DEF IInv, TypeOK, LocksOK, PlacesOK, Avail, Locked, Goto, Sides, reader, writer,
       status, locks, DeleteRefused
  <2>2. \A t \in Sides :
          /\ pc'[t] \in {"release", "wait", "again"} =>
               pc[t] \in {"release", "wait", "again"} /\ req'[t] = req[t]
          /\ pc'[t] = "release" => pc[t] = "release"
          /\ Asleep(t)' => Asleep(t) \/ pc[t] = "release"
          /\ Asleep(t)' /\ OwesWakeup(Other(t)) => OwesWakeup(Other(t))'
    BY Typed DEF IInv, TypeOK, PlacesOK, Asleep, OwesWakeup, Other, Goto, Locked, Sides,
       reader, writer, locks, DeleteRefused, NoReq
  <2> QED
    BY <2>1, <2>2, WaitsKept DEF IInv
<1> QED
  BY <1>1, <1>2, <1>3, <1>4, <1>5, <1>6 DEF IInv

(* $create reads avail_start for its check. *)
LEMMA CreateReadPreserves ==
  ASSUME IInv, CreateRead
  PROVE IInv'
<1>1. TypeOK'
  BY Typed, EmptyTyped DEF IInv, TypeOK, Goto, RequestSet, RegionSet, Sides, reader,
     writer, status, locks, calls, stream, CreateRead
<1>2. LocksOK'
  BY DEF IInv, TypeOK, LocksOK, PlacesOK, Goto, Locked, Sides, reader, writer, locks,
     CreateRead
<1>3. PlacesOK'
  BY DEF IInv, TypeOK, PlacesOK, Goto, Locked, Sides, reader, writer, CreateRead
<1>4. RegionsOK'
  BY PipeAssumption DEF IInv, RegionsOK, Avail, Border, Goto, Locked, TypeOK, PlacesOK,
     LocksOK, Sides, reader, writer, status, CreateRead, NoRegion
<1>5. DataOK'
  BY DEF IInv, DataOK, Avail, Unwritten, Goto, Locked, TypeOK, LocksOK, PlacesOK, Sides, reader,
     writer, status, stream, CreateRead, NoRegion
<1>6. WaitsOK'
  <2>1. UNCHANGED status /\ Avail' = Avail
    BY DEF IInv, TypeOK, LocksOK, PlacesOK, Avail, Locked, Goto, Sides, reader, writer,
       status, locks, CreateRead
  <2>2. \A t \in Sides :
          /\ pc'[t] \in {"release", "wait", "again"} =>
               pc[t] \in {"release", "wait", "again"} /\ req'[t] = req[t]
          /\ pc'[t] = "release" => pc[t] = "release"
          /\ Asleep(t)' => Asleep(t) \/ pc[t] = "release"
          /\ Asleep(t)' /\ OwesWakeup(Other(t)) => OwesWakeup(Other(t))'
    BY Typed DEF IInv, TypeOK, PlacesOK, Asleep, OwesWakeup, Other, Goto, Locked, Sides,
       reader, writer, locks, CreateRead, NoReq
  <2> QED
    BY <2>1, <2>2, WaitsKept DEF IInv
<1> QED
  BY <1>1, <1>2, <1>3, <1>4, <1>5, <1>6 DEF IInv

(* $create finds its address at the border it computed. *)
LEMMA CreateCheckedPreserves ==
  ASSUME IInv, CreateChecked
  PROVE IInv'
<1>1. TypeOK'
  <2>1. seen' \in Offsets
    BY PipeAssumption DEF Offsets, CreateChecked
  <2> QED
    BY <2>1, Typed, EmptyTyped DEF IInv, TypeOK, Goto, RegionSet, Sides, reader, writer,
       status, locks, stream, CreateChecked
<1>2. LocksOK'
  BY DEF IInv, TypeOK, LocksOK, PlacesOK, Goto, Locked, Sides, reader, writer, locks,
     CreateChecked
<1>3. PlacesOK'
  BY DEF IInv, TypeOK, PlacesOK, Goto, Locked, Sides, reader, writer, CreateChecked
<1>4. RegionsOK'
  BY PipeAssumption DEF IInv, RegionsOK, Avail, Border, Goto, Locked, TypeOK, PlacesOK,
     LocksOK, Sides, reader, writer, status, CreateChecked, NoRegion
<1>5. DataOK'
  BY DEF IInv, DataOK, Avail, Unwritten, Goto, Locked, TypeOK, LocksOK, PlacesOK, Sides, reader,
     writer, status, stream, CreateChecked, NoRegion
<1>6. WaitsOK'
  <2>1. UNCHANGED status /\ Avail' = Avail
    BY DEF IInv, TypeOK, LocksOK, PlacesOK, Avail, Locked, Goto, Sides, reader, writer,
       status, locks, CreateChecked
  <2>2. \A t \in Sides :
          /\ pc'[t] \in {"release", "wait", "again"} =>
               pc[t] \in {"release", "wait", "again"} /\ req'[t] = req[t]
          /\ pc'[t] = "release" => pc[t] = "release"
          /\ Asleep(t)' => Asleep(t) \/ pc[t] = "release"
          /\ Asleep(t)' /\ OwesWakeup(Other(t)) => OwesWakeup(Other(t))'
    BY Typed DEF IInv, TypeOK, PlacesOK, Asleep, OwesWakeup, Other, Goto, Locked, Sides,
       reader, writer, locks, CreateChecked
  <2> QED
    BY <2>1, <2>2, WaitsKept DEF IInv
<1> QED
  BY <1>1, <1>2, <1>3, <1>4, <1>5, <1>6 DEF IInv

(* $create finds its address wrong: the region and what is written in it   *)
(* are given up.                                                           *)
LEMMA CreateRefusedPreserves ==
  ASSUME IInv, CreateRefused
  PROVE IInv'
<1>1. TypeOK'
  <2>1. seen' \in Offsets
    BY PipeAssumption DEF Offsets, CreateRefused
  <2> QED
    BY <2>1, Typed, EmptyTyped DEF IInv, TypeOK, Goto, RegionSet, Sides, reader, writer,
       status, locks, stream, CreateRefused
<1>2. LocksOK'
  BY DEF IInv, TypeOK, LocksOK, PlacesOK, Goto, Locked, Sides, reader, writer, locks,
     CreateRefused
<1>3. PlacesOK'
  BY DEF IInv, TypeOK, PlacesOK, Goto, Locked, Sides, reader, writer, CreateRefused
<1>4. RegionsOK'
  BY PipeAssumption DEF IInv, RegionsOK, Avail, Border, Goto, Locked, TypeOK, PlacesOK,
     LocksOK, Sides, reader, writer, status, CreateRefused, NoRegion
<1>5. DataOK'
  BY DEF IInv, DataOK, Avail, Unwritten, Goto, Locked, TypeOK, LocksOK, PlacesOK, Sides, reader,
     writer, status, stream, CreateRefused, NoRegion
<1>6. WaitsOK'
  <2>1. UNCHANGED status /\ Avail' = Avail
    BY DEF IInv, TypeOK, LocksOK, PlacesOK, Avail, Locked, Goto, Sides, reader, writer,
       status, locks, CreateRefused
  <2>2. \A t \in Sides :
          /\ pc'[t] \in {"release", "wait", "again"} =>
               pc[t] \in {"release", "wait", "again"} /\ req'[t] = req[t]
          /\ pc'[t] = "release" => pc[t] = "release"
          /\ Asleep(t)' => Asleep(t) \/ pc[t] = "release"
          /\ Asleep(t)' /\ OwesWakeup(Other(t)) => OwesWakeup(Other(t))'
    BY Typed DEF IInv, TypeOK, PlacesOK, Asleep, OwesWakeup, Other, Goto, Locked, Sides,
       reader, writer, locks, CreateRefused
  <2> QED
    BY <2>1, <2>2, WaitsKept DEF IInv
<1> QED
  BY <1>1, <1>2, <1>3, <1>4, <1>5, <1>6 DEF IInv

(* $gadr returns a region. The lock keeps $delete out, so that the borders *)
(* it read are the true ones and the region is what RegionsOK says.        *)
LEMMA GadrDonePreserves ==
  ASSUME IInv, NEW s \in Sides, GadrDone(s)
  PROVE IInv'
<1>1. mod = {} /\ pc[reader] # "delete" /\ Avail = avail_len
  BY DEF IInv, LocksOK, GadrDone, Locked, Avail, Sides
<1>2. [addr |-> Start(s), len |-> Granted(s)] \in RegionSet
  BY BlockFacts, Typed DEF IInv, RegionSet
<1>3. TypeOK'
  BY <1>2, Typed, EmptyTyped DEF IInv, TypeOK, GadrDone, Goto, RequestSet, RegionSet,
     Sides, reader, writer, status, locks, stream
<1>4. LocksOK'
  BY DEF IInv, TypeOK, LocksOK, PlacesOK, Goto, Locked, Sides, reader, writer, locks,
     GadrDone
<1>5. PlacesOK'
  BY DEF IInv, TypeOK, PlacesOK, Goto, Locked, Sides, reader, writer, GadrDone
<1>6. /\ region'[s].addr = Start(s) /\ region'[s].len =< block_avail(s)
      /\ block_avail(s) =< Room(s) /\ region'[s].addr + region'[s].len =< BUFSIZE
  BY BlockFacts, Typed DEF IInv, GadrDone, Offsets
<1>7. RegionsOK'
  <2>1. Start(reader) = avail_start /\ Start(writer) = Border
    BY <1>1, StartFacts DEF IInv, Border
  <2>2. Border' = Border
    BY <1>1, Typed DEF IInv, GadrDone, Goto, Border, Avail, TypeOK, status, Sides,
       reader, writer
  <2>3. \A t \in Sides : t # s => pc'[t] = pc[t] /\ region'[t] = region[t]
    BY DEF IInv, GadrDone, Goto, TypeOK
  <2>4. avail_start' = avail_start /\ avail_len' = avail_len /\ pc'[s] = "have"
    BY DEF IInv, GadrDone, Goto, TypeOK, status
  <2>5. \A t \in Sides : region'[t].addr + region'[t].len =< BUFSIZE
    BY <1>6, <2>3 DEF IInv, RegionsOK
  <2>6. pc'[reader] = "have" => /\ region'[reader].addr = avail_start'
                                /\ region'[reader].len =< avail_len'
    <3>1. CASE s = reader
      <4>1. region'[s].len \in Nat /\ block_avail(s) \in Nat /\ Room(s) = avail_len
        BY <3>1, BlockFacts, Typed DEF IInv, GadrDone, Room
      <4> QED
        BY <1>6, <2>1, <2>4, <3>1, <4>1, Typed DEF IInv
    <3>2. CASE s # reader
      BY <2>3, <2>4, <3>2 DEF IInv, RegionsOK, Sides
    <3> QED
      BY <3>1, <3>2
  <2>7. pc'[reader] # "delete"
    BY <1>1, <2>3, <2>4 DEF Sides
  <2>8. pc'[writer] \in {"have", "check", "create"} =>
          /\ region'[writer].addr = Border'
          /\ region'[writer].len =< BUFSIZE - avail_len'
    <3>1. CASE s = writer
      <4>1. region'[s].len \in Nat /\ block_avail(s) \in Nat /\ Room(s) = BUFSIZE - avail_len
        BY <3>1, BlockFacts, Typed DEF IInv, GadrDone, Room, reader, writer
      <4> QED
        BY <1>6, <2>1, <2>2, <2>4, <3>1, <4>1, Typed DEF IInv
    <3>2. CASE s # writer
      BY <2>2, <2>3, <2>4, <3>2 DEF IInv, RegionsOK, Sides
    <3> QED
      BY <3>1, <3>2
  <2>9. pc'[writer] = "padr" => Wrap(region'[writer].addr + region'[writer].len, BUFSIZE) = Border'
    BY <2>2, <2>3, <2>4 DEF IInv, RegionsOK, Sides
  <2>10. written' =< region'[writer].len
    <3>1. CASE s = writer
      <4>1. written = 0
        BY <3>1 DEF IInv, PlacesOK, GadrDone, Locked
      <4> QED
        BY <3>1, <4>1, BlockFacts, Typed DEF IInv, GadrDone
    <3>2. CASE s # writer
      BY <2>3, <3>2 DEF IInv, RegionsOK, GadrDone, Sides
    <3> QED
      BY <3>1, <3>2
  <2> QED
    BY <2>5, <2>6, <2>7, <2>8, <2>9, <2>10 DEF RegionsOK
<1>8. DataOK'
  BY DEF IInv, DataOK, Avail, Unwritten, Goto, Locked, TypeOK, LocksOK, PlacesOK, Sides, reader,
     writer, status, stream, GadrDone
<1>9. WaitsOK'
  <2>1. UNCHANGED status /\ Avail' = Avail
    BY DEF IInv, TypeOK, LocksOK, PlacesOK, Avail, Locked, Goto, Sides, reader, writer,
       status, locks, GadrDone
  <2>2. \A t \in Sides :
          /\ pc'[t] \in {"release", "wait", "again"} =>
               pc[t] \in {"release", "wait", "again"} /\ req'[t] = req[t]
          /\ pc'[t] = "release" => pc[t] = "release"
          /\ Asleep(t)' => Asleep(t) \/ pc[t] = "release"
          /\ Asleep(t)' /\ OwesWakeup(Other(t)) => OwesWakeup(Other(t))'
    BY Typed DEF IInv, TypeOK, PlacesOK, Asleep, OwesWakeup, Other, Goto, Locked, Sides,
       reader, writer, locks, GadrDone
  <2> QED
    BY <2>1, <2>2, WaitsKept DEF IInv
<1> QED
  BY <1>3, <1>4, <1>5, <1>7, <1>8, <1>9 DEF IInv

(* $gadr takes its own wait lock and decides to wait: it holds             *)
(* LOCK_ADDR_MOD, so the reason it has just seen is still true.            *)
LEMMA GadrWaitPreserves ==
  ASSUME IInv, NEW s \in Sides, GadrWait(s)
  PROVE IInv'
<1>1. mod = {} /\ pc[reader] # "delete" /\ Avail = avail_len
  BY DEF IInv, LocksOK, GadrWait, Locked, Avail, Sides
<1>2. Border' = Border /\ Avail' = Avail
  BY <1>1, Typed DEF IInv, GadrWait, Goto, Border, Avail, TypeOK, status, Sides, reader,
     writer
<1>3. TypeOK'
  BY Typed, EmptyTyped DEF IInv, TypeOK, Goto, RequestSet, RegionSet, Sides, reader,
     writer, status, locks, calls, stream, GadrWait
<1>4. LocksOK'
  BY DEF IInv, TypeOK, LocksOK, PlacesOK, Goto, Locked, Sides, reader, writer, locks,
     GadrWait
<1>5. PlacesOK'
  BY DEF IInv, TypeOK, PlacesOK, Goto, Locked, Sides, reader, writer, GadrWait
<1>6. RegionsOK'
  BY PipeAssumption DEF IInv, RegionsOK, Avail, Border, Goto, Locked, TypeOK, PlacesOK,
     LocksOK, Sides, reader, writer, status, GadrWait
<1>7. DataOK'
  BY DEF IInv, DataOK, Avail, Unwritten, Goto, Locked, TypeOK, LocksOK, PlacesOK, Sides, reader,
     writer, status, stream, GadrWait
<1>8. WaitsOK'
  <2>1. \A t \in Sides : TooShort(t)' = TooShort(t)
    BY DEF GadrWait, TooShort, block_avail, Start, Room, Least, writer_start, status
  <2>2. Start(reader) = avail_start /\ Start(writer) = Border
    BY <1>1, StartFacts DEF IInv, Border
  <2>3. \A t \in Sides : t # s => /\ pc'[t] = pc[t] /\ (Asleep(t)' => Asleep(t))
                                  /\ Other(t) = s /\ ~OwesWakeup(s)
    BY <1>1 DEF IInv, GadrWait, Locked, Goto, TypeOK, Asleep, OwesWakeup, Other, Sides,
       reader, writer
  <2>4. pc'[s] = "release" /\ TooShort(s) /\ pc[s] \in {"gadr", "again"}
    BY DEF IInv, GadrWait, Locked, Goto, TypeOK
  <2>5. \A t \in Sides : pc'[t] = "release" => TooShort(t)'
    BY <2>1, <2>3, <2>4 DEF IInv, WaitsOK
  <2>6. \A t \in Sides : Asleep(t)' => TooShort(t)' \/ OwesWakeup(Other(t))'
    BY <2>1, <2>3, <2>4 DEF IInv, WaitsOK, Asleep
  <2>7. req[s].len =< BUFSIZE - Start(s)
    BY <2>2, <2>4, Typed, BlockFacts DEF IInv, WaitsOK, GadrWait, Sides, Offsets
  <2>8. /\ pc'[reader] \in {"release", "wait", "again"} => req'[reader].len =< BUFSIZE - avail_start'
        /\ pc'[writer] \in {"release", "wait", "again"} => req'[writer].len =< BUFSIZE - Border'
    BY <1>2, <2>2, <2>3, <2>7 DEF IInv, WaitsOK, GadrWait, status, Sides, reader, writer
  <2> QED
    BY <2>5, <2>6, <2>8 DEF WaitsOK
<1> QED
  BY <1>3, <1>4, <1>5, <1>6, <1>7, <1>8 DEF IInv

(* The first assignment of $delete moves avail_start by k, and Avail       *)
(* shrinks by k with it: the border of the writer and the units behind the *)
(* deleted ones stay.                                                      *)
LEMMA DeleteStartPreserves ==
  ASSUME IInv, NEW k \in 1 .. BUFSIZE, DeleteStart(k)
  PROVE IInv'
<1>1. /\ pc[reader] = "have" /\ pc'[reader] = "delete" /\ pc'[writer] = pc[writer]
      /\ Avail = avail_len /\ k =< avail_len /\ k =< region[reader].len
  BY Typed DEF IInv, TypeOK, RegionsOK, DeleteStart, Goto, Avail, Sides, reader, writer
<1>2. /\ region'[reader].addr = region[reader].addr /\ region'[reader].len = k
      /\ region'[writer] = region[writer] /\ region' \in [Sides -> RegionSet]
  <2>1. [region[reader] EXCEPT !.len = k] \in RegionSet
    BY Typed DEF IInv, RegionSet
  <2> QED
    BY <2>1, Typed DEF IInv, RegionSet, DeleteStart, Sides, reader, writer
<1>3. avail_start' = Wrap(avail_start + k, BUFSIZE) /\ rcvd' = Wrap(rcvd + k, Tags)
  <2>1. avail_start + k \in 0 .. (2 * BUFSIZE - 1) /\ rcvd + k \in 0 .. (2 * Tags - 1)
    BY Typed DEF IInv, Tags
  <2> QED
    BY <2>1, ModWrap, Typed DEF IInv, DeleteStart
<1>4. Avail' = avail_len - k /\ Border' = Border
  <2>1. Avail' = avail_len - k
    BY <1>1, <1>2 DEF DeleteStart, Avail
  <2> QED
    BY <2>1, <1>1, <1>3, Typed DEF IInv, Border, Wrap
<1>5. TypeOK'
  <2>1. avail_start' \in Offsets /\ rcvd' \in 0 .. (Tags - 1)
    BY <1>3, Typed DEF IInv, Wrap, Tags, Offsets
  <2>2. pc' \in [Sides -> {"idle", "gadr", "release", "wait", "again", "have", "delete",
                          "check", "create", "padr"}]
    BY DEF IInv, TypeOK, DeleteStart, Goto
  <2> QED
    BY <1>2, <2>1, <2>2 DEF IInv, TypeOK, DeleteStart, RegionSet, Sides
<1>6. LocksOK'
  BY DEF IInv, TypeOK, LocksOK, PlacesOK, Goto, Locked, Sides, reader, writer, locks,
     DeleteStart
<1>7. PlacesOK'
  BY DEF IInv, TypeOK, PlacesOK, Goto, Locked, Sides, reader, writer, DeleteStart
<1>8. RegionsOK'
  <2>1. region[reader].addr + k =< BUFSIZE
    BY <1>1, Typed DEF IInv, RegionsOK
  <2>2. \A s \in Sides : region'[s].addr + region'[s].len =< BUFSIZE
    BY <1>2, <2>1 DEF IInv, RegionsOK, Sides
  <2> QED
    BY <1>1, <1>2, <1>4, <2>2 DEF IInv, RegionsOK, DeleteStart
<1>9. DataOK'
  <2>1. sent' = Wrap(rcvd' + Avail', Tags)
    <3>1. Wrap(Wrap(rcvd + k, Tags) + (avail_len - k), Tags) = Wrap(rcvd + (k + (avail_len - k)), Tags)
      <4>1. /\ rcvd \in 0 .. (Tags - 1) /\ k \in Nat /\ avail_len - k \in Nat
            /\ k + (avail_len - k) =< Tags /\ Tags \in Nat \ {0}
        BY <1>1, Typed DEF IInv, Tags
      <4> QED
        BY <4>1, WrapTwice
    <3>2. k + (avail_len - k) = avail_len
      BY Typed DEF IInv
    <3> QED
      BY <1>1, <1>3, <1>4, <3>1, <3>2 DEF IInv, DataOK, DeleteStart
  <2>2. ASSUME NEW i \in 0 .. (Avail' - Unwritten' - 1)
        PROVE buf'[Wrap(avail_start' + i, BUFSIZE)] = Wrap(rcvd' + i, Tags)
    <3>1. k + i \in 0 .. (Avail - Unwritten - 1) /\ k + i < Avail /\ i \in Nat
      <4>1. /\ Avail' = Avail - k /\ Unwritten' = Unwritten
            /\ Unwritten \in Nat /\ Avail \in Nat
        BY <1>1, <1>2, <1>4, UnwrittenFacts, Typed DEF IInv, Unwritten, DeleteStart
      <4> QED
        BY <4>1
    <3>2. /\ Wrap(avail_start' + i, BUFSIZE) = Wrap(avail_start + (k + i), BUFSIZE)
          /\ Wrap(rcvd' + i, Tags) = Wrap(rcvd + (k + i), Tags)
      BY <1>1, <1>3, <3>1, Typed DEF IInv, Wrap, Tags
    <3> QED
      BY <3>1, <3>2 DEF IInv, DataOK, DeleteStart
  <2>3. pc'[writer] \in {"have", "check", "create"} =>
          \A i \in 0 .. (written' - 1) :
            buf'[region'[writer].addr + i] = Wrap(sent' + i, Tags)
    BY <1>1, <1>2 DEF IInv, DataOK, DeleteStart
  <2> QED
    BY <2>1, <2>2, <2>3 DEF DataOK
<1>10. WaitsOK'
  <2>1. pc[writer] # "release"
    BY DEF IInv, LocksOK, DeleteStart, Sides
  <2> QED
    BY <1>1, <1>4, <2>1 DEF IInv, WaitsOK, Asleep, OwesWakeup, Other, DeleteStart, Sides,
       reader, writer
<1> QED
  BY <1>5, <1>6, <1>7, <1>8, <1>9, <1>10 DEF IInv

(* The second assignment of $delete stores the length that Avail already   *)
(* was. The writer may have room now, and the reader, at "padr", owes the  *)
(* wakeup.                                                                 *)
LEMMA DeleteLenPreserves ==
  ASSUME IInv, DeleteLen
  PROVE IInv'
<1>1. /\ pc[reader] = "delete" /\ pc'[reader] = "padr" /\ pc'[writer] = pc[writer]
      /\ region[reader].len \in 1 .. avail_len
  BY DEF IInv, TypeOK, RegionsOK, DeleteLen, Goto, Sides, reader, writer
<1>2. Avail' = Avail /\ Border' = Border /\ avail_len' \in 0 .. avail_len
  <2>1. Avail' = Avail /\ avail_len' \in 0 .. avail_len
    BY <1>1, Typed DEF IInv, DeleteLen, Avail
  <2> QED
    BY <2>1 DEF Border, DeleteLen
<1>3. TypeOK'
  BY <1>2, Typed DEF IInv, TypeOK, DeleteLen, Goto, Sides, reader, writer, stream
<1>4. LocksOK'
  BY DEF IInv, TypeOK, LocksOK, PlacesOK, Goto, Locked, Sides, reader, writer, locks,
     DeleteLen
<1>5. PlacesOK'
  BY DEF IInv, TypeOK, PlacesOK, Goto, Locked, Sides, reader, writer, DeleteLen
<1>6. RegionsOK'
  BY <1>1, <1>2, Typed DEF IInv, RegionsOK, DeleteLen
<1>7. DataOK'
  BY <1>1, <1>2 DEF IInv, DataOK, Unwritten, DeleteLen, stream
<1>8. WaitsOK'
  <2>1. pc[writer] # "release"
    BY DEF IInv, LocksOK, DeleteLen, Sides, PlacesOK, reader, writer
  <2> QED
    BY <1>1, <1>2, <2>1 DEF IInv, WaitsOK, Asleep, OwesWakeup, Other, DeleteLen, Sides,
       reader, writer
<1> QED
  BY <1>3, <1>4, <1>5, <1>6, <1>7, <1>8 DEF IInv

(* The writer writes a unit.  Before $create its region lies behind the    *)
(* border and meets no available unit; after it, the unit written is the   *)
(* first one it owes, and no other place changes.                          *)
LEMMA WritePreserves ==
  ASSUME IInv, Write
  PROVE IInv'
<1> DEFINE c == region[writer].addr + written
           tag == (FirstTag + written) % Tags
<1>1. /\ pc[writer] \in {"have", "padr"} /\ written \in 0 .. (region[writer].len - 1)
      /\ Avail \in 0 .. avail_len /\ avail_len \in 0 .. BUFSIZE /\ avail_start \in 0 .. (BUFSIZE - 1)
      /\ region[writer].addr \in Nat /\ region[writer].len \in Nat
      /\ region[writer].addr + region[writer].len =< BUFSIZE
      /\ Border \in 0 .. (BUFSIZE - 1)
      /\ BUFSIZE \in Nat \ {0} /\ Tags = 2 * BUFSIZE
      /\ sent \in 0 .. (Tags - 1) /\ rcvd \in 0 .. (Tags - 1)
  <2>1. Avail \in 0 .. avail_len
    BY Typed DEF IInv, RegionsOK, Avail
  <2> QED
    BY <2>1, UnwrittenFacts, Typed DEF IInv, RegionsOK, Write, Border, Wrap, Sides, Tags
<1>2. /\ c \in Offsets /\ buf'[c] = tag
      /\ \A o \in Offsets : o # c => buf'[o] = buf[o]
      /\ buf' = [buf EXCEPT ![c] = tag] /\ written' = written + 1
  <2>1. c \in Offsets
    BY <1>1 DEF Offsets
  <2>2. buf' = [buf EXCEPT ![c] = tag] /\ written' = written + 1
    BY DEF Write
  <2> HIDE DEF c, tag
  <2>3. buf \in [Offsets -> 0 .. Tags]
    BY DEF IInv, TypeOK
  <2> QED
    BY <2>1, <2>2, <2>3
<1>3. Avail' = Avail /\ Border' = Border
  BY DEF Avail, Border, Write, status
<1>4. /\ pc[writer] = "have" => tag = Wrap(sent + written, Tags)
      /\ pc[writer] = "padr" => tag = Wrap(sent + (Tags - (region[writer].len - written)), Tags)
  <2>1. /\ sent + written \in 0 .. (2 * Tags - 1) /\ Tags \in Nat \ {0}
        /\ sent + (Tags - (region[writer].len - written)) \in 0 .. (2 * Tags - 1)
    BY <1>1
  <2>2. /\ pc[writer] = "have" => FirstTag + written = sent + written
        /\ pc[writer] = "padr" =>
             FirstTag + written = sent + (Tags - (region[writer].len - written))
    BY <1>1 DEF FirstTag
  <2> QED
    BY <2>1, <2>2, ModWrap
<1> HIDE DEF c, tag
<1>5. TypeOK'
  <2>1. tag \in 0 .. Tags
    BY <1>1, <1>4 DEF Wrap
  <2>2. buf' \in [Offsets -> 0 .. Tags]
    BY <1>2, <2>1 DEF IInv, TypeOK
  <2>3. written' \in 0 .. BUFSIZE
    BY <1>1, <1>2
  <2> QED
    BY <2>2, <2>3 DEF IInv, TypeOK, Write, status, locks
<1>6. LocksOK'
  BY DEF IInv, TypeOK, LocksOK, PlacesOK, Goto, Locked, Sides, reader, writer, locks,
     Write
<1>7. PlacesOK'
  BY DEF IInv, TypeOK, PlacesOK, Goto, Locked, Sides, reader, writer, Write
<1>8. RegionsOK'
  BY <1>1, <1>3 DEF IInv, RegionsOK, Write, status
<1>9. DataOK'
  <2>1. Unwritten' = IF pc[writer] = "padr" THEN Unwritten - 1 ELSE 0
    BY <1>1 DEF Unwritten, Write
  <2>2. Unwritten = IF pc[writer] = "padr" THEN region[writer].len - written ELSE 0
    BY DEF Unwritten
  <2>3. ASSUME NEW i \in 0 .. (Avail - Unwritten' - 1)
        PROVE buf'[Wrap(avail_start + i, BUFSIZE)] = Wrap(rcvd + i, Tags)
    <3> DEFINE o == Wrap(avail_start + i, BUFSIZE)
    <3>1. o \in Offsets /\ i \in 0 .. (Avail - 1) /\ i < BUFSIZE
      BY <1>1, <2>1, <2>2 DEF Wrap, Offsets
    <3>2. CASE i =< Avail - Unwritten - 1
      <4>1. buf[o] = Wrap(rcvd + i, Tags)
        BY <3>2, <3>1, <2>2, <1>1 DEF IInv, DataOK
      <4>2. o # c
        <5>1. CASE pc[writer] = "have"
          <6>1. region[writer].addr = Wrap(avail_start + Avail, BUFSIZE)
                /\ region[writer].len =< BUFSIZE - avail_len
            BY <5>1 DEF IInv, RegionsOK, Border
          <6> QED
            BY <1>1, <3>1, <6>1 DEF Wrap, c
        <5>2. CASE pc[writer] = "padr"
          <6>1. Wrap(region[writer].addr + region[writer].len, BUFSIZE) = Wrap(avail_start + Avail, BUFSIZE)
            BY <5>2 DEF IInv, RegionsOK, Border
          <6>2. i < Avail - (region[writer].len - written)
            BY <1>1, <2>2, <3>2, <5>2
          <6> QED
            BY <1>1, <3>1, <6>1, <6>2 DEF Wrap, c
        <5> QED
          BY <1>1, <5>1, <5>2
      <4> QED
        BY <1>2, <3>1, <4>1, <4>2
    <3>3. CASE i > Avail - Unwritten - 1
      <4>1. pc[writer] = "padr" /\ i = Avail - (region[writer].len - written)
        BY <1>1, <2>1, <2>2, <3>1, <3>3
      <4>2. Wrap(region[writer].addr + region[writer].len, BUFSIZE) = Wrap(avail_start + Avail, BUFSIZE)
        BY <4>1 DEF IInv, RegionsOK, Border
      <4>3. o = c
        BY <1>1, <3>1, <4>1, <4>2 DEF Wrap, c
      <4>4. sent = Wrap(rcvd + Avail, Tags)
        BY DEF IInv, DataOK
      <4>5. tag = Wrap(rcvd + i, Tags)
        BY <1>1, <1>4, <3>1, <4>1, <4>4 DEF Wrap
      <4> QED
        BY <1>2, <4>3, <4>5
    <3> QED
      BY <3>2, <3>3, <1>1, <2>2
  <2>4. ASSUME pc[writer] \in {"have", "check", "create"}, NEW i \in 0 .. (written' - 1)
        PROVE buf'[region[writer].addr + i] = Wrap(sent + i, Tags)
    <3>1. pc[writer] = "have"
      BY <1>1, <2>4
    <3>2. CASE i = written
      BY <1>2, <1>4, <3>1, <3>2 DEF c
    <3>3. CASE i # written
      <4>1. i \in 0 .. (written - 1) /\ region[writer].addr + i \in Offsets
            /\ region[writer].addr + i # c
        BY <1>1, <1>2, <3>3 DEF c, Offsets
      <4> QED
        BY <1>2, <3>1, <4>1 DEF IInv, DataOK
    <3> QED
      BY <3>2, <3>3
  <2> QED
    BY <1>3, <2>3, <2>4 DEF IInv, DataOK, Write, status
<1>10. WaitsOK'
  <2>1. UNCHANGED status /\ Avail' = Avail
    BY DEF IInv, TypeOK, LocksOK, PlacesOK, Avail, Locked, Goto, Sides, reader, writer,
       status, locks, Write
  <2>2. \A t \in Sides :
          /\ pc'[t] \in {"release", "wait", "again"} =>
               pc[t] \in {"release", "wait", "again"} /\ req'[t] = req[t]
          /\ pc'[t] = "release" => pc[t] = "release"
          /\ Asleep(t)' => Asleep(t) \/ pc[t] = "release"
          /\ Asleep(t)' /\ OwesWakeup(Other(t)) => OwesWakeup(Other(t))'
    BY Typed DEF IInv, TypeOK, PlacesOK, Asleep, OwesWakeup, Other, Goto, Locked, Sides,
       reader, writer, locks, Write
  <2> QED
    BY <2>1, <2>2, WaitsKept DEF IInv
<1> QED
  BY <1>5, <1>6, <1>7, <1>8, <1>9, <1>10 DEF IInv

(* $create adds its length to avail_len, under LOCK_ADDR_MOD: the region   *)
(* becomes available, what is written of it and what is not, and the       *)
(* writer, at "padr", owes the wakeup.                                     *)
LEMMA CreateLenPreserves ==
  ASSUME IInv, CreateLen
  PROVE IInv'
<1>1. /\ pc[writer] = "create" /\ pc'[writer] = "padr" /\ pc'[reader] = pc[reader]
      /\ pc[reader] \notin {"delete", "release"} /\ Avail = avail_len
      /\ written \in 0 .. region[writer].len /\ region[writer].addr = Border
      /\ region[writer].len =< BUFSIZE - avail_len /\ Border + region[writer].len =< BUFSIZE
  BY UnwrittenFacts, Typed DEF IInv, TypeOK, LocksOK, PlacesOK, RegionsOK, CreateLen, Goto,
     Avail, Sides, reader, writer
<1>2. Avail' = avail_len + region[writer].len /\ sent' = Wrap(sent + region[writer].len, Tags)
  <2>1. sent + region[writer].len \in 0 .. (2 * Tags - 1)
    BY Typed DEF IInv, Tags
  <2> QED
    BY <1>1, <2>1, ModWrap, Typed DEF IInv, CreateLen, Avail
<1>3. TypeOK'
  <2>1. avail_len' \in 0 .. BUFSIZE /\ sent' \in 0 .. (Tags - 1)
    BY <1>1, <1>2, Typed DEF IInv, CreateLen, Wrap, Tags
  <2>2. pc' \in [Sides -> {"idle", "gadr", "release", "wait", "again", "have", "delete",
                          "check", "create", "padr"}]
    BY DEF IInv, TypeOK, CreateLen, Goto
  <2> QED
    BY <2>1, <2>2 DEF IInv, TypeOK, CreateLen, locks
<1>4. LocksOK'
  BY DEF IInv, TypeOK, LocksOK, PlacesOK, Goto, Locked, Sides, reader, writer, locks,
     CreateLen
<1>5. PlacesOK'
  BY DEF IInv, TypeOK, PlacesOK, Goto, Locked, Sides, reader, writer, CreateLen
<1>6. RegionsOK'
  <2>1. Wrap(region[writer].addr + region[writer].len, BUFSIZE) = Border'
    BY <1>1, <1>2, Typed DEF IInv, Border, Wrap, CreateLen
  <2> QED
    BY <1>1, <2>1, Typed DEF IInv, RegionsOK, CreateLen
<1>7. DataOK'
  <2>1. sent' = Wrap(rcvd' + Avail', Tags)
    <3>1. /\ sent = Wrap(rcvd + avail_len, Tags) /\ rcvd' = rcvd
          /\ rcvd \in 0 .. (Tags - 1) /\ avail_len \in Nat /\ region[writer].len \in Nat
          /\ avail_len + region[writer].len =< Tags /\ Tags \in Nat \ {0}
      BY <1>1, Typed DEF IInv, DataOK, CreateLen, Tags
    <3>2. Wrap(sent + region[writer].len, Tags)
            = Wrap(rcvd + (avail_len + region[writer].len), Tags)
      BY <3>1, WrapTwice
    <3> QED
      BY <1>2, <3>1, <3>2
  <2>2. ASSUME NEW i \in 0 .. (Avail' - Unwritten' - 1)
        PROVE buf'[Wrap(avail_start' + i, BUFSIZE)] = Wrap(rcvd' + i, Tags)
    <3>0. /\ Unwritten = 0 /\ Unwritten' = region[writer].len - written
          /\ i \in 0 .. (Avail + written - 1)
      BY <1>1, <1>2, Typed DEF IInv, Unwritten, CreateLen
    <3>1. CASE i < Avail
      BY <3>0, <3>1, <1>1, Typed DEF IInv, DataOK, CreateLen
    <3>2. CASE i >= Avail
      <4>1. i - Avail \in 0 .. (written - 1) /\ i - Avail \in 0 .. (region[writer].len - 1)
        BY <1>1, <3>0, <3>2, Typed DEF IInv
      <4>2. buf[region[writer].addr + (i - Avail)] = Wrap(sent + (i - Avail), Tags)
        BY <1>1, <4>1 DEF IInv, DataOK
      <4>3. region[writer].addr + (i - Avail) = Wrap(avail_start + i, BUFSIZE)
        <5>1. /\ region[writer].addr = Wrap(avail_start + Avail, BUFSIZE)
              /\ Wrap(avail_start + Avail, BUFSIZE) + region[writer].len =< BUFSIZE
              /\ avail_start \in 0 .. (BUFSIZE - 1) /\ Avail \in 0 .. BUFSIZE
              /\ region[writer].len \in Nat /\ BUFSIZE \in Nat \ {0}
              /\ region[writer].len =< BUFSIZE - Avail
          BY <1>1, Typed DEF IInv, Border
        <5> QED
          BY <4>1, <5>1 DEF Wrap
      <4>4. Wrap(sent + (i - Avail), Tags) = Wrap(rcvd + i, Tags)
        BY <1>1, <4>1, Typed DEF IInv, DataOK, Wrap, Tags
      <4> QED
        BY <4>2, <4>3, <4>4 DEF CreateLen
    <3> QED
      BY <3>1, <3>2, <1>1, Typed DEF IInv
  <2> QED
    BY <1>1, <2>1, <2>2 DEF DataOK, CreateLen
<1>8. WaitsOK'
  BY <1>1 DEF IInv, WaitsOK, Asleep, OwesWakeup, Other, CreateLen, Sides, reader, writer
<1> QED
  BY <1>3, <1>4, <1>5, <1>6, <1>7, <1>8 DEF IInv

------------------------------------------------------------------------------
(* Every action of the pipe and of its users preserves the invariant, and  *)
(* so does a stuttering step.                                              *)
LEMMA NextPreserves == IInv /\ [Next]_vars => IInv'
<1> SUFFICES ASSUME IInv, [Next]_vars PROVE IInv'
  OBVIOUS
<1>1. ASSUME NEW s \in Sides, NEW l \in Lens, NEW y \in TryLens, NEW a \in action_t,
             CallGadr(s, l, y, a)
      PROVE IInv'
  BY <1>1, CallGadrPreserves
<1>2. ASSUME NEW s \in Sides, gadr(s) PROVE IInv'
  BY <1>2, GadrDonePreserves, GadrRefusedPreserves, GadrWaitPreserves, GadrReleasePreserves,
     GadrWokenPreserves DEF gadr
<1>3. ASSUME NEW s \in Sides, padr(s) PROVE IInv'
  BY <1>3, PadrPreserves
<1>4. CASE delete
  BY <1>4, DeleteStartPreserves, DeleteLenPreserves DEF delete
<1>5. ASSUME NEW a \in Offsets, DeleteRefused(a) PROVE IInv'
  BY <1>5, DeleteRefusedPreserves
<1>6. CASE create
  BY <1>6, WritePreserves, CreateReadPreserves, CreateCheckedPreserves,
     CreateRefusedPreserves, CreateLenPreserves DEF create
<1>7. CASE UNCHANGED vars
  <2>1. /\ TypeOK' = TypeOK /\ LocksOK' = LocksOK /\ PlacesOK' = PlacesOK
        /\ RegionsOK' = RegionsOK
    BY <1>7 DEF vars, status, locks, calls, stream, TypeOK, LocksOK, PlacesOK, RegionsOK,
                Border, Avail
  <2>2. DataOK' = DataOK
    BY <1>7 DEF vars, status, locks, calls, stream, DataOK, Avail, Unwritten
  <2>3. WaitsOK' = WaitsOK
    BY <1>7 DEF vars, status, locks, calls, stream, WaitsOK, TooShort, Asleep, OwesWakeup,
                block_avail, Start, Room, Least, writer_start, Border, Avail
  <2> QED
    BY <2>1, <2>2, <2>3 DEF IInv
<1> QED
  BY <1>1, <1>2, <1>3, <1>4, <1>5, <1>6, <1>7 DEF Next

(* The empty pipe satisfies the invariant. *)
LEMMA InitOK == Init => IInv
<1> SUFFICES ASSUME Init PROVE IInv
  OBVIOUS
<1>1. TypeOK
  <2>1. 0 \in Offsets /\ 0 \in 0 .. BUFSIZE /\ Tags \in 0 .. Tags /\ 0 \in 0 .. (Tags - 1)
    BY PipeAssumption DEF Offsets, Tags
  <2>2. req \in [Sides -> RequestSet] /\ region \in [Sides -> RegionSet]
    BY EmptyTyped DEF Init
  <2>3. /\ mod \in SUBSET Sides /\ wait1 \in SUBSET Sides /\ written \in 0 .. BUFSIZE
        /\ pc \in [Sides -> {"idle", "gadr", "release", "wait", "again", "have", "delete",
                             "check", "create", "padr"}]
    BY <2>1 DEF Init
  <2> QED
    BY <2>1, <2>2, <2>3 DEF Init, TypeOK, RequestSet, RegionSet
<1>2. LocksOK /\ PlacesOK
  BY DEF Init, LocksOK, PlacesOK, Sides, reader, writer
<1>3. RegionsOK
  BY PipeAssumption DEF Init, RegionsOK, NoRegion, Sides, reader, writer
<1>4. DataOK
  BY PipeAssumption DEF Init, DataOK, Avail, Unwritten, Wrap, Tags, Sides, reader, writer
<1>5. WaitsOK
  BY DEF Init, WaitsOK, Asleep, Sides, reader, writer
<1> QED
  BY <1>1, <1>2, <1>3, <1>4, <1>5 DEF IInv

(* Whatever the two users do, IInv holds all the time. The other theorems  *)
(* are consequences of it.                                                 *)
THEOREM Invariant == Spec => []IInv
  BY InitOK, NextPreserves, PTL DEF Spec

(* Every field keeps its type: avail_start stays inside the buffer and     *)
(* avail_len never exceeds its length, although $create and $delete store  *)
(* their results without a check.                                          *)
THEOREM TypeCorrect == Spec => []TypeOK
<1>1. IInv => TypeOK
  BY DEF IInv
<1> QED
  BY <1>1, Invariant, PTL

(* No wakeup is lost: who sleeps in $gadr on its own lock still finds too  *)
(* little, or the other side is between its change of the status and the   *)
(* wakeup of $padr.                                                        *)
THEOREM NoLostWakeup == Spec => []SleepersHaveReason
<1>1. IInv => SleepersHaveReason
  BY DEF IInv, WaitsOK, SleepersHaveReason
<1> QED
  BY <1>1, Invariant, PTL

(* The reader and the writer never sleep both.  One of the two regions,    *)
(* the available one or the free one, runs up to the end of the buffer,    *)
(* and $gadr refuses a side that asks for more than lies before that end:  *)
(* the side of that region has no reason to sleep.                         *)
THEOREM NoDeadlyEmbrace == Spec => []NeverBothAsleep
<1>1. IInv => NeverBothAsleep
  <2> SUFFICES ASSUME IInv, Asleep(reader), Asleep(writer) PROVE FALSE
    BY DEF NeverBothAsleep
  <2>1. TooShort(reader) /\ TooShort(writer)
    BY DEF IInv, WaitsOK, Asleep, OwesWakeup, Other, Sides, reader, writer
  <2>2. Avail = avail_len
    BY DEF Asleep, Avail
  <2>3. /\ req[reader].len =< BUFSIZE - avail_start
        /\ req[writer].len =< BUFSIZE - Wrap(avail_start + avail_len, BUFSIZE)
    BY <2>2 DEF IInv, WaitsOK, Asleep, Border
  <2>4. req[reader].len > Least(BUFSIZE - avail_start, avail_len)
    BY <2>1, StartFacts DEF IInv, TooShort, block_avail, Room
  <2>5. req[writer].len > Least(BUFSIZE - Wrap(avail_start + avail_len, BUFSIZE), BUFSIZE - avail_len)
    BY <2>1, StartFacts DEF IInv, TooShort, block_avail, Room, reader, writer
  <2> QED
    BY <2>3, <2>4, <2>5, Typed DEF IInv, Least, Wrap
<1> QED
  BY <1>1, Invariant, PTL

(* The region $gadr gave the reader and the one it gave the writer lie     *)
(* inside the buffer and have no unit in common.                           *)
THEOREM RegionsApart == Spec => []RegionsSafe
<1>1. IInv => RegionsSafe
  <2> SUFFICES ASSUME IInv PROVE RegionsSafe
    OBVIOUS
  <2>1. \A s \in Sides : Cells(s) \subseteq Offsets
    BY Typed DEF IInv, RegionsOK, Cells, Offsets
  <2>2. ASSUME pc[reader] = "have", pc[writer] \in {"have", "check", "create"}
        PROVE Cells(reader) \cap Cells(writer) = {}
    <3>1. /\ region[reader].addr = avail_start /\ region[reader].len =< avail_len
          /\ region[writer].addr = Wrap(avail_start + avail_len, BUFSIZE)
          /\ region[writer].len =< BUFSIZE - avail_len
          /\ region[reader].addr + region[reader].len =< BUFSIZE
          /\ region[writer].addr + region[writer].len =< BUFSIZE
      BY <2>2 DEF IInv, RegionsOK, Border, Avail, Sides
    <3> QED
      BY <3>1, Typed DEF IInv, Cells, Wrap
  <2> QED
    BY <2>1, <2>2 DEF RegionsSafe
<1> QED
  BY <1>1, Invariant, PTL

(* The reader finds in its region the units of the stream, in order and    *)
(* from the first it has not yet deleted, but for the units that $create   *)
(* has shown it before the writer wrote them.  These are the last ones     *)
(* before the border, so that the reader finds them where Late says.       *)
THEOREM ReaderCorrect == Spec => []ReaderSeesStream
<1>1. IInv => ReaderSeesStream
  <2> SUFFICES ASSUME IInv, pc[reader] = "have", NEW o \in (Cells(reader) \cap Offsets) \ Late
               PROVE buf[o] = (rcvd + (o - region[reader].addr)) % Tags
    BY DEF ReaderSeesStream
  <2> DEFINE i == o - region[reader].addr
  <2>1. /\ i \in 0 .. (Avail - 1) /\ o = Wrap(avail_start + i, BUFSIZE)
        /\ rcvd + i \in 0 .. (2 * Tags - 1) /\ o \in Nat
        /\ avail_start + i < BUFSIZE /\ Avail =< BUFSIZE
    BY Typed DEF IInv, RegionsOK, Avail, Cells, Offsets, Wrap, Tags
  <2>2. i < Avail - Unwritten
    <3>1. CASE pc[writer] = "padr"
      <4>1. /\ Wrap(region[writer].addr + region[writer].len, BUFSIZE) = Wrap(avail_start + Avail, BUFSIZE)
            /\ region[writer].addr + region[writer].len =< BUFSIZE
            /\ Unwritten = region[writer].len - written
        BY <3>1, Typed DEF IInv, RegionsOK, Border, Unwritten
      <4>2. /\ region[writer].addr \in Nat /\ region[writer].len \in 0 .. BUFSIZE
            /\ written \in 0 .. region[writer].len /\ BUFSIZE \in Nat \ {0}
            /\ avail_start \in 0 .. (BUFSIZE - 1) /\ Avail \in 0 .. BUFSIZE
        BY <2>1, UnwrittenFacts, Typed DEF IInv, Avail
      <4>3. ~(o >= region[writer].addr + written /\ o < region[writer].addr + region[writer].len)
        BY <2>1, <3>1, <4>2 DEF Late
      <4> HIDE DEF i
      <4> QED
        BY <2>1, <4>1, <4>2, <4>3 DEF Wrap
    <3>2. CASE pc[writer] # "padr"
      <4>1. Unwritten = 0 /\ Avail \in Nat
        BY <2>1, <3>2, Typed DEF IInv, Unwritten, Avail
      <4> HIDE DEF i
      <4> QED
        BY <2>1, <4>1
    <3> QED
      BY <3>1, <3>2
  <2>3. i \in 0 .. (Avail - Unwritten - 1)
    BY <2>1, <2>2, UnwrittenFacts, Typed DEF IInv, Avail
  <2>4. buf[o] = Wrap(rcvd + i, Tags)
    BY <2>1, <2>3 DEF IInv, DataOK
  <2> QED
    BY <2>1, <2>4, ModWrap, Typed DEF IInv
<1> QED
  BY <1>1, Invariant, PTL

(* A $create with the address $gadr returned is refused only if a $delete  *)
(* moved the border between the two reads of its unlocked check.           *)
THEOREM RefusalExplained == Spec => RefusedOnlyDuringDelete
<1>1. IInv /\ [Next]_vars => [pc[writer] = "check" /\ pc'[writer] = "idle"
                                => pc[reader] = "delete" \/ seen # avail_start]_vars
  <2> SUFFICES ASSUME IInv, Next, pc[writer] = "check", pc'[writer] = "idle",
                      pc[reader] # "delete", seen = avail_start
               PROVE FALSE
    OBVIOUS
  <2>1. CreateRefused
    BY DEF IInv, TypeOK, Next, CallGadr, gadr, GadrDone, GadrRefused, GadrWait, GadrRelease,
           GadrWoken, padr, delete, DeleteStart, DeleteLen, DeleteRefused, create, Write,
           CreateRead, CreateChecked, CreateLen, Goto, Locked, Sides, reader, writer
  <2>2. region[writer].addr = Wrap(avail_start + avail_len, BUFSIZE)
    BY DEF IInv, RegionsOK, Border, Avail
  <2>3. avail_start + avail_len \in 0 .. (2 * BUFSIZE - 1)
    BY Typed DEF IInv
  <2> QED
    BY <2>1, <2>2, <2>3, ModWrap, Typed DEF IInv, CreateRefused
<1> QED
  BY <1>1, Invariant, PTL DEF Spec, RefusedOnlyDuringDelete

------------------------------------------------------------------------------
(* The content of the pipe is given by the reader's tag, by how much is    *)
(* available, and by how much of that is not written yet.                  *)
LEMMA ContentIs == IInv => Content = Run(rcvd, Avail, Avail - Unwritten, Tags)
<1> SUFFICES ASSUME IInv PROVE Content = Run(rcvd, Avail, Avail - Unwritten, Tags)
  OBVIOUS
<1>1. Content = [i \in 1 .. Avail |-> IF i =< Avail - Unwritten
                                      THEN buf[(avail_start + i - 1) % BUFSIZE] ELSE Tags]
  BY Zenon DEF Content, Avail
<1>2. Avail \in Nat /\ Avail =< BUFSIZE /\ Unwritten \in Nat
  BY UnwrittenFacts, Typed DEF IInv, Avail, RegionsOK
<1>3. ASSUME NEW i \in 1 .. Avail, i =< Avail - Unwritten
      PROVE buf[(avail_start + i - 1) % BUFSIZE] = Wrap(rcvd + (i - 1), Tags)
  <2>1. /\ i - 1 \in 0 .. (Avail - Unwritten - 1) /\ avail_start + i - 1 = avail_start + (i - 1)
        /\ avail_start + (i - 1) \in 0 .. (2 * BUFSIZE - 1)
    BY <1>2, <1>3, Typed DEF IInv
  <2>2. (avail_start + (i - 1)) % BUFSIZE = Wrap(avail_start + (i - 1), BUFSIZE)
    BY <2>1, ModWrap, Typed DEF IInv
  <2> QED
    BY <2>1, <2>2 DEF IInv, DataOK
<1> QED
  BY <1>1, <1>3 DEF Run

(* Which steps the stream sees: all others keep its content and the tag of *)
(* the next unit sent.                                                     *)
LEMMA QuietSteps ==
  ASSUME IInv, [Next]_vars
  PROVE \/ \E k \in 1 .. BUFSIZE : DeleteStart(k)
        \/ CreateLen
        \/ Write /\ pc[writer] = "padr"
        \/ rcvd' = rcvd /\ Avail' = Avail /\ sent' = sent /\ Unwritten' = Unwritten
<1> DEFINE Quiet == rcvd' = rcvd /\ Avail' = Avail /\ sent' = sent /\ Unwritten' = Unwritten
<1>1. ASSUME NEW s \in Sides, NEW l \in Lens, NEW y \in TryLens, NEW a \in action_t,
             CallGadr(s, l, y, a)
      PROVE Quiet
  BY <1>1 DEF IInv, TypeOK, CallGadr, Goto, Avail, Unwritten, status, stream, Sides, reader,
     writer
<1>2. ASSUME NEW s \in Sides, gadr(s)
      PROVE Quiet
  BY <1>2 DEF IInv, TypeOK, LocksOK, PlacesOK, gadr, GadrDone, GadrRefused, GadrWait,
     GadrRelease, GadrWoken, Goto, Locked, Avail, Unwritten, status, stream, Sides, reader,
     writer
<1>3. ASSUME NEW s \in Sides, padr(s)
      PROVE Quiet
  <2>1. Unwritten' = Unwritten
    BY <1>3, Typed DEF IInv, TypeOK, padr, Goto, Unwritten, Sides, reader, writer
  <2> QED
    BY <1>3, <2>1 DEF IInv, TypeOK, PlacesOK, padr, Goto, Avail, status, stream, Sides,
       reader, writer
<1>4. CASE DeleteLen
  BY <1>4, Typed DEF IInv, TypeOK, DeleteLen, Goto, Avail, Unwritten, stream, Sides, reader,
     writer
<1>5. ASSUME NEW a \in Offsets, DeleteRefused(a)
      PROVE Quiet
  BY <1>5 DEF IInv, TypeOK, DeleteRefused, Goto, Avail, Unwritten, status, stream, Sides,
     reader, writer
<1>6. CASE CreateRead \/ CreateChecked \/ CreateRefused
  BY <1>6 DEF IInv, TypeOK, CreateRead, CreateChecked, CreateRefused, Goto, Avail, Unwritten,
     status, stream, Sides, reader, writer
<1>7. CASE Write /\ pc[writer] # "padr"
  BY <1>7 DEF Write, Avail, Unwritten, status
<1>8. CASE UNCHANGED vars
  BY <1>8 DEF vars, status, calls, stream, Avail, Unwritten
<1> QED
  BY <1>1, <1>2, <1>3, <1>4, <1>5, <1>6, <1>7, <1>8 DEF Next, delete, create

(* The pipe implements a bounded first-in first-out stream: $create puts   *)
(* the units of its region at the end, written or blank, the writer writes *)
(* the blank ones in order, the first assignment of $delete takes units    *)
(* from the front, and no other step changes the content.                  *)
THEOREM ImplementsFIFO == Spec => ImplementsStream
<1>1. Init => ST!Init
  <2> SUFFICES ASSUME Init PROVE Content = << >> /\ sent = 0
    BY DEF ST!Init
  <2>1. Content = Run(rcvd, 0, 0 - Unwritten, Tags)
    BY InitOK, ContentIs DEF Init, Avail, Sides, reader
  <2> QED
    BY <2>1 DEF Run, Init
<1>2. (IInv => Content = Run(rcvd, Avail, Avail - Unwritten, Tags))'
  BY ContentIs, PTL
<1>3. IInv /\ IInv' /\ [Next]_vars => [ST!Next]_(ST!vars)
  <2> SUFFICES ASSUME IInv, IInv', [Next]_vars PROVE [ST!Next]_(ST!vars)
    OBVIOUS
  <2>1. Content = Run(rcvd, Avail, Avail - Unwritten, Tags)
    BY ContentIs
  <2>2. Content' = Run(rcvd', Avail', Avail' - Unwritten', Tags)
    BY <1>2
  <2>3. /\ Tags \in Nat \ {0} /\ BUFSIZE \in Nat /\ BUFSIZE < Tags
        /\ rcvd \in 0 .. (Tags - 1) /\ sent \in 0 .. (Tags - 1)
        /\ avail_len \in 0 .. BUFSIZE
        /\ Avail \in 0 .. avail_len /\ Unwritten \in 0 .. BUFSIZE
        /\ written \in 0 .. region[writer].len /\ region[writer].len \in 0 .. BUFSIZE
        /\ sent = Wrap(rcvd + Avail, Tags)
    <3>1. Avail \in 0 .. avail_len
      BY Typed DEF IInv, RegionsOK, Avail
    <3> QED
      BY <3>1, UnwrittenFacts, Typed DEF IInv, DataOK, Tags
  <2>4. Len(Content) = Avail /\ DOMAIN Content = 1 .. Avail
    <3>1. Avail \in 0 .. Tags /\ Avail - Unwritten \in Int
      BY <2>3
    <3>2. DOMAIN Content = 1 .. Avail
      BY <2>1 DEF Run
    <3>3. Len(Run(rcvd, Avail, Avail - Unwritten, Tags)) = Avail
      BY <2>3, <3>1, RunLength
    <3> QED
      BY <2>1, <3>2, <3>3
  <2>5. \A i \in 1 .. Avail : Content[i] = ST!Blank <=> i > Avail - Unwritten
    <3>1. Avail \in 0 .. Tags /\ Avail - Unwritten \in Int
      BY <2>3
    <3>2. ASSUME NEW i \in 1 .. Avail
          PROVE Run(rcvd, Avail, Avail - Unwritten, Tags)[i] = Tags <=> i > Avail - Unwritten
      BY <2>3, <3>1, RunBlank
    <3> QED
      BY <2>1, <3>2 DEF ST!Blank
  <2>6. ASSUME NEW k \in 1 .. BUFSIZE, DeleteStart(k) PROVE ST!Next
    <3>1. /\ Avail = avail_len /\ k =< avail_len /\ Avail' = avail_len - k
          /\ rcvd' = Wrap(rcvd + k, Tags) /\ sent' = sent /\ Unwritten' = Unwritten
      <4>1. rcvd + k \in 0 .. (2 * Tags - 1)
        BY <2>3
      <4>2. /\ region'[reader].len = k /\ pc'[reader] = "delete" /\ pc[reader] = "have"
            /\ region'[writer] = region[writer] /\ pc'[writer] = pc[writer]
            /\ written' = written
        BY <2>6, Typed DEF IInv, TypeOK, DeleteStart, Goto, reader, writer, Sides
      <4> QED
        BY <2>3, <2>6, <4>1, <4>2, ModWrap, Typed DEF IInv, RegionsOK, DeleteStart, Avail,
           Unwritten
    <3>2. Content' = SubSeq(Content, k + 1, Avail)
      <4>1. /\ Avail \in 0 .. Tags /\ k \in 1 .. Avail /\ Avail - Unwritten \in Int
            /\ Avail' = Avail - k /\ Avail' - Unwritten' = (Avail - Unwritten) - k
        BY <2>3, <3>1
      <4>2. Content' = Run(Wrap(rcvd + k, Tags), Avail - k, (Avail - Unwritten) - k, Tags)
        BY <2>2, <3>1, <4>1, Zenon
      <4> QED
        BY <2>1, <2>3, <4>1, <4>2, RunTaken, Zenon
    <3>3. ST!Take(k)
      BY <2>3, <2>4, <3>1, <3>2 DEF ST!Take
    <3> QED
      BY <3>3 DEF ST!Next
  <2>7. CASE CreateLen
    <3> DEFINE k == region[writer].len
    <3>1. /\ Avail = avail_len /\ k \in 0 .. (BUFSIZE - avail_len) /\ Avail' = avail_len + k
          /\ rcvd' = rcvd /\ sent' = (sent + k) % Tags
          /\ Unwritten = 0 /\ Unwritten' = k - written
      <4>1. pc[reader] # "delete" /\ pc'[reader] = pc[reader] /\ pc'[writer] = "padr"
        BY <2>7 DEF IInv, TypeOK, LocksOK, CreateLen, Goto, Sides, reader, writer
      <4> QED
        BY <2>7, <4>1, Typed DEF IInv, RegionsOK, DataOK, CreateLen, Avail, Unwritten
    <3>2. written \in 0 .. k
      BY <2>3
    <3> HIDE DEF k
    <3>3. Content' = Content \o ST!Units(sent, k, written)
      <4>1. /\ Avail \in 0 .. Tags /\ k \in 0 .. (Tags - Avail) /\ Avail - Unwritten = Avail
            /\ Avail' = Avail + k /\ Avail' - Unwritten' = Avail + written
        BY <2>3, <3>1, <3>2
      <4>2. ST!Units(sent, k, written)
              = [i \in 1 .. k |-> IF i =< written
                                  THEN (Wrap(rcvd + Avail, Tags) + i - 1) % Tags ELSE Tags]
        BY <2>3, Zenon DEF ST!Units, ST!Blank
      <4>3. Run(rcvd, Avail + k, Avail + written, Tags)
              = Run(rcvd, Avail, Avail, Tags) \o ST!Units(sent, k, written)
        <5>1. /\ Tags \in Nat \ {0} /\ rcvd \in 0 .. (Tags - 1) /\ Avail \in 0 .. Tags
              /\ k \in 0 .. (Tags - Avail) /\ written \in 0 .. k
          BY <2>3, <3>2, <4>1
        <5>2. Run(rcvd, Avail + k, Avail + written, Tags)
                = Run(rcvd, Avail, Avail, Tags)
                    \o [i \in 1 .. k |-> IF i =< written
                                         THEN (Wrap(rcvd + Avail, Tags) + i - 1) % Tags ELSE Tags]
          BY <5>1, RunPut, Zenon
        <5> QED
          BY <4>2, <5>2, Zenon
      <4> QED
        BY <2>1, <2>2, <3>1, <4>1, <4>3, Zenon
    <3>4. ST!Put(k, written)
      <4>1. \A i \in DOMAIN Content : Content[i] # ST!Blank
        <5>1. \A i \in 1 .. Avail : ~(i > Avail - Unwritten)
          BY <2>3, <3>1
        <5> QED
          BY <2>4, <2>5, <5>1, Zenon
      <4>2. Len(Content) + k =< BUFSIZE
        BY <2>3, <2>4, <3>1
      <4> QED
        BY <3>1, <3>3, <4>1, <4>2, Zenon DEF ST!Put
    <3>5. CASE k = 0
      <4>1. Avail' = Avail /\ sent' = sent % Tags /\ Unwritten' = Unwritten
        <5>0. sent \in Int /\ avail_len \in Int /\ written = 0
          BY <2>3, <3>2, <3>5
        <5>1. sent + k = sent /\ avail_len + k = avail_len /\ k - written = 0
          BY <3>5, <5>0
        <5>2. Avail' = Avail /\ Unwritten' = Unwritten
          BY <3>1, <5>1
        <5>3. sent' = sent % Tags
          BY <3>1, <5>1, Zenon
        <5> QED
          BY <5>2, <5>3
      <4>2. sent % Tags = sent
        <5>1. sent \in 0 .. (2 * Tags - 1) /\ sent < Tags /\ Tags \in Nat \ {0}
          BY <2>3
        <5>2. sent % Tags = Wrap(sent, Tags)
          BY <5>1, ModWrap
        <5> QED
          BY <5>1, <5>2 DEF Wrap
      <4> QED
        BY <2>1, <2>2, <3>1, <4>1, <4>2 DEF ST!vars
    <3>6. CASE k # 0
      <4>1. k \in 1 .. BUFSIZE
        BY <2>3, <3>1, <3>6
      <4> QED
        BY <3>2, <3>4, <4>1 DEF ST!Next
    <3> QED
      BY <3>5, <3>6
  <2>8. CASE Write /\ pc[writer] = "padr"
    <3> DEFINE m == Avail - Unwritten
    <3>1. /\ rcvd' = rcvd /\ Avail' = Avail /\ sent' = sent
          /\ Unwritten' = Unwritten - 1 /\ Unwritten >= 1
      BY <2>3, <2>8 DEF Write, Avail, Unwritten, status
    <3>2. m \in Int /\ m < Avail /\ Avail' - Unwritten' = m + 1
      BY <2>3, <3>1
    <3>3. /\ Content = Run(rcvd, Avail, m, Tags)
          /\ Content' = Run(rcvd, Avail, m + 1, Tags)
      BY <2>1, <2>2, <3>1, <3>2
    <3>4. CASE m < 0
      <4>1. Avail \in Nat
        BY <2>3
      <4>2. Content' = Content
        BY <3>2, <3>3, <3>4, <4>1, RunAllBlank
      <4> QED
        BY <3>1, <4>2 DEF ST!vars
    <3>5. CASE m >= 0
      <4>1. m \in 0 .. (Avail - 1) /\ m + 1 \in 1 .. Avail /\ Avail \in 0 .. Tags
        BY <2>3, <3>2, <3>5
      <4>2. Content' = [Content EXCEPT ![m + 1] = Wrap(rcvd + m, Tags)]
        BY <2>3, <3>3, <4>1, RunWritten
      <4>3. Wrap(rcvd + m, Tags) = (sent + Tags - (Len(Content) + 1 - (m + 1))) % Tags
        <5>1. sent + Tags - (Len(Content) + 1 - (m + 1)) = sent + (Tags - (Avail - m))
          BY <2>3, <2>4, <4>1
        <5>2. /\ sent + (Tags - (Avail - m)) \in 0 .. (2 * Tags - 1)
              /\ Wrap(sent + (Tags - (Avail - m)), Tags) = Wrap(rcvd + m, Tags)
          <6> HIDE DEF m
          <6> QED
            BY <2>3, <4>1 DEF Wrap
        <5> QED
          BY <2>3, <5>1, <5>2, ModWrap
      <4>4. /\ Content[m + 1] = ST!Blank
            /\ \A j \in 1 .. ((m + 1) - 1) : Content[j] # ST!Blank
        <5>1. m + 1 > m /\ \A j \in 1 .. ((m + 1) - 1) : j \in 1 .. Avail /\ ~(j > m)
          BY <4>1
        <5> QED
          BY <2>5, <4>1, <5>1
      <4>5. ST!Write(m + 1)
        BY <3>1, <4>2, <4>3, <4>4, Zenon DEF ST!Write
      <4> QED
        BY <2>4, <4>1, <4>5 DEF ST!Next
    <3> QED
      BY <3>2, <3>4, <3>5
  <2>9. CASE rcvd' = rcvd /\ Avail' = Avail /\ sent' = sent /\ Unwritten' = Unwritten
    BY <2>1, <2>2, <2>9 DEF ST!vars
  <2> QED
    BY <2>6, <2>7, <2>8, <2>9, QuietSteps
<1> QED
  BY <1>1, <1>3, Invariant, PTL DEF Spec, ImplementsStream, ST!Spec
==============================================================================
