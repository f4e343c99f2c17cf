----------------------------- MODULE QueueProofs -----------------------------
(***************************************************************************)
(* Proofs about Queue, for any number of entries, any blocks and any       *)
(* lengths: the invariants the run checks, that no wakeup is lost, and     *)
(* that the queue implements a bounded stream.                             *)
(*                                                                         *)
(* All rest on the inductive invariant IInv.  As in Pipe, $delete moves    *)
(* avail_start and avail_len one after the other and never moves the       *)
(* writer's border; Pending is the number of packets that counts between   *)
(* the two.  The entry at the border is the writer's as long as its user   *)
(* holds the block, and once it is created the last packet is, unless it   *)
(* was deleted (EntriesOK); the packets are allocated, different blocks    *)
(* that carry the next tags of the stream, but for the one the writer has  *)
(* created and not written yet (PacketsOK, StreamOK); and a sleeper has    *)
(* its reason or a wakeup to come (WaitsOK).                               *)
(*                                                                         *)
(* The steps that only move a side from one place to the next share one    *)
(* lemma (MovePreserves); the six that touch the ring, the blocks or the   *)
(* user's region have a lemma each.                                        *)
(***************************************************************************)
EXTENDS Queue, RingLemmas

(* The i-th available entry from the oldest on, counted from 0, and its    *)
(* block; entry number Pending is the writer's border.                     *)
Place(i) == Wrap(avail_start + i, QUEUE_BUFSIZE)
Block(i) == buffer[Place(i)].log_addr

(* The writer's user has a block that is not yet a packet. *)
Holding == pc[writer] \in {"have", "check", "create"}
Filled == Holding /\ written

Asleep(s) == pc[s] = "wait" /\ s \in wait1
OwesWakeup(s) == pc[s] \in {"delete", "padr"}

(* LOCK_ADDR_MOD is held across a step by who is about to wait, and by     *)
(* $delete between its assignments.                                        *)
LocksOK ==
  /\ \A s \in Sides : s \in mod <=> pc[s] \in {"release", "delete"}
  /\ ~(reader \in mod /\ writer \in mod)

(* Only the reader deletes, and only what is there; only the writer        *)
(* creates, and it writes only to the block it was given.                  *)
PlacesOK ==
  /\ pc[writer] # "delete" /\ pc[reader] \notin {"check", "create"}
  /\ pc[reader] = "delete" => avail_len > 0
  /\ pc[writer] \notin {"have", "check", "create", "padr"} => ~written

(* The entry the reader was given is still the first one, and the entry at *)
(* the border is the one the writer was given, with its block allocated.   *)
(* Once created, its block is the last packet's, or no packet is left.     *)
EntriesOK ==
  /\ pc[reader] = "have" => avail_len > 0 /\ region[reader] = buffer[avail_start]
  /\ Holding => /\ avail_len < QUEUE_BUFSIZE
                /\ buffer[Place(Pending)] = region[writer]
                /\ region[writer].log_addr \in alloc
  /\ pc[writer] = "padr" /\ Pending > 0 =>
       Block(Pending - 1) = region[writer].log_addr

(* The packets are allocated and different blocks, none of them the        *)
(* writer's, and carry the next tags for the reader if they are written.   *)
PacketsOK ==
  /\ \A i \in 0 .. (Pending - 1) :
       /\ Block(i) \in alloc
       /\ i < Pending - Unwritten => mem[Block(i)] = Wrap(rcvd + i, Tags)
       /\ Holding => region[writer].log_addr # Block(i)
  /\ \A i, j \in 0 .. (Pending - 1) : i # j => Block(i) # Block(j)

(* The writer's next tag follows the last packet's, and is in its block    *)
(* once the user has written it.                                           *)
StreamOK ==
  /\ sent = Wrap(rcvd + Pending, Tags)
  /\ Filled => mem[region[writer].log_addr] = sent

(***************************************************************************)
(* Who decides to wait finds the queue empty (the reader) or full (the     *)
(* writer), and who sleeps still does, or the other side has changed the   *)
(* status and is on its way to the wakeup in $padr.                        *)
(***************************************************************************)
SleepersHaveReason ==
  \A s \in Sides : Asleep(s) => MustWait(s) \/ OwesWakeup(Other(s))

WaitsOK ==
  /\ \A s \in Sides : pc[s] = "release" => MustWait(s)
  /\ SleepersHaveReason

(* The inductive invariant. *)
IInv == TypeOK /\ LocksOK /\ PlacesOK /\ EntriesOK /\ PacketsOK /\ StreamOK /\ WaitsOK

------------------------------------------------------------------------------
(* The places of a side, and the arguments of $gadr. *)
Places == {"idle", "gadr", "release", "wait", "again", "have", "delete", "check",
           "create", "padr"}
RequestSet == [len : Lens \cup {0}, try : TryLens \cup {0}, action : action_t]

(* The parts of the type invariant as the steps below need them. *)
LEMMA Typed ==
  ASSUME TypeOK
  PROVE /\ QUEUE_BUFSIZE \in Nat \ {0} /\ Tags \in Nat \ {0}
        /\ Tags = 2 * QUEUE_BUFSIZE
        /\ avail_start \in 0 .. (QUEUE_BUFSIZE - 1)
        /\ avail_len \in Nat /\ avail_len =< QUEUE_BUFSIZE
        /\ sent \in 0 .. (Tags - 1) /\ rcvd \in 0 .. (Tags - 1)
        /\ pc \in [Sides -> Places] /\ req \in [Sides -> RequestSet]
        /\ reader \in Sides /\ writer \in Sides
        /\ Unwritten \in {0, 1}
  BY QueueAssumption DEF TypeOK, Slots, Tags, Sides, Places, RequestSet, Unwritten

(* What $gadr returns when it has no region, and the cleared arguments. *)
LEMMA EmptyTyped == NoEntry \in queue_entry_t /\ NoReq \in RequestSet
  BY DEF NoEntry, queue_entry_t, NoReq, RequestSet, action_t

(* The number of packets. *)
LEMMA PendingTyped ==
  ASSUME TypeOK, PlacesOK
  PROVE Pending \in 0 .. QUEUE_BUFSIZE /\ Pending =< avail_len
  BY Typed DEF Pending, PlacesOK

(* Places of entries are slots of the ring, and the first one is           *)
(* avail_start.                                                            *)
LEMMA PlaceTyped ==
  ASSUME TypeOK, NEW i \in 0 .. QUEUE_BUFSIZE
  PROVE Place(i) \in Slots /\ Place(0) = avail_start
  BY Typed DEF Place, Wrap, Slots

(* The border $gadr computes for the writer. *)
LEMMA BorderIs ==
  ASSUME TypeOK
  PROVE writer_start = Place(avail_len)
<1>1. avail_start + avail_len \in 0 .. (2 * QUEUE_BUFSIZE - 1)
  BY Typed
<1> QED
  BY <1>1, Typed, ModWrap DEF writer_start, Place

(* A step that changes neither the ring nor the blocks, and by which no    *)
(* user comes to hold something.                                           *)
LEMMA DataKept ==
  ASSUME EntriesOK, PacketsOK, StreamOK, UNCHANGED <<status, nest, tags>>,
         Pending' = Pending, Unwritten' = Unwritten,
         Holding' => Holding /\ region'[writer] = region[writer],
         Filled' => Filled,
         pc'[writer] = "padr" => pc[writer] = "padr" /\ region'[writer] = region[writer],
         pc'[reader] = "have" => pc[reader] = "have" /\ region'[reader] = region[reader]
  PROVE EntriesOK' /\ PacketsOK' /\ StreamOK'
<1>1. \A i : Place(i)' = Place(i) /\ Block(i)' = Block(i)
  BY DEF Place, Block, status
<1>2. EntriesOK'
  BY <1>1 DEF EntriesOK, status, nest
<1>3. PacketsOK'
  BY <1>1 DEF PacketsOK, nest, tags
<1>4. StreamOK'
  BY DEF StreamOK, Filled, Holding, nest, tags
<1> QED
  BY <1>2, <1>3, <1>4

(* A step that keeps avail_len, by which nobody goes to sleep without a    *)
(* reason and nobody forgets a wakeup.                                     *)
LEMMA WaitsKept ==
  ASSUME WaitsOK, avail_len' = avail_len,
         \A s \in Sides :
           /\ pc'[s] = "release" => pc[s] = "release" \/ MustWait(s)
           /\ Asleep(s)' => Asleep(s) \/ pc[s] = "release"
           /\ Asleep(s)' /\ OwesWakeup(Other(s)) => OwesWakeup(Other(s))'
  PROVE WaitsOK'
<1>1. \A s \in Sides : MustWait(s)' = MustWait(s)
  BY DEF MustWait
<1> QED
  BY <1>1 DEF WaitsOK, SleepersHaveReason

(* Side s goes from one place to another; ring, blocks and tags stay. *)
Move(s, to) ==
  /\ pc' = [pc EXCEPT ![s] = to]
  /\ UNCHANGED <<status, nest, tags>>

(* The moves by which nobody comes to hold a region or to wait. *)
Simple(s, to) ==
  \/ pc[s] = "idle" /\ to = "gadr"
  \/ pc[s] \in {"gadr", "again", "have", "check", "padr"} /\ to = "idle"
  \/ pc[s] = "release" /\ to = "wait"
  \/ pc[s] = "wait" /\ to = "again"
  \/ s = writer /\ pc[s] = "have" /\ to = "check"
  \/ pc[s] = "check" /\ to = "create"

(* Calls and refusals of $gadr, being woken, $padr, a failed $delete and   *)
(* the check of $create: a side goes to its next place, releases the lock  *)
(* if it held it, and after $padr the other side does not sleep.           *)
LEMMA MovePreserves ==
  ASSUME IInv, TypeOK', NEW s \in Sides, NEW to, Move(s, to), Simple(s, to),
         mod' = mod \ {s}, wait1' \subseteq wait1,
         pc[s] = "padr" => Other(s) \notin wait1' /\ (s = writer => written),
         written' <=> written /\ ~(s = writer /\ to = "idle"),
         region'[Other(s)] = region[Other(s)],
         to \in {"check", "create"} => region'[s] = region[s]
  PROVE IInv'
<1>1. /\ pc'[s] = to /\ \A u \in Sides \ {s} : pc'[u] = pc[u]
      /\ Other(s) \in Sides /\ \A u \in Sides : u # s <=> u = Other(s)
  BY DEF Move, IInv, TypeOK, Sides, Other, reader, writer
<1>2. LocksOK'
  BY <1>1 DEF IInv, LocksOK, Simple
<1>3. PlacesOK'
  <2>1. /\ pc'[writer] # "delete" /\ pc'[reader] \notin {"check", "create"}
        /\ pc'[reader] = "delete" => avail_len' > 0
    BY <1>1 DEF IInv, PlacesOK, Simple, Move, status, Sides, reader, writer
  <2>2. pc'[writer] \notin {"have", "check", "create", "padr"} => ~written'
    <3>1. CASE s = writer
      BY <1>1, <3>1 DEF IInv, PlacesOK, Simple
    <3>2. CASE s # writer
      BY <1>1, <3>2 DEF IInv, PlacesOK, Sides
    <3> QED
      BY <3>1, <3>2
  <2> QED
    BY <2>1, <2>2 DEF PlacesOK
<1>4. Pending' = Pending /\ Unwritten' = Unwritten
  <2>1. Pending' = Pending
    BY <1>1 DEF IInv, PlacesOK, Pending, Simple, Move, status, Sides, reader, writer
  <2>2. Unwritten' = Unwritten
    BY <1>1 DEF IInv, PlacesOK, Unwritten, Simple, Sides, Other, reader, writer
  <2> QED
    BY <2>1, <2>2
<1>5. /\ Holding' => Holding /\ region'[writer] = region[writer]
      /\ Filled' => Filled
      /\ pc'[writer] = "padr" => pc[writer] = "padr" /\ region'[writer] = region[writer]
      /\ pc'[reader] = "have" => pc[reader] = "have" /\ region'[reader] = region[reader]
  BY <1>1 DEF IInv, PlacesOK, Simple, Holding, Filled, Sides, Other, reader, writer
<1>6. EntriesOK' /\ PacketsOK' /\ StreamOK'
  BY <1>4, <1>5, DataKept DEF IInv, Move
<1>7. WaitsOK'
  <2>1. ASSUME NEW u \in Sides
        PROVE /\ pc'[u] = "release" => pc[u] = "release" \/ MustWait(u)
              /\ Asleep(u)' => Asleep(u) \/ pc[u] = "release"
              /\ Asleep(u)' /\ OwesWakeup(Other(u)) => OwesWakeup(Other(u))'
    <3>1. CASE u = s
      BY <1>1, <3>1 DEF Simple, Asleep, OwesWakeup, Sides, Other, reader, writer
    <3>2. CASE u # s
      <4>1. u = Other(s) /\ s = Other(u)
        BY <3>2 DEF Sides, Other, reader, writer
      <4> QED
        BY <1>1, <3>2, <4>1 DEF Simple, Asleep, OwesWakeup
    <3> QED
      BY <3>1, <3>2
  <2> QED
    BY <2>1, WaitsKept DEF IInv, Move, status
<1> QED
  BY <1>2, <1>3, <1>6, <1>7 DEF IInv

(* A user calls $gadr. *)
LEMMA CallGadrPreserves ==
  ASSUME IInv, NEW s \in Sides, NEW l \in Lens, NEW y \in TryLens, NEW a \in action_t,
         CallGadr(s, l, y, a)
  PROVE IInv'
<1>1. [len |-> l, try |-> y, action |-> a] \in RequestSet
  BY DEF RequestSet
<1>2. req' \in [Sides -> RequestSet]
  BY <1>1, Typed DEF IInv, CallGadr
<1>3. pc' \in [Sides -> Places]
  BY Typed DEF IInv, CallGadr, Goto, Places
<1>4. TypeOK'
  BY <1>2, <1>3 DEF IInv, TypeOK, RequestSet, Places, CallGadr, status, nest, locks, tags
<1>5. s \notin mod
  BY DEF IInv, LocksOK, CallGadr
<1> QED
  BY <1>4, <1>5, MovePreserves DEF CallGadr, Goto, Move, Simple, locks

(* $gadr returns without a region: the user does not wait, or :<mem has no *)
(* block left.                                                             *)
LEMMA GadrRefusedPreserves ==
  ASSUME IInv, NEW s \in Sides, GadrRefused(s) \/ (s = writer /\ GadrNoBlock)
  PROVE IInv'
<1>1. /\ pc[s] \in {"gadr", "again"} /\ mod = {} /\ pc' = [pc EXCEPT ![s] = "idle"]
      /\ region' = [region EXCEPT ![s] = NoEntry] /\ req' = [req EXCEPT ![s] = NoReq]
      /\ UNCHANGED <<status, nest, locks, written, seen, tags>>
  BY DEF GadrRefused, GadrNoBlock, GadrReturn, Goto, Locked
<1>2. req' \in [Sides -> RequestSet] /\ pc' \in [Sides -> Places]
  BY <1>1, Typed, EmptyTyped DEF IInv, Places
<1>3. region' \in [Sides -> queue_entry_t]
  BY <1>1, EmptyTyped DEF IInv, TypeOK
<1>4. TypeOK'
  BY <1>1, <1>2, <1>3 DEF IInv, TypeOK, RequestSet, Places, status, nest, locks, tags
<1>5. region'[Other(s)] = region[Other(s)]
  BY <1>1 DEF IInv, TypeOK, Sides, Other, reader, writer
<1>6. s = writer => ~written
  BY <1>1 DEF IInv, PlacesOK
<1> QED
  BY <1>1, <1>4, <1>5, <1>6, MovePreserves DEF Move, Simple, locks

(* The waiter releases LOCK_ADDR_MOD, and later finds its wait place free. *)
LEMMA GadrGoesOnPreserves ==
  ASSUME IInv, NEW s \in Sides, GadrRelease(s) \/ GadrWoken(s)
  PROVE IInv'
<1>1. pc' \in [Sides -> Places] /\ mod' \in SUBSET Sides
  BY Typed DEF IInv, TypeOK, GadrRelease, GadrWoken, Goto, Places, locks
<1>2. TypeOK'
  BY <1>1 DEF IInv, TypeOK, Places, GadrRelease, GadrWoken, status, nest, locks, tags
<1>3. mod' = mod \ {s}
  BY DEF IInv, TypeOK, LocksOK, GadrRelease, GadrWoken, Sides, reader, writer, locks
<1> QED
  BY <1>2, <1>3, MovePreserves DEF GadrRelease, GadrWoken, Goto, Move, Simple, locks

(* $padr frees the wait place of the other side. *)
LEMMA PadrPreserves ==
  ASSUME IInv, NEW s \in Sides, padr(s)
  PROVE IInv'
<1>1. pc' \in [Sides -> Places] /\ wait1' \in SUBSET Sides
  BY Typed DEF IInv, TypeOK, padr, Goto, Places
<1>2. region' \in [Sides -> queue_entry_t]
  BY EmptyTyped DEF IInv, TypeOK, padr
<1>3. TypeOK'
  BY <1>1, <1>2 DEF IInv, TypeOK, Places, padr, status, nest, tags
<1>4. s \notin mod
  BY DEF IInv, LocksOK, padr
<1>5. region'[Other(s)] = region[Other(s)]
  BY DEF IInv, TypeOK, padr, Sides, Other, reader, writer
<1> QED
  BY <1>3, <1>4, <1>5, MovePreserves DEF padr, Goto, Move, Simple

(* $delete fails: :<mem refused, or the user named another packet. *)
LEMMA DeleteFailedPreserves ==
  ASSUME IInv, DeleteFailed
  PROVE IInv'
<1>1. pc' \in [Sides -> Places]
  BY Typed DEF IInv, DeleteFailed, Goto, Places
<1>2. region' \in [Sides -> queue_entry_t]
  BY EmptyTyped DEF IInv, TypeOK, DeleteFailed
<1>3. TypeOK'
  BY <1>1, <1>2 DEF IInv, TypeOK, Places, DeleteFailed, status, nest, locks, tags
<1>4. region'[Other(reader)] = region[Other(reader)] /\ reader \in Sides
  BY DEF IInv, TypeOK, DeleteFailed, Sides, Other, reader, writer
<1> QED
  BY <1>3, <1>4, MovePreserves DEF DeleteFailed, Goto, Move, Simple, locks, reader, writer

(* The check of $create: it reads avail_start, then finds the entry right  *)
(* or wrong.                                                               *)
LEMMA CreateCheckPreserves ==
  ASSUME IInv, CreateRead \/ CreateChecked \/ CreateRefused
  PROVE IInv'
<1>1. pc' \in [Sides -> Places] /\ seen' \in Slots
  <2>1. pc' \in [Sides -> Places]
    BY Typed DEF IInv, CreateRead, CreateChecked, CreateRefused, Goto, Places
  <2>2. 0 \in Slots /\ avail_start \in Slots
    BY Typed DEF IInv, Slots
  <2> QED
    BY <2>1, <2>2 DEF CreateRead, CreateChecked, CreateRefused
<1>2. region' \in [Sides -> queue_entry_t]
  BY EmptyTyped DEF IInv, TypeOK, CreateRead, CreateChecked, CreateRefused
<1>3. TypeOK'
  BY <1>1, <1>2 DEF IInv, TypeOK, Places, CreateRead, CreateChecked, CreateRefused, status,
     nest, locks, tags
<1>4. region'[Other(writer)] = region[Other(writer)] /\ writer \in Sides
  BY DEF IInv, TypeOK, CreateRead, CreateChecked, CreateRefused, Sides, Other, reader, writer
<1>5. writer \notin mod
  BY <1>4 DEF IInv, LocksOK, CreateRead, CreateChecked, CreateRefused
<1> QED
  BY <1>3, <1>4, <1>5, MovePreserves
     DEF CreateRead, CreateChecked, CreateRefused, Goto, Move, Simple, locks

------------------------------------------------------------------------------
(* $gadr decides to wait: it holds LOCK_ADDR_MOD, so what it has just seen *)
(* is still true.                                                          *)
LEMMA GadrWaitPreserves ==
  ASSUME IInv, NEW s \in Sides, GadrWait(s)
  PROVE IInv'
<1>1. /\ pc[s] \in {"gadr", "again"} /\ mod = {} /\ mod' = {s} /\ MustWait(s)
      /\ pc' = [pc EXCEPT ![s] = "release"] /\ wait1' = wait1 \cup {s}
      /\ UNCHANGED <<status, nest, req, region, written, seen, tags>>
  BY DEF GadrWait, Locked, Goto
<1>2. pc'[s] = "release" /\ \A u \in Sides \ {s} : pc'[u] = pc[u]
  BY <1>1 DEF IInv, TypeOK
<1>3. TypeOK'
  <2>1. pc' \in [Sides -> Places] /\ mod' \in SUBSET Sides /\ wait1' \in SUBSET Sides
    BY <1>1, Typed DEF IInv, TypeOK, Places
  <2> QED
    BY <1>1, <2>1 DEF IInv, TypeOK, Places, status, nest, tags
<1>4. LocksOK'
  BY <1>1, <1>2 DEF IInv, LocksOK, Sides, reader, writer
<1>5. PlacesOK'
  BY <1>1, <1>2 DEF IInv, PlacesOK, Sides, reader, writer, status
<1>6. /\ Pending' = Pending /\ Unwritten' = Unwritten
      /\ (Holding' => Holding) /\ (Filled' => Filled)
      /\ pc'[writer] = "padr" => pc[writer] = "padr"
      /\ pc'[reader] = "have" => pc[reader] = "have"
  BY <1>1, <1>2 DEF Pending, Unwritten, Holding, Filled, status, Sides, reader, writer
<1>7. EntriesOK' /\ PacketsOK' /\ StreamOK'
  BY <1>1, <1>6, DataKept DEF IInv
<1>8. WaitsOK'
  <2>1. ASSUME NEW u \in Sides
        PROVE /\ pc'[u] = "release" => pc[u] = "release" \/ MustWait(u)
              /\ Asleep(u)' => Asleep(u) \/ pc[u] = "release"
              /\ Asleep(u)' /\ OwesWakeup(Other(u)) => OwesWakeup(Other(u))'
    BY <1>1, <1>2 DEF Asleep, OwesWakeup, Sides, Other, reader, writer
  <2> QED
    BY <1>1, <2>1, WaitsKept DEF IInv, status
<1> QED
  BY <1>3, <1>4, <1>5, <1>7, <1>8 DEF IInv

(* A step of side s by which nobody comes to wait, and which frees no lock *)
(* and changes neither the number of packets nor the wakeups owed.         *)
LEMMA OthersKept ==
  ASSUME IInv, NEW s \in Sides, NEW to \in {"idle", "have"},
         pc[s] \in {"gadr", "again"},
         pc' = [pc EXCEPT ![s] = to],
         UNCHANGED <<avail_start, avail_len, locks, written>>
  PROVE LocksOK' /\ PlacesOK' /\ WaitsOK' /\ Pending' = Pending /\ Unwritten' = Unwritten
<1>1. pc'[s] = to /\ \A u \in Sides \ {s} : pc'[u] = pc[u]
  BY DEF IInv, TypeOK
<1>2. LocksOK'
  BY <1>1 DEF IInv, LocksOK, locks
<1>3. PlacesOK' /\ Pending' = Pending /\ Unwritten' = Unwritten
  BY <1>1 DEF IInv, PlacesOK, Pending, Unwritten, Sides, reader, writer
<1>4. ASSUME NEW u \in Sides
      PROVE /\ pc'[u] = "release" => pc[u] = "release" \/ MustWait(u)
            /\ Asleep(u)' => Asleep(u) \/ pc[u] = "release"
            /\ Asleep(u)' /\ OwesWakeup(Other(u)) => OwesWakeup(Other(u))'
  BY <1>1 DEF Asleep, OwesWakeup, Sides, Other, reader, writer, locks
<1>5. WaitsOK'
  BY <1>4, WaitsKept DEF IInv
<1> QED
  BY <1>2, <1>3, <1>5

(* strmr $gadr returns the first packet, or none if its length is wrong. *)
LEMMA GadrReadPreserves ==
  ASSUME IInv, GadrRead
  PROVE IInv'
<1>1. /\ pc[reader] \in {"gadr", "again"} /\ mod = {} /\ avail_len # 0
      /\ UNCHANGED <<status, nest, locks, written, seen, tags>>
  BY DEF GadrRead, Locked, MustWait
<1>2. PICK e \in {NoEntry, buffer[avail_start]} :
        /\ region' = [region EXCEPT ![reader] = e] /\ req' = [req EXCEPT ![reader] = NoReq]
        /\ pc' = [pc EXCEPT ![reader] = IF e = NoEntry THEN "idle" ELSE "have"]
  BY DEF GadrRead, GadrReturn, Goto
<1>3. e \in queue_entry_t
  BY EmptyTyped DEF IInv, TypeOK
<1>4. TypeOK'
  <2>1. pc' \in [Sides -> Places] /\ req' \in [Sides -> RequestSet]
    BY <1>2, Typed, EmptyTyped DEF IInv, Places
  <2>2. region' \in [Sides -> queue_entry_t]
    BY <1>2, <1>3 DEF IInv, TypeOK
  <2> QED
    BY <1>1, <2>1, <2>2 DEF IInv, TypeOK, RequestSet, Places, status, nest, locks, tags
<1>5. LocksOK' /\ PlacesOK' /\ WaitsOK' /\ Pending' = Pending /\ Unwritten' = Unwritten
  <2>1. reader \in Sides /\ UNCHANGED <<avail_start, avail_len, locks, written>>
    BY <1>1 DEF status, Sides
  <2>2. CASE e = NoEntry
    BY <1>1, <1>2, <2>1, <2>2, OthersKept
  <2>3. CASE e # NoEntry
    BY <1>1, <1>2, <2>1, <2>3, OthersKept
  <2> QED
    BY <2>2, <2>3
<1>6. /\ pc'[writer] = pc[writer] /\ region'[writer] = region[writer]
      /\ pc'[reader] = "have" => region'[reader] = buffer[avail_start]
  BY <1>2 DEF IInv, TypeOK, Sides, reader, writer
<1>7. \A i : Place(i)' = Place(i) /\ Block(i)' = Block(i)
  BY <1>1 DEF Place, Block, status
<1>8. EntriesOK'
  BY <1>1, <1>5, <1>6, <1>7, Typed DEF IInv, EntriesOK, Holding, status, nest
<1>9. PacketsOK' /\ StreamOK'
  BY <1>1, <1>5, <1>6, <1>7 DEF IInv, PacketsOK, StreamOK, Holding, Filled, nest, tags
<1> QED
  BY <1>4, <1>5, <1>8, <1>9 DEF IInv

(* strmw $gadr notes a fresh block at the border.  The lock keeps $delete  *)
(* out, so the border is the true one, and it is no entry of a packet.     *)
LEMMA GadrWritePreserves ==
  ASSUME IInv, NEW b \in Blocks, GadrWrite(b)
  PROVE IInv'
<1> DEFINE e == [log_addr |-> b, log_len |-> req[writer].len]
<1>1. /\ pc[writer] \in {"gadr", "again"} /\ mod = {} /\ avail_len # QUEUE_BUFSIZE
      /\ b \notin alloc /\ alloc' = alloc \cup {b}
      /\ buffer' = [buffer EXCEPT ![writer_start] = e]
      /\ UNCHANGED <<avail_start, avail_len, mem, locks, written, seen, tags>>
  BY DEF GadrWrite, Locked, MustWait, reader, writer
<1>2. e # NoEntry /\ e.log_addr = b
  BY QueueAssumption DEF NoEntry
<1>3. /\ region' = [region EXCEPT ![writer] = e] /\ req' = [req EXCEPT ![writer] = NoReq]
      /\ pc' = [pc EXCEPT ![writer] = "have"]
  BY <1>2 DEF GadrWrite, GadrReturn, Goto
<1>4. e \in queue_entry_t
  <2>1. req[writer] \in RequestSet
    BY Typed DEF IInv
  <2>2. req[writer].len \in Lens \cup {0}
    BY <2>1 DEF RequestSet
  <2> QED
    BY <2>2 DEF queue_entry_t
<1> HIDE DEF e
<1>5. pc[reader] # "delete" /\ Pending = avail_len
  BY <1>1 DEF IInv, LocksOK, Pending, Sides
<1>6. writer_start = Place(Pending) /\ writer_start \in Slots /\ Pending < QUEUE_BUFSIZE
  BY <1>1, <1>5, Typed, BorderIs, PlaceTyped DEF IInv
<1>7. TypeOK'
  <2>1. pc' \in [Sides -> Places] /\ req' \in [Sides -> RequestSet]
    BY <1>3, Typed, EmptyTyped DEF IInv, Places
  <2>2. region' \in [Sides -> queue_entry_t]
    BY <1>3, <1>4 DEF IInv, TypeOK
  <2>3. buffer' \in [Slots -> queue_entry_t] /\ alloc' \subseteq Blocks
    BY <1>1, <1>4, <1>6 DEF IInv, TypeOK
  <2> QED
    BY <1>1, <2>1, <2>2, <2>3 DEF IInv, TypeOK, RequestSet, Places, locks, tags
<1>8. LocksOK' /\ PlacesOK' /\ WaitsOK' /\ Pending' = Pending /\ Unwritten' = Unwritten
  <2>1. writer \in Sides
    BY DEF Sides
  <2> QED
    BY <1>1, <1>3, <2>1, OthersKept
<1>9. /\ pc'[reader] = pc[reader] /\ region'[reader] = region[reader]
      /\ pc'[writer] = "have" /\ region'[writer] = e /\ ~written'
  BY <1>1, <1>3 DEF IInv, TypeOK, PlacesOK, Sides, reader, writer
<1>10. ASSUME NEW i \in 0 .. (Pending - 1)
       PROVE /\ Place(i)' = Place(i) /\ buffer'[Place(i)] = buffer[Place(i)]
             /\ Block(i)' = Block(i)
  <2>1. i \in 0 .. (QUEUE_BUFSIZE - 1) /\ Pending \in 0 .. (QUEUE_BUFSIZE - 1) /\ i # Pending
    BY <1>5, <1>6, Typed DEF IInv
  <2>2. Place(i) # Place(Pending) /\ Place(i) \in Slots
    BY <2>1, WrapInjective, PlaceTyped, Typed DEF IInv, Place
  <2>3. Place(i)' = Place(i)
    BY <1>1 DEF Place
  <2>4. buffer'[Place(i)] = buffer[Place(i)]
    BY <1>1, <1>6, <2>2 DEF IInv, TypeOK
  <2> QED
    BY <2>3, <2>4 DEF Block
<1>11. EntriesOK'
  <2>1. ASSUME pc'[reader] = "have"
        PROVE avail_len' > 0 /\ region'[reader] = buffer'[avail_start']
    <3>1. avail_len > 0 /\ region[reader] = buffer[avail_start] /\ 0 \in 0 .. (Pending - 1)
      BY <1>5, <1>9, <2>1, Typed DEF IInv, EntriesOK
    <3>2. Place(0) = avail_start
      BY PlaceTyped, Typed DEF IInv
    <3> QED
      BY <1>1, <1>9, <1>10, <3>1, <3>2
  <2>2. avail_len' < QUEUE_BUFSIZE /\ region'[writer].log_addr \in alloc'
    BY <1>1, <1>2, <1>5, <1>6, <1>9
  <2>3. buffer'[Place(Pending)'] = region'[writer]
    <3>1. Place(Pending)' = Place(Pending)
      BY <1>1, <1>8 DEF Place
    <3> QED
      BY <1>1, <1>6, <1>9, <3>1 DEF IInv, TypeOK
  <2> QED
    BY <1>9, <2>1, <2>2, <2>3 DEF EntriesOK
<1>12. PacketsOK'
  <2>1. ASSUME NEW i \in 0 .. (Pending - 1)
        PROVE /\ Block(i)' \in alloc'
              /\ i < Pending - Unwritten => mem'[Block(i)'] = Wrap(rcvd' + i, Tags)
              /\ region'[writer].log_addr # Block(i)'
    BY <1>1, <1>2, <1>9, <1>10 DEF IInv, PacketsOK, tags
  <2>2. \A i, j \in 0 .. (Pending - 1) : i # j => Block(i)' # Block(j)'
    BY <1>10 DEF IInv, PacketsOK
  <2> QED
    BY <1>8, <2>1, <2>2 DEF PacketsOK
<1>13. StreamOK'
  BY <1>1, <1>8, <1>9 DEF IInv, StreamOK, Filled, tags
<1> QED
  BY <1>7, <1>8, <1>11, <1>12, <1>13 DEF IInv

(* The writer's user writes its packet: before $create its block is no     *)
(* packet's, afterwards it is the last packet's if that is still there.    *)
LEMMA WritePreserves ==
  ASSUME IInv, Write
  PROVE IInv'
<1> DEFINE b == region[writer].log_addr
<1>1. /\ pc[writer] \in {"have", "padr"} /\ ~written /\ written'
      /\ mem' = [mem EXCEPT ![b] = Tag % Tags]
      /\ UNCHANGED <<status, alloc, locks, pc, req, region, seen, tags>>
  BY DEF Write
<1>2. Tag \in 0 .. (2 * Tags - 1) /\ Tag % Tags = Wrap(Tag, Tags) /\ Tag % Tags \in 0 .. Tags
  <2>1. Tag \in 0 .. (2 * Tags - 1)
    BY Typed DEF IInv, Tag
  <2>2. Tag % Tags = Wrap(Tag, Tags)
    BY <2>1, ModWrap, Typed DEF IInv
  <2> QED
    BY <2>1, <2>2, Typed DEF IInv, Wrap
<1>3. TypeOK'
  <2>1. mem' \in [Blocks -> 0 .. Tags]
    BY <1>1, <1>2 DEF IInv, TypeOK
  <2>2. written' \in BOOLEAN
    BY DEF Write
  <2> QED
    BY <1>1, <2>1, <2>2 DEF IInv, TypeOK, status, locks, tags
<1>4. LocksOK' /\ PlacesOK'
  BY <1>1 DEF IInv, LocksOK, PlacesOK, locks, status
<1>5. WaitsOK'
  BY <1>1, WaitsKept DEF IInv, Asleep, OwesWakeup, locks, status
<1>6. /\ Pending' = Pending /\ Unwritten' = 0 /\ Holding' = Holding
      /\ Unwritten = IF pc[writer] = "padr" THEN 1 ELSE 0
  BY <1>1 DEF Pending, Unwritten, Holding, status
<1>7. \A i : Place(i)' = Place(i) /\ Block(i)' = Block(i)
  BY <1>1 DEF Place, Block, status
<1>8. EntriesOK'
  BY <1>1, <1>6, <1>7 DEF IInv, EntriesOK, status
<1> HIDE DEF b
<1>9. ASSUME NEW i \in 0 .. (Pending - 1), Block(i) # b
      PROVE i < Pending - Unwritten /\ mem'[Block(i)] = Wrap(rcvd + i, Tags)
  <2>1. Block(i) \in Blocks
    BY DEF IInv, TypeOK, PacketsOK
  <2>2. i < Pending - Unwritten
    <3>1. CASE pc[writer] = "padr"
      <4>1. Pending > 0 /\ i # Pending - 1
        BY <1>9, <3>1, PendingTyped DEF IInv, EntriesOK, b
      <4> QED
        BY <1>6, <3>1, <4>1, PendingTyped DEF IInv
    <3>2. CASE pc[writer] # "padr"
      BY <1>6, <3>2, PendingTyped DEF IInv
    <3> QED
      BY <3>1, <3>2
  <2>3. mem[Block(i)] = Wrap(rcvd + i, Tags)
    BY <2>2 DEF IInv, PacketsOK
  <2>4. mem'[Block(i)] = mem[Block(i)]
    BY <1>1, <1>9, <2>1 DEF IInv, TypeOK
  <2> QED
    BY <2>2, <2>3, <2>4
<1>10. ASSUME NEW i \in 0 .. (Pending - 1), Block(i) = b
       PROVE mem'[Block(i)] = Wrap(rcvd + i, Tags)
  <2>1. pc[writer] = "padr"
    BY <1>1, <1>10 DEF IInv, PacketsOK, Holding, b
  <2>2. Pending \in 1 .. QUEUE_BUFSIZE /\ Pending - 1 \in 0 .. (Pending - 1)
    BY PendingTyped DEF IInv
  <2>3. Block(Pending - 1) = b
    BY <2>1, <2>2 DEF IInv, EntriesOK, b
  <2>4. i = Pending - 1
    BY <1>10, <2>2, <2>3 DEF IInv, PacketsOK
  <2>5. b \in Blocks
    BY <1>10 DEF IInv, TypeOK, PacketsOK
  <2>6. mem'[b] = Wrap(Tag, Tags)
    BY <1>1, <1>2, <2>5 DEF IInv, TypeOK
  <2>7. Tag = Wrap(rcvd + Pending, Tags) + Tags - 1
    BY <2>1 DEF IInv, StreamOK, Tag
  <2>8. Wrap(Tag, Tags) = Wrap(rcvd + (Pending - 1), Tags)
    BY <2>2, <2>7, Typed DEF IInv, Wrap
  <2> QED
    BY <1>10, <2>4, <2>6, <2>8
<1>11. PacketsOK'
  <2>1. ASSUME NEW i \in 0 .. (Pending - 1)
        PROVE mem'[Block(i)] = Wrap(rcvd + i, Tags)
    BY <1>9, <1>10
  <2> QED
    BY <1>1, <1>6, <1>7, <2>1 DEF IInv, PacketsOK, tags
<1>12. StreamOK'
  <2>1. ASSUME Holding PROVE mem'[b] = sent
    <3>1. pc[writer] = "have" /\ b \in Blocks
      BY <1>1, <2>1 DEF IInv, TypeOK, EntriesOK, Holding, b
    <3>2. Tag = sent /\ Wrap(sent, Tags) = sent
      BY <3>1, Typed DEF IInv, Tag, Wrap
    <3> QED
      BY <1>1, <1>2, <3>1, <3>2 DEF IInv, TypeOK
  <2> QED
    BY <1>1, <1>6, <2>1 DEF IInv, StreamOK, Filled, tags, b
<1> QED
  BY <1>3, <1>4, <1>5, <1>8, <1>11, <1>12 DEF IInv

(* The first assignment of $delete: the block of the first packet is freed *)
(* and the entry is left behind; every other packet moves up by one place, *)
(* and the border stays.                                                   *)
LEMMA DeleteStartPreserves ==
  ASSUME IInv, DeleteStart
  PROVE IInv'
<1> DEFINE d == region[reader].log_addr
<1>1. /\ pc[reader] = "have" /\ mod = {} /\ mod' = {reader}
      /\ alloc' = alloc \ {d} /\ mem' = [mem EXCEPT ![d] = Tags]
      /\ avail_start' = (avail_start + 1) % QUEUE_BUFSIZE
      /\ rcvd' = (rcvd + 1) % Tags /\ pc' = [pc EXCEPT ![reader] = "delete"]
      /\ UNCHANGED <<avail_len, buffer, wait1, req, region, written, seen, sent>>
  BY DEF DeleteStart, Goto
<1>2. /\ pc'[reader] = "delete" /\ pc'[writer] = pc[writer]
  BY <1>1 DEF IInv, TypeOK, Sides, reader, writer
<1>3. avail_len > 0 /\ Pending = avail_len /\ Pending' = avail_len - 1
  BY <1>1, <1>2 DEF IInv, EntriesOK, Pending
<1>4. /\ 0 \in 0 .. (Pending - 1) /\ d = Block(0)
  BY <1>1, <1>3, PlaceTyped, Typed DEF IInv, EntriesOK, Block
<1>5. d \in alloc /\ d \in Blocks
  BY <1>4 DEF IInv, TypeOK, PacketsOK
<1>6. avail_start' = Wrap(avail_start + 1, QUEUE_BUFSIZE) /\ rcvd' = Wrap(rcvd + 1, Tags)
  <2>1. /\ avail_start + 1 \in 0 .. (2 * QUEUE_BUFSIZE - 1)
        /\ rcvd + 1 \in 0 .. (2 * Tags - 1)
    BY Typed DEF IInv
  <2> QED
    BY <1>1, <2>1, ModWrap, Typed DEF IInv
<1> HIDE DEF d
<1>7. ASSUME NEW i \in 0 .. Pending'
      PROVE /\ Place(i)' = Place(i + 1) /\ Block(i)' = Block(i + 1)
            /\ Wrap(rcvd' + i, Tags) = Wrap(rcvd + (i + 1), Tags)
  <2>1. /\ i \in Nat /\ 1 + i =< QUEUE_BUFSIZE /\ 1 + i =< Tags /\ 1 + i = i + 1
    BY <1>3, Typed DEF IInv
  <2>2. /\ Wrap(Wrap(avail_start + 1, QUEUE_BUFSIZE) + i, QUEUE_BUFSIZE)
             = Wrap(avail_start + (1 + i), QUEUE_BUFSIZE)
        /\ Wrap(Wrap(rcvd + 1, Tags) + i, Tags) = Wrap(rcvd + (1 + i), Tags)
    <3>1. /\ 1 \in Nat /\ QUEUE_BUFSIZE \in Nat \ {0} /\ Tags \in Nat \ {0}
          /\ avail_start \in 0 .. (QUEUE_BUFSIZE - 1) /\ rcvd \in 0 .. (Tags - 1)
      BY Typed DEF IInv
    <3>2. Wrap(Wrap(avail_start + 1, QUEUE_BUFSIZE) + i, QUEUE_BUFSIZE)
            = Wrap(avail_start + (1 + i), QUEUE_BUFSIZE)
      BY <2>1, <3>1, WrapTwice
    <3>3. Wrap(Wrap(rcvd + 1, Tags) + i, Tags) = Wrap(rcvd + (1 + i), Tags)
      BY <2>1, <3>1, WrapTwice
    <3> QED
      BY <3>2, <3>3
  <2>3. Place(i)' = Place(i + 1)
    BY <1>6, <2>1, <2>2 DEF Place
  <2> QED
    BY <1>1, <1>6, <2>1, <2>2, <2>3 DEF Block
<1>8. TypeOK'
  <2>1. pc' \in [Sides -> Places]
    BY <1>1, Typed DEF IInv, Places
  <2>2. avail_start' \in Slots /\ rcvd' \in 0 .. (Tags - 1) /\ Tags \in 0 .. Tags
    BY <1>6, Typed DEF IInv, Wrap, Slots
  <2>3. mem' \in [Blocks -> 0 .. Tags] /\ alloc' \subseteq Blocks
    BY <1>1, <2>2 DEF IInv, TypeOK
  <2>4. mod' \in SUBSET Sides
    BY <1>1 DEF Sides
  <2> QED
    BY <1>1, <2>1, <2>2, <2>3, <2>4 DEF IInv, TypeOK, Places
<1>9. LocksOK'
  BY <1>1, <1>2 DEF IInv, LocksOK, Sides, reader, writer
<1>10. PlacesOK'
  BY <1>1, <1>2, <1>3 DEF IInv, PlacesOK
<1>11. Holding' = Holding /\ Filled' = Filled /\ Unwritten' = Unwritten
  BY <1>1, <1>2 DEF Holding, Filled, Unwritten
<1>12. EntriesOK'
  <2>1. Place(Pending)' = Place(Pending)
    <3>1. Pending' \in 0 .. Pending' /\ Pending' + 1 = Pending
      BY <1>3, Typed DEF IInv
    <3>2. \A i \in 0 .. Pending' : Wrap(avail_start' + i, QUEUE_BUFSIZE) = Place(i + 1)
      BY <1>7 DEF Place
    <3> QED
      BY <3>1, <3>2 DEF Place
  <2>2. ASSUME Holding PROVE region[writer].log_addr # d
    BY <1>4, <2>2 DEF IInv, PacketsOK
  <2>3. ASSUME pc[writer] = "padr", Pending' > 0
        PROVE Block(Pending - 1)' = region'[writer].log_addr
    <3>1. /\ Pending' - 1 \in 0 .. Pending' /\ (Pending' - 1) + 1 = Pending - 1
          /\ Pending > 0
      BY <1>3, <2>3, Typed DEF IInv
    <3>2. Block(Pending - 1)' = Block(Pending - 1)
      <4>1. Block(Pending - 1)' = buffer'[Wrap(avail_start' + (Pending' - 1), QUEUE_BUFSIZE)]
                                    .log_addr
        BY DEF Block, Place
      <4>2. \A i \in 0 .. Pending' :
              buffer'[Wrap(avail_start' + i, QUEUE_BUFSIZE)].log_addr = Block(i + 1)
        BY <1>7 DEF Block, Place
      <4> QED
        BY <3>1, <4>1, <4>2
    <3> QED
      BY <1>1, <2>3, <3>1, <3>2 DEF IInv, EntriesOK
  <2>4. \/ ~Holding'
        \/ /\ avail_len' < QUEUE_BUFSIZE /\ buffer'[Place(Pending)'] = region'[writer]
           /\ region'[writer].log_addr \in alloc'
    BY <1>1, <1>11, <2>1, <2>2 DEF IInv, EntriesOK
  <2> QED
    BY <1>2, <2>3, <2>4 DEF EntriesOK
<1>13. PacketsOK'
  <2>1. ASSUME NEW i \in 0 .. (Pending' - 1)
        PROVE /\ i + 1 \in 0 .. (Pending - 1) /\ i + 1 # 0 /\ i \in 0 .. Pending'
    BY <1>3, Typed DEF IInv
  <2>2. ASSUME NEW i \in 0 .. (Pending' - 1)
        PROVE /\ Block(i)' \in alloc'
              /\ i < Pending' - Unwritten' => mem'[Block(i)'] = Wrap(rcvd' + i, Tags)
              /\ Holding' => region'[writer].log_addr # Block(i)'
    <3>0. i < Pending' - Unwritten' => i + 1 < Pending - Unwritten
      BY <1>3, <1>11, Typed DEF IInv
    <3>1. /\ Block(i + 1) \in alloc /\ Block(i + 1) # d /\ Block(i + 1) \in Blocks
          /\ i + 1 < Pending - Unwritten => mem[Block(i + 1)] = Wrap(rcvd + (i + 1), Tags)
          /\ Holding => region[writer].log_addr # Block(i + 1)
      BY <1>4, <2>1 DEF IInv, TypeOK, PacketsOK
    <3>2. mem'[Block(i + 1)] = mem[Block(i + 1)]
      BY <1>1, <3>1 DEF IInv, TypeOK
    <3> QED
      BY <1>1, <1>7, <1>11, <2>1, <3>0, <3>1, <3>2
  <2>3. ASSUME NEW i \in 0 .. (Pending' - 1), NEW j \in 0 .. (Pending' - 1), i # j
        PROVE Block(i)' # Block(j)'
    <3>1. i + 1 # j + 1
      BY <1>3, <2>3, Typed DEF IInv
    <3>2. Block(i + 1) # Block(j + 1)
      BY <2>1, <3>1 DEF IInv, PacketsOK
    <3> QED
      BY <1>7, <2>1, <3>2
  <2> QED
    BY <2>2, <2>3 DEF PacketsOK
<1>14. StreamOK'
  <2>1. sent' = Wrap(rcvd' + Pending', Tags)
    <3>1. Pending' \in 0 .. Pending' /\ Pending' + 1 = Pending
      BY <1>3, Typed DEF IInv
    <3>2. Wrap(rcvd' + Pending', Tags) = Wrap(rcvd + Pending, Tags)
      BY <1>7, <3>1
    <3> QED
      BY <1>1, <3>2 DEF IInv, StreamOK
  <2>2. ASSUME Filled PROVE mem'[region'[writer].log_addr] = sent'
    <3>1. Holding
      BY <2>2 DEF Filled, Holding
    <3>2. region[writer].log_addr # d /\ region[writer].log_addr \in Blocks
      BY <1>4, <3>1 DEF IInv, TypeOK, PacketsOK, EntriesOK
    <3> QED
      BY <1>1, <2>2, <3>2 DEF IInv, TypeOK, StreamOK
  <2> QED
    BY <1>11, <2>1, <2>2 DEF StreamOK
<1>15. WaitsOK'
  <2>1. ASSUME NEW u \in Sides
        PROVE /\ pc'[u] = "release" => pc[u] = "release" \/ MustWait(u)
              /\ Asleep(u)' => Asleep(u) \/ pc[u] = "release"
              /\ Asleep(u)' /\ OwesWakeup(Other(u)) => OwesWakeup(Other(u))'
    BY <1>1, <1>2 DEF Asleep, OwesWakeup, Sides, Other, reader, writer
  <2> QED
    BY <1>1, <2>1, WaitsKept DEF IInv
<1> QED
  BY <1>8, <1>9, <1>10, <1>12, <1>13, <1>14, <1>15 DEF IInv

(* The second assignment of $delete stores the number that counted         *)
(* already; a sleeping writer may have room now, and the reader, at        *)
(* "padr", owes it the wakeup.                                             *)
LEMMA DeleteLenPreserves ==
  ASSUME IInv, DeleteLen
  PROVE IInv'
<1>1. /\ pc[reader] = "delete" /\ mod' = {} /\ avail_len' = avail_len - 1
      /\ pc' = [pc EXCEPT ![reader] = "padr"]
      /\ UNCHANGED <<avail_start, buffer, nest, wait1, req, region, written, seen, tags>>
  BY DEF DeleteLen, Goto
<1>2. pc'[reader] = "padr" /\ pc'[writer] = pc[writer] /\ pc[writer] # "release"
  BY <1>1 DEF IInv, TypeOK, LocksOK, Sides, reader, writer
<1>3. avail_len > 0 /\ Pending' = Pending
  BY <1>1, <1>2 DEF IInv, PlacesOK, Pending
<1>4. TypeOK'
  <2>1. pc' \in [Sides -> Places]
    BY <1>1, Typed DEF IInv, Places
  <2>2. avail_len' \in 0 .. QUEUE_BUFSIZE
    BY <1>1, <1>3, Typed DEF IInv
  <2> QED
    BY <1>1, <2>1, <2>2 DEF IInv, TypeOK, Places, nest, tags
<1>5. LocksOK'
  BY <1>1, <1>2 DEF IInv, LocksOK, PlacesOK, Sides, reader, writer
<1>6. PlacesOK'
  BY <1>1, <1>2 DEF IInv, PlacesOK
<1>7. \A i : Place(i)' = Place(i) /\ Block(i)' = Block(i)
  BY <1>1 DEF Place, Block
<1>8. Holding' = Holding /\ Filled' = Filled /\ Unwritten' = Unwritten
  BY <1>1, <1>2 DEF Holding, Filled, Unwritten
<1>9. EntriesOK'
  <2>1. avail_len < QUEUE_BUFSIZE => avail_len' < QUEUE_BUFSIZE
    BY <1>1, Typed DEF IInv
  <2> QED
    BY <1>1, <1>2, <1>3, <1>7, <1>8, <2>1 DEF IInv, EntriesOK, nest
<1>10. PacketsOK' /\ StreamOK'
  BY <1>1, <1>3, <1>7, <1>8 DEF IInv, PacketsOK, StreamOK, nest, tags
<1>11. WaitsOK'
  BY <1>1, <1>2 DEF IInv, WaitsOK, SleepersHaveReason, Asleep, OwesWakeup, Sides, Other,
     reader, writer
<1> QED
  BY <1>4, <1>5, <1>6, <1>9, <1>10, <1>11 DEF IInv

(* $create under LOCK_ADDR_MOD: the entry at the border becomes a packet,  *)
(* and the writer, at "padr", owes a sleeping reader the wakeup.           *)
LEMMA CreateLenPreserves ==
  ASSUME IInv, CreateLen
  PROVE IInv'
<1>1. /\ pc[writer] = "create" /\ mod = {} /\ avail_len' = avail_len + 1
      /\ sent' = (sent + 1) % Tags /\ pc' = [pc EXCEPT ![writer] = "padr"]
      /\ UNCHANGED <<avail_start, buffer, nest, locks, req, region, written, seen, rcvd>>
  BY DEF CreateLen, Goto
<1>2. /\ pc'[reader] = pc[reader] /\ pc'[writer] = "padr"
      /\ pc[reader] \notin {"delete", "release"}
  BY <1>1 DEF IInv, TypeOK, LocksOK, Sides, reader, writer
<1>3. Pending = avail_len /\ Pending' = Pending + 1
  BY <1>1, <1>2 DEF Pending
<1>4. /\ Holding /\ (written => Filled) /\ ~Holding' /\ ~Filled'
      /\ avail_len < QUEUE_BUFSIZE /\ buffer[Place(Pending)] = region[writer]
      /\ region[writer].log_addr \in alloc
      /\ Unwritten = 0 /\ Unwritten' = IF written THEN 0 ELSE 1
  BY <1>1, <1>2 DEF IInv, EntriesOK, Holding, Filled, Unwritten
<1>5. /\ sent' = Wrap(sent + 1, Tags)
      /\ Wrap(sent + 1, Tags) = Wrap(rcvd + (Pending + 1), Tags)
  <2>1. sent + 1 \in 0 .. (2 * Tags - 1)
    BY Typed DEF IInv
  <2>2. Pending \in Nat /\ Pending + 1 =< Tags /\ 1 \in Nat
    BY <1>3, <1>4, Typed DEF IInv
  <2>3. Wrap(Wrap(rcvd + Pending, Tags) + 1, Tags) = Wrap(rcvd + (Pending + 1), Tags)
    BY <2>2, WrapTwice, Typed DEF IInv
  <2> QED
    BY <1>1, <2>1, <2>3, ModWrap, Typed DEF IInv, StreamOK
<1>6. TypeOK'
  <2>1. pc' \in [Sides -> Places]
    BY <1>1, Typed DEF IInv, Places
  <2>2. avail_len' \in 0 .. QUEUE_BUFSIZE /\ sent' \in 0 .. (Tags - 1)
    BY <1>1, <1>4, <1>5, Typed DEF IInv, Wrap
  <2> QED
    BY <1>1, <2>1, <2>2 DEF IInv, TypeOK, Places, nest, locks
<1>7. LocksOK'
  BY <1>1, <1>2 DEF IInv, LocksOK, Sides, reader, writer, locks
<1>8. PlacesOK'
  BY <1>1, <1>2 DEF IInv, PlacesOK
<1>9. \A i : Place(i)' = Place(i) /\ Block(i)' = Block(i)
  BY <1>1 DEF Place, Block
<1>10. EntriesOK'
  <2>1. avail_len > 0 => avail_len' > 0
    BY <1>1, Typed DEF IInv
  <2>2. Block(Pending - 1)' = region'[writer].log_addr
    <3>1. Pending' - 1 = Pending
      BY <1>3, Typed DEF IInv
    <3>2. Block(Pending - 1)' = Block(Pending)
      BY <1>1, <3>1 DEF Block, Place
    <3> QED
      BY <1>1, <1>4, <3>2 DEF Block
  <2> QED
    BY <1>1, <1>2, <1>4, <2>1, <2>2 DEF IInv, EntriesOK
<1>11. PacketsOK'
  <2>1. /\ Block(Pending) = region[writer].log_addr
        /\ written => mem[Block(Pending)] = Wrap(rcvd + Pending, Tags)
    BY <1>4 DEF IInv, StreamOK, Block
  <2>2. ASSUME NEW i \in 0 .. (Pending' - 1)
        PROVE i = Pending \/ i \in 0 .. (Pending - 1)
    BY <1>3, Typed DEF IInv
  <2>3. ASSUME NEW i \in 0 .. (Pending' - 1)
        PROVE /\ Block(i) \in alloc
              /\ i < Pending' - Unwritten' => mem[Block(i)] = Wrap(rcvd + i, Tags)
    <3>1. CASE i = Pending
      BY <1>3, <1>4, <2>1, <3>1, Typed DEF IInv
    <3>2. CASE i \in 0 .. (Pending - 1)
      BY <1>3, <1>4, <3>2, Typed DEF IInv, PacketsOK
    <3> QED
      BY <2>2, <3>1, <3>2
  <2>4. ASSUME NEW i \in 0 .. (Pending' - 1), NEW j \in 0 .. (Pending' - 1), i # j
        PROVE Block(i) # Block(j)
    BY <1>4, <2>1, <2>2, <2>4 DEF IInv, PacketsOK
  <2> QED
    BY <1>1, <1>4, <1>9, <2>3, <2>4 DEF PacketsOK, nest
<1>12. StreamOK'
  BY <1>1, <1>3, <1>4, <1>5 DEF StreamOK
<1>13. WaitsOK'
  BY <1>1, <1>2 DEF IInv, WaitsOK, SleepersHaveReason, Asleep, OwesWakeup, Sides, Other,
     reader, writer
<1> QED
  BY <1>6, <1>7, <1>8, <1>10, <1>11, <1>12, <1>13 DEF IInv

------------------------------------------------------------------------------
(* Every action of the queue and of its users preserves the invariant. *)
LEMMA NextPreserves == IInv /\ [Next]_vars => IInv'
<1> SUFFICES ASSUME IInv, [Next]_vars PROVE IInv'
  OBVIOUS
<1>1. ASSUME NEW s \in Sides, gadr(s) PROVE IInv'
  BY <1>1, GadrRefusedPreserves, GadrWaitPreserves, GadrGoesOnPreserves, GadrReadPreserves,
     GadrWritePreserves DEF gadr
<1>2. CASE create
  BY <1>2, WritePreserves, CreateCheckPreserves, CreateLenPreserves DEF create
<1>3. CASE UNCHANGED vars
  <2>1. UNCHANGED <<status, nest, tags, locks, pc, req, region, written, seen>>
    BY <1>3 DEF vars
  <2>2. TypeOK' /\ LocksOK' /\ PlacesOK'
    BY <2>1 DEF IInv, TypeOK, LocksOK, PlacesOK, status, nest, tags, locks
  <2>3. EntriesOK' /\ PacketsOK' /\ StreamOK'
    BY <2>1, DataKept DEF IInv, Pending, Unwritten, Holding, Filled, status
  <2>4. WaitsOK'
    BY <2>1, WaitsKept DEF IInv, Asleep, OwesWakeup, status, locks
  <2> QED
    BY <2>2, <2>3, <2>4 DEF IInv
<1> QED
  BY <1>1, <1>2, <1>3, CallGadrPreserves, PadrPreserves, DeleteStartPreserves,
     DeleteLenPreserves, DeleteFailedPreserves DEF Next

(* The empty queue satisfies the invariant. *)
LEMMA InitOK == Init => IInv
<1> SUFFICES ASSUME Init PROVE IInv
  OBVIOUS
<1>1. TypeOK
  <2>1. 0 \in Slots /\ Tags \in 0 .. Tags /\ 0 \in 0 .. (Tags - 1) /\ 0 \in 0 .. QUEUE_BUFSIZE
    BY QueueAssumption DEF Slots, Tags
  <2>2. req \in [Sides -> RequestSet] /\ region \in [Sides -> queue_entry_t]
    BY EmptyTyped DEF Init
  <2>3. buffer \in [Slots -> queue_entry_t] /\ mem \in [Blocks -> 0 .. Tags]
    BY <2>1, EmptyTyped DEF Init
  <2>4. pc \in [Sides -> Places]
    BY DEF Init, Places
  <2> QED
    BY <2>1, <2>2, <2>3, <2>4 DEF Init, TypeOK, RequestSet, Places
<1>2. \A s \in Sides : pc[s] = "idle"
  BY DEF Init
<1>3. LocksOK /\ PlacesOK
  BY <1>2 DEF Init, LocksOK, PlacesOK, Sides
<1>4. Pending = 0 /\ ~Holding /\ ~Filled
  BY <1>2 DEF Init, Pending, Holding, Filled, Sides
<1>5. EntriesOK
  BY <1>2, <1>4 DEF EntriesOK, Sides
<1>6. PacketsOK /\ StreamOK
  BY <1>4, Typed, <1>1 DEF Init, PacketsOK, StreamOK, Filled, Wrap
<1>7. WaitsOK
  BY <1>2 DEF WaitsOK, SleepersHaveReason, Asleep
<1> QED
  BY <1>1, <1>3, <1>5, <1>6, <1>7 DEF IInv

(* Whatever the two users and :<mem do, IInv holds all the time. *)
THEOREM Invariant == Spec => []IInv
  BY InitOK, NextPreserves, PTL DEF Spec

(* Type correctness: avail_start stays in the ring and avail_len never     *)
(* exceeds it, although $create and $delete store their results unchecked. *)
THEOREM TypeCorrect == Spec => []TypeOK
<1>1. IInv => TypeOK
  BY DEF IInv
<1> QED
  BY <1>1, Invariant, PTL

(* The entry number i of the ring, as Queue counts it from 1. *)
LEMMA SlotIs ==
  ASSUME IInv, NEW i \in 1 .. Pending
  PROVE /\ Slot(i) = Place(i - 1) /\ i - 1 \in 0 .. (Pending - 1)
        /\ buffer[Slot(i)].log_addr = Block(i - 1)
<1>1. Pending \in 0 .. QUEUE_BUFSIZE
  BY PendingTyped DEF IInv
<1>2. /\ avail_start + i - 1 = avail_start + (i - 1) /\ i - 1 \in 0 .. (Pending - 1)
      /\ avail_start + (i - 1) \in 0 .. (2 * QUEUE_BUFSIZE - 1)
  BY <1>1, Typed DEF IInv
<1>3. Slot(i) = Place(i - 1)
  BY <1>2, ModWrap, Typed DEF IInv, Slot, Place
<1> QED
  BY <1>2, <1>3 DEF Block

(* Every packet is an allocated block of its own, and none is the one the  *)
(* writer's user has not created: the :<mem$delete of $delete never frees the memory *)
(* of another packet.                                                      *)
THEOREM PacketsApart == Spec => []PacketsOwnBlocks
<1>1. IInv => PacketsOwnBlocks
  <2> SUFFICES ASSUME IInv, NEW i \in 1 .. Pending
               PROVE /\ buffer[Slot(i)].log_addr \in alloc
                     /\ \A j \in 1 .. Pending :
                          buffer[Slot(j)].log_addr = buffer[Slot(i)].log_addr => j = i
                     /\ Holding => region[writer].log_addr # buffer[Slot(i)].log_addr
    BY DEF PacketsOwnBlocks, Holding
  <2>1. \A j \in 1 .. Pending : /\ j - 1 \in 0 .. (Pending - 1)
                                /\ buffer[Slot(j)].log_addr = Block(j - 1)
    BY SlotIs
  <2>2. ASSUME NEW j \in 1 .. Pending, Block(j - 1) = Block(i - 1) PROVE j = i
    <3>1. j - 1 = i - 1
      BY <2>1, <2>2 DEF IInv, PacketsOK
    <3> QED
      BY <3>1
  <2> QED
    BY <2>1, <2>2 DEF IInv, PacketsOK
<1> QED
  BY <1>1, Invariant, PTL

(* The packet the reader's user was given by $gadr stays allocated and     *)
(* carries the next tag of the stream until it is deleted, unless it is    *)
(* the one the writer has created and not written yet.                     *)
THEOREM ReaderCorrect == Spec => []ReaderSeesStream
<1>1. IInv => ReaderSeesStream
  <2> SUFFICES ASSUME IInv, pc[reader] = "have"
               PROVE /\ region[reader].log_addr \in alloc
                     /\ \/ mem[region[reader].log_addr] = rcvd
                        \/ Unwritten = 1 /\ region[reader].log_addr = region[writer].log_addr
    BY DEF ReaderSeesStream
  <2>1. /\ region[reader].log_addr = Block(0) /\ 0 \in 0 .. (Pending - 1)
        /\ Wrap(rcvd + 0, Tags) = rcvd
    BY PlaceTyped, Typed DEF IInv, EntriesOK, Block, Pending, Wrap
  <2>2. CASE 0 < Pending - Unwritten
    BY <2>1, <2>2 DEF IInv, PacketsOK
  <2>3. CASE ~(0 < Pending - Unwritten)
    <3>1. Unwritten = 1 /\ Pending = 1
      BY <2>1, <2>3, PendingTyped, Typed DEF IInv
    <3>2. Block(0) = region[writer].log_addr
      BY <3>1 DEF IInv, EntriesOK, Unwritten
    <3> QED
      BY <2>1, <3>1, <3>2 DEF IInv, PacketsOK
  <2> QED
    BY <2>2, <2>3
<1> QED
  BY <1>1, Invariant, PTL

(* No wakeup is lost: who sleeps in $gadr on its own lock still finds the  *)
(* queue empty (or full), or the other side is between its change of the   *)
(* status and the wakeup of $padr.                                         *)
THEOREM NoLostWakeup == Spec => []SleepersHaveReason
<1>1. IInv => SleepersHaveReason
  BY DEF IInv, WaitsOK
<1> QED
  BY <1>1, Invariant, PTL

------------------------------------------------------------------------------
(* The content of the queue is given by the reader's tag, the number of    *)
(* packets and how many of them are written.                               *)
LEMMA ContentIs == IInv => Content = Run(rcvd, Pending, Pending - Unwritten, Tags)
<1> SUFFICES ASSUME IInv PROVE Content = Run(rcvd, Pending, Pending - Unwritten, Tags)
  OBVIOUS
<1>1. ASSUME NEW i \in 1 .. Pending
      PROVE (IF i =< Pending - Unwritten /\ buffer[Slot(i)].log_addr \in Blocks
             THEN mem[buffer[Slot(i)].log_addr] ELSE Tags)
            = IF i =< Pending - Unwritten THEN Wrap(rcvd + (i - 1), Tags) ELSE Tags
  <2>1. buffer[Slot(i)].log_addr = Block(i - 1) /\ i - 1 \in 0 .. (Pending - 1)
    BY SlotIs
  <2>2. i =< Pending - Unwritten => i - 1 < Pending - Unwritten
    BY PendingTyped, Typed DEF IInv
  <2> QED
    BY <2>1, <2>2 DEF IInv, TypeOK, PacketsOK
<1> QED
  BY <1>1 DEF Content, Run

(* Which steps the stream sees: all others keep its content and the tag of *)
(* the next packet sent.                                                   *)
LEMMA QuietSteps ==
  ASSUME IInv, [Next]_vars
  PROVE \/ DeleteStart \/ CreateLen
        \/ Write /\ pc[writer] = "padr"
        \/ rcvd' = rcvd /\ Pending' = Pending /\ sent' = sent /\ Unwritten' = Unwritten
<1> DEFINE Quiet == rcvd' = rcvd /\ Pending' = Pending /\ sent' = sent /\ Unwritten' = Unwritten
<1>1. ASSUME NEW s \in Sides, NEW l \in Lens, NEW y \in TryLens, NEW a \in action_t,
             CallGadr(s, l, y, a)
      PROVE Quiet
  BY <1>1 DEF IInv, TypeOK, CallGadr, Goto, Pending, Unwritten, status, tags, Sides,
     reader, writer
<1>2. ASSUME NEW s \in Sides, GadrRefused(s) \/ GadrWait(s) \/ GadrRelease(s)
                               \/ GadrWoken(s) \/ padr(s)
      PROVE Quiet
  BY <1>2 DEF IInv, TypeOK, LocksOK, PlacesOK, GadrRefused, GadrWait, GadrRelease, GadrWoken,
     padr, GadrReturn, Goto, Locked, Pending, Unwritten, status, tags, Sides, reader, writer
<1>3. ASSUME GadrRead \/ GadrNoBlock \/ \E b \in Blocks : GadrWrite(b)
      PROVE Quiet
  BY <1>3 DEF IInv, TypeOK, GadrRead, GadrNoBlock, GadrWrite, GadrReturn, Goto, Locked,
     Pending, Unwritten, status, tags, Sides, reader, writer
<1>4. CASE DeleteLen
  BY <1>4 DEF IInv, TypeOK, DeleteLen, Goto, Pending, Unwritten, tags, Sides, reader, writer
<1>5. CASE DeleteFailed
  BY <1>5 DEF IInv, TypeOK, DeleteFailed, Goto, Pending, Unwritten, status, tags, Sides,
     reader, writer
<1>6. CASE CreateRead \/ CreateChecked \/ CreateRefused
  BY <1>6 DEF IInv, TypeOK, CreateRead, CreateChecked, CreateRefused, Goto, Pending,
     Unwritten, status, tags, Sides, reader, writer
<1>7. CASE Write /\ pc[writer] # "padr"
  BY <1>7 DEF Write, Pending, Unwritten, status, tags
<1>8. CASE UNCHANGED vars
  BY <1>8 DEF vars, status, tags, Pending, Unwritten
<1> QED
  BY <1>1, <1>2, <1>3, <1>4, <1>5, <1>6, <1>7, <1>8 DEF Next, gadr, create

(* The queue implements a bounded first-in first-out stream: $create puts  *)
(* one packet at the end, written or blank, the writer writes a blank one, *)
(* the first assignment of $delete takes one from the front, and no other  *)
(* step changes the content.                                               *)
THEOREM ImplementsFIFO == Spec => ImplementsStream
<1>1. Init => ST!Init
  <2> SUFFICES ASSUME Init PROVE Content = << >> /\ sent = 0
    BY DEF ST!Init
  <2>1. Content = Run(rcvd, Pending, Pending - Unwritten, Tags)
    BY InitOK, ContentIs
  <2>2. Pending = 0
    BY DEF Init, Pending, Sides, reader
  <2> QED
    BY <2>1, <2>2 DEF Run, Init
<1>2. (IInv => Content = Run(rcvd, Pending, Pending - Unwritten, Tags))'
  BY ContentIs, PTL
<1>3. IInv /\ IInv' /\ [Next]_vars => [ST!Next]_(ST!vars)
  <2> SUFFICES ASSUME IInv, IInv', [Next]_vars PROVE [ST!Next]_(ST!vars)
    OBVIOUS
  <2>1. Content = Run(rcvd, Pending, Pending - Unwritten, Tags)
    BY ContentIs
  <2>2. Content' = Run(rcvd', Pending', Pending' - Unwritten', Tags)
    BY <1>2
  <2>3. /\ Tags \in Nat \ {0} /\ QUEUE_BUFSIZE \in Nat \ {0} /\ QUEUE_BUFSIZE < Tags
        /\ rcvd \in 0 .. (Tags - 1) /\ sent \in 0 .. (Tags - 1)
        /\ Pending \in 0 .. QUEUE_BUFSIZE /\ Unwritten \in {0, 1}
        /\ sent = Wrap(rcvd + Pending, Tags)
    BY PendingTyped, Typed DEF IInv, StreamOK
  <2>4. Len(Content) = Pending /\ DOMAIN Content = 1 .. Pending
    <3>1. Pending \in 0 .. Tags /\ Pending - Unwritten \in Int
      BY <2>3
    <3>2. DOMAIN Content = 1 .. Pending
      BY <2>1 DEF Run
    <3>3. Len(Run(rcvd, Pending, Pending - Unwritten, Tags)) = Pending
      BY <2>3, <3>1, RunLength
    <3> QED
      BY <2>1, <3>2, <3>3
  <2>5. \A i \in 1 .. Pending : Content[i] = ST!Blank <=> i > Pending - Unwritten
    <3>1. Pending \in 0 .. Tags /\ Pending - Unwritten \in Int
      BY <2>3
    <3>2. ASSUME NEW i \in 1 .. Pending
          PROVE Run(rcvd, Pending, Pending - Unwritten, Tags)[i] = Tags <=> i > Pending - Unwritten
      BY <2>3, <3>1, RunBlank
    <3> QED
      BY <2>1, <3>2 DEF ST!Blank
  <2>6. CASE DeleteStart
    <3>1. /\ Pending \in 1 .. QUEUE_BUFSIZE /\ Pending' = Pending - 1
          /\ rcvd' = (rcvd + 1) % Tags /\ sent' = sent /\ Unwritten' = Unwritten
      BY <2>6, Typed DEF IInv, TypeOK, EntriesOK, DeleteStart, Goto, Pending, Unwritten, Sides,
         reader, writer
    <3>2. rcvd' = Wrap(rcvd + 1, Tags)
      <4>1. rcvd + 1 \in 0 .. (2 * Tags - 1)
        BY <2>3
      <4> QED
        BY <2>3, <3>1, <4>1, ModWrap
    <3>3. Content' = SubSeq(Content, 1 + 1, Pending)
      <4>1. /\ Pending \in 0 .. Tags /\ 1 \in 1 .. Pending /\ Pending - Unwritten \in Int
            /\ Pending' - Unwritten' = (Pending - Unwritten) - 1
        BY <2>3, <3>1
      <4>2. Content' = Run(Wrap(rcvd + 1, Tags), Pending - 1, (Pending - Unwritten) - 1, Tags)
        BY <2>2, <3>1, <3>2, <4>1, Zenon
      <4> QED
        BY <2>1, <2>3, <4>1, <4>2, RunTaken, Zenon
    <3>4. ST!Take(1)
      BY <2>4, <3>1, <3>3 DEF ST!Take
    <3> QED
      BY <2>3, <3>4 DEF ST!Next
  <2>7. CASE CreateLen
    <3> DEFINE w == IF written THEN 1 ELSE 0
    <3>1. /\ Pending < QUEUE_BUFSIZE /\ Pending' = Pending + 1
          /\ rcvd' = rcvd /\ sent' = (sent + 1) % Tags
          /\ Unwritten = 0 /\ Unwritten' = 1 - w
      <4>1. /\ pc[reader] # "delete" /\ pc'[reader] = pc[reader] /\ pc'[writer] = "padr"
            /\ pc[writer] = "create" /\ written' = written
        BY <2>7 DEF IInv, TypeOK, LocksOK, CreateLen, Goto, Sides, reader, writer
      <4>2. Unwritten = 0 /\ Unwritten' = 1 - w
        BY <4>1 DEF Unwritten
      <4> QED
        BY <2>7, <4>1, <4>2 DEF IInv, EntriesOK, Holding, CreateLen, Pending
    <3>2. w \in 0 .. 1
      OBVIOUS
    <3> HIDE DEF w
    <3>3. Content' = Content \o ST!Units(sent, 1, w)
      <4>1. /\ Pending \in 0 .. Tags /\ 1 \in 0 .. (Tags - Pending)
            /\ Pending - Unwritten = Pending
            /\ Pending' - Unwritten' = Pending + w
        BY <2>3, <3>1, <3>2
      <4>2. ST!Units(sent, 1, w)
              = [i \in 1 .. 1 |-> IF i =< w THEN (Wrap(rcvd + Pending, Tags) + i - 1) % Tags
                                             ELSE Tags]
        BY <2>3, Zenon DEF ST!Units, ST!Blank
      <4>3. Run(rcvd, Pending + 1, Pending + w, Tags)
              = Run(rcvd, Pending, Pending, Tags) \o ST!Units(sent, 1, w)
        <5>1. /\ Tags \in Nat \ {0} /\ rcvd \in 0 .. (Tags - 1) /\ Pending \in 0 .. Tags
              /\ 1 \in 0 .. (Tags - Pending) /\ w \in 0 .. 1
          BY <2>3, <3>2, <4>1
        <5>2. Run(rcvd, Pending + 1, Pending + w, Tags)
                = Run(rcvd, Pending, Pending, Tags)
                    \o [i \in 1 .. 1 |-> IF i =< w
                                         THEN (Wrap(rcvd + Pending, Tags) + i - 1) % Tags
                                         ELSE Tags]
          BY <5>1, RunPut, Zenon
        <5> QED
          BY <4>2, <5>2, Zenon
      <4> QED
        BY <2>1, <2>2, <3>1, <4>1, <4>3, Zenon
    <3>4. ST!Put(1, w)
      <4>1. \A i \in DOMAIN Content : Content[i] # ST!Blank
        <5>1. \A i \in 1 .. Pending : ~(i > Pending - Unwritten)
          BY <2>3, <3>1
        <5> QED
          BY <2>4, <2>5, <5>1, Zenon
      <4>2. Len(Content) + 1 =< QUEUE_BUFSIZE
        BY <2>3, <2>4, <3>1
      <4> QED
        BY <3>1, <3>3, <4>1, <4>2, Zenon DEF ST!Put
    <3> QED
      BY <2>3, <3>2, <3>4 DEF ST!Next
  <2>8. CASE Write /\ pc[writer] = "padr"
    <3>1. /\ rcvd' = rcvd /\ Pending' = Pending /\ sent' = sent
          /\ Unwritten = 1 /\ Unwritten' = 0
      BY <2>8 DEF Write, Pending, Unwritten, status, tags
    <3>2. CASE Pending = 0
      <4>1. 0 \in Nat /\ -1 \in Int /\ -1 < 0 /\ -1 + 1 = 0 /\ 0 - 0 = 0 /\ 0 - 1 = -1
        OBVIOUS
      <4>2. Content = Run(rcvd, 0, -1, Tags) /\ Content' = Run(rcvd, 0, 0, Tags)
        BY <2>1, <2>2, <3>1, <3>2, <4>1
      <4>3. Run(rcvd, 0, -1 + 1, Tags) = Run(rcvd, 0, -1, Tags)
        BY <4>1, RunAllBlank
      <4> QED
        BY <3>1, <4>1, <4>2, <4>3 DEF ST!vars
    <3>3. CASE Pending # 0
      <4>0. /\ Pending - 1 \in 0 .. (Pending - 1) /\ (Pending - 1) + 1 = Pending
            /\ Pending \in 1 .. Pending /\ Pending \in 0 .. Tags /\ Pending - 0 = Pending
        BY <2>3, <3>3
      <4>1. /\ Content = Run(rcvd, Pending, Pending - 1, Tags)
            /\ Content' = Run(rcvd, Pending, Pending, Tags)
        BY <2>1, <2>2, <3>1, <4>0
      <4>2. Content' = [Content EXCEPT ![Pending] = Wrap(rcvd + (Pending - 1), Tags)]
        <5>1. Run(rcvd, Pending, (Pending - 1) + 1, Tags)
                = [Run(rcvd, Pending, Pending - 1, Tags)
                     EXCEPT ![(Pending - 1) + 1] = Wrap(rcvd + (Pending - 1), Tags)]
          <6>1. Tags \in Nat \ {0} /\ rcvd \in 0 .. (Tags - 1) /\ Pending \in 0 .. Tags
            BY <2>3, <4>0
          <6>2. Pending - 1 \in 0 .. (Pending - 1)
            BY <4>0
          <6> QED
            BY <6>1, <6>2, RunWritten, Zenon
        <5> QED
          BY <4>0, <4>1, <5>1, Zenon
      <4>3. Wrap(rcvd + (Pending - 1), Tags) = (sent + Tags - (Len(Content) + 1 - Pending)) % Tags
        <5>1. sent + Tags - (Len(Content) + 1 - Pending) = sent + (Tags - 1)
          BY <2>3, <2>4, <4>0
        <5>2. /\ sent + (Tags - 1) \in 0 .. (2 * Tags - 1)
              /\ Wrap(sent + (Tags - 1), Tags) = Wrap(rcvd + (Pending - 1), Tags)
          BY <2>3, <3>3 DEF Wrap
        <5> QED
          BY <2>3, <5>1, <5>2, ModWrap
      <4>4. /\ Content[Pending] = ST!Blank
            /\ \A j \in 1 .. (Pending - 1) : Content[j] # ST!Blank
        <5>1. /\ Pending > Pending - Unwritten
              /\ \A j \in 1 .. (Pending - 1) : j \in 1 .. Pending /\ ~(j > Pending - Unwritten)
          BY <2>3, <3>1, <4>0
        <5> QED
          BY <2>5, <4>0, <5>1
      <4>5. ST!Write(Pending)
        BY <3>1, <4>2, <4>3, <4>4, Zenon DEF ST!Write
      <4> QED
        BY <2>4, <4>0, <4>5 DEF ST!Next
    <3> QED
      BY <3>2, <3>3
  <2>9. CASE rcvd' = rcvd /\ Pending' = Pending /\ sent' = sent /\ Unwritten' = Unwritten
    BY <2>1, <2>2, <2>9 DEF ST!vars
  <2> QED
    BY <2>6, <2>7, <2>8, <2>9, QuietSteps
<1> QED
  BY <1>1, <1>3, Invariant, PTL DEF Spec, ImplementsStream, ST!Spec

==============================================================================
