-------------------------------- MODULE Pipe --------------------------------
(***************************************************************************)
(* The brick pipe (pipe.ath): a ring buffer in a nest, a reader on the     *)
(* output strmr and a writer on strmw.  $gadr finds a contiguous region    *)
(* (waiting for it if asked to), the reader's $delete and the writer's     *)
(* $create move the borders of the available part, $padr wakes the other   *)
(* side.  Reader and writer run in threads of their own, one each.         *)
(*                                                                         *)
(* The brick keeps its critical sections and its waiting in locks of the   *)
(* input ilock.  All of them are exclusive locks on single addresses:      *)
(* LOCK_ADDR_MOD guards the status; LOCK_ADDR_READER_WAIT and              *)
(* LOCK_ADDR_WRITER_WAIT are the places to wait at.  The waiter locks its  *)
(* place twice, under LOCK_MAND_WAIT1 and then under LOCK_MAND_WAIT2; the  *)
(* second lock blocks until somebody releases the first, and that is what  *)
(* the other side's $padr does.                                            *)
(*                                                                         *)
(* What happens between taking and releasing LOCK_ADDR_MOD is one step     *)
(* where nobody can see its parts.  Two places are visible: $delete moves  *)
(* the border in two assignments, and $create compares an address with     *)
(* both of them without the lock.                                          *)
(*                                                                         *)
(* The nest :<mem is a function from buffer offsets to tags (see Stream).  *)
(* The writer's user writes its region unit by unit, before $create or     *)
(* after it: whoever calls $gadrcreate has the region created before it    *)
(* has written anything.  The reader can see the units from $create on.    *)
(***************************************************************************)
EXTENDS Integers, FiniteSets

CONSTANTS
  BUFSIZE,   \* the length of the ring buffer
  Lens,      \* the lengths @log_len asked for by $gadr
  TryLens    \* the lengths @try_len; 0 asks for everything there is

ASSUME PipeAssumption ==
  /\ BUFSIZE \in Nat \ {0}
  /\ Lens \subseteq Nat \ {0}
  /\ TryLens \subseteq Nat

reader == "reader"
writer == "writer"
Sides == {reader, writer}
Other(s) == IF s = reader THEN writer ELSE reader

Tags == 2 * BUFSIZE
Offsets == 0 .. (BUFSIZE - 1)
action_t == {"try", "wait"}

VARIABLES
  avail_start, avail_len,   \* the available part of the buffer
  buf,                      \* the contents of the buffer
  mod,                      \* who holds LOCK_ADDR_MOD: a set of sides
  wait1,                    \* who holds its wait place under LOCK_MAND_WAIT1
  pc,                       \* where each side is
  req,                      \* the arguments of its $gadr
  region,                   \* the region its $gadr returned
  written,                  \* how much of its region the writer has written
  seen,                     \* what $create's check has read of avail_start
  sent, rcvd                \* tags of the next unit to write and to consume

status == <<avail_start, avail_len>>
locks == <<mod, wait1>>
calls == <<pc, req, region, written, seen>>
stream == <<buf, sent, rcvd>>
vars == <<status, locks, calls, stream>>

NoReq == [len |-> 0, try |-> 0, action |-> "try"]
NoRegion == [addr |-> 0, len |-> 0]

TypeOK ==
  /\ avail_start \in Offsets
  /\ avail_len \in 0 .. BUFSIZE
  /\ buf \in [Offsets -> 0 .. Tags]
  /\ mod \in SUBSET Sides /\ wait1 \in SUBSET Sides
  /\ pc \in [Sides -> {"idle", "gadr", "release", "wait", "again", "have", "delete",
                       "check", "create", "padr"}]
  /\ req \in [Sides -> [len : Lens \cup {0}, try : TryLens \cup {0}, action : action_t]]
  /\ region \in [Sides -> [addr : Offsets, len : 0 .. BUFSIZE]]
  /\ written \in 0 .. BUFSIZE
  /\ seen \in Offsets
  /\ sent \in 0 .. (Tags - 1) /\ rcvd \in 0 .. (Tags - 1)

(* $output_init with a new status; the tag Tags marks a cell never written. *)
Init ==
  /\ avail_start = 0 /\ avail_len = 0
  /\ buf = [o \in Offsets |-> Tags]
  /\ mod = {} /\ wait1 = {}
  /\ pc = [s \in Sides |-> "idle"]
  /\ req = [s \in Sides |-> NoReq]
  /\ region = [s \in Sides |-> NoRegion]
  /\ written = 0
  /\ seen = 0
  /\ sent = 0 /\ rcvd = 0

Least(a, b) == IF a < b THEN a ELSE b
Greatest(a, b) == IF a > b THEN a ELSE b

(* Where the reader's or the writer's next region starts, how much there   *)
(* is of it, and how much of that up to the end of the buffer.             *)
writer_start == (avail_start + avail_len) % BUFSIZE
Start(s) == IF s = reader THEN avail_start ELSE writer_start
(* Mutant of Room: the writer may overtake the reader. *)
RoomIgnoringReader(s) == IF s = reader THEN avail_len ELSE BUFSIZE

(* Mutant of Room: one unit more than there is for the reader. *)
RoomOneMore(s) == IF s = reader THEN avail_len + 1 ELSE BUFSIZE - avail_len

Room(s) == IF s = reader THEN avail_len ELSE BUFSIZE - avail_len
(* Mutant of block_avail: the end of the buffer is forgotten. *)
BlockAcrossEnd(s) == Room(s)

block_avail(s) == Least(BUFSIZE - Start(s), Room(s))

Goto(s, where) == pc' = [pc EXCEPT ![s] = where]

------------------------------------------------------------------------------
(***************************************************************************)
(* $gadr, of strmr and of strmw.                                           *)
(***************************************************************************)
CallGadr(s, l, y, a) ==
  /\ pc[s] = "idle"
  /\ req' = [req EXCEPT ![s] = [len |-> l, try |-> y, action |-> a]]
  /\ Goto(s, "gadr")
  /\ UNCHANGED <<status, locks, region, written, seen, stream>>

(* @log_len>block_avail, evaluated with LOCK_ADDR_MOD held. *)
Locked(s) == pc[s] \in {"gadr", "again"} /\ mod = {}
TooShort(s) == req[s].len > block_avail(s)

Granted(s) == IF req[s].try = 0 THEN block_avail(s)
              ELSE Least(block_avail(s), Greatest(req[s].len, req[s].try))

GadrDone(s) ==
  /\ Locked(s)
  /\ ~TooShort(s)
  /\ region' = [region EXCEPT ![s] = [addr |-> Start(s), len |-> Granted(s)]]
  /\ req' = [req EXCEPT ![s] = NoReq]
  /\ Goto(s, "have")
  /\ UNCHANGED <<status, locks, written, seen, stream>>

(* The user does not want to wait, or waiting would never help. *)
GadrRefused(s) ==
  /\ Locked(s) /\ pc[s] = "gadr"
  /\ TooShort(s)
  /\ req[s].action # "wait" \/ BUFSIZE - Start(s) < req[s].len
  /\ req' = [req EXCEPT ![s] = NoReq]
  /\ Goto(s, "idle")
  /\ UNCHANGED <<status, locks, region, written, seen, stream>>

(* Mutant of GadrWait: waits for what can never be there. *)
GadrWaitForEver(s) ==
  /\ Locked(s)
  /\ TooShort(s)
  /\ pc[s] = "gadr" => req[s].action = "wait"
  /\ mod' = {s}
  /\ wait1' = wait1 \cup {s}
  /\ Goto(s, "release")
  /\ UNCHANGED <<status, req, region, written, seen, stream>>

(* The wait place is locked before LOCK_ADDR_MOD is released. *)
GadrWait(s) ==
  /\ Locked(s)
  /\ TooShort(s)
  /\ pc[s] = "gadr" => req[s].action = "wait" /\ BUFSIZE - Start(s) >= req[s].len
  /\ mod' = {s}
  /\ wait1' = wait1 \cup {s}
  /\ Goto(s, "release")
  /\ UNCHANGED <<status, req, region, written, seen, stream>>

GadrRelease(s) ==
  /\ pc[s] = "release"
  /\ mod' = {}
  /\ Goto(s, "wait")
  /\ UNCHANGED <<status, wait1, req, region, written, seen, stream>>

(* Mutant of GadrWoken: does not look at the status again. *)
GadrWokenSpins(s) ==
  /\ pc[s] = "wait"
  /\ s \notin wait1
  /\ Goto(s, "wait")
  /\ UNCHANGED <<status, locks, req, region, written, seen, stream>>

(* The lock under LOCK_MAND_WAIT2 is granted, and released again. *)
GadrWoken(s) ==
  /\ pc[s] = "wait"
  /\ s \notin wait1
  /\ Goto(s, "again")
  /\ UNCHANGED <<status, locks, req, region, written, seen, stream>>

gadr(s) == GadrDone(s) \/ GadrRefused(s) \/ GadrWait(s) \/ GadrRelease(s) \/ GadrWoken(s)

(* Mutant of padr: the wrong wait place. *)
PadrOwnPlace(s) ==
  /\ pc[s] = "padr"
  /\ s = writer => written = region[writer].len
  /\ wait1' = wait1 \ {s}
  /\ region' = [region EXCEPT ![s] = NoRegion]
  /\ written' = IF s = writer THEN 0 ELSE written
  /\ Goto(s, "idle")
  /\ UNCHANGED <<status, mod, req, seen, stream>>

(* $padr wakes the other side and ends the user's turn; the writer's user  *)
(* calls it when it has written its data.                                  *)
padr(s) ==
  /\ pc[s] = "padr"
  /\ s = writer => written = region[writer].len
  /\ wait1' = wait1 \ {Other(s)}
  /\ region' = [region EXCEPT ![s] = NoRegion]
  /\ written' = IF s = writer THEN 0 ELSE written
  /\ Goto(s, "idle")
  /\ UNCHANGED <<status, mod, req, seen, stream>>

------------------------------------------------------------------------------
(***************************************************************************)
(* strmr: the user consumes the first k units of its region with $delete.  *)
(* Only the reader writes avail_start, so its check races with nobody.     *)
(***************************************************************************)
DeleteStart(k) ==
  /\ pc[reader] = "have"
  /\ k \in 1 .. region[reader].len
  /\ region[reader].addr = avail_start
  /\ mod = {}
  /\ mod' = {reader}
  /\ avail_start' = (avail_start + k) % BUFSIZE
  /\ rcvd' = (rcvd + k) % Tags
  /\ region' = [region EXCEPT ![reader].len = k]
  /\ Goto(reader, "delete")
  /\ UNCHANGED <<avail_len, wait1, req, written, seen, buf, sent>>

(* Mutant of DeleteLen: the second assignment is missing. *)
DeleteLenForgotten ==
  /\ pc[reader] = "delete"
  /\ avail_len' = avail_len
  /\ mod' = {}
  /\ Goto(reader, "padr")
  /\ UNCHANGED <<avail_start, wait1, req, region, written, seen, stream>>

DeleteLen ==
  /\ pc[reader] = "delete"
  /\ avail_len' = avail_len - region[reader].len
  /\ mod' = {}
  /\ Goto(reader, "padr")
  /\ UNCHANGED <<avail_start, wait1, req, region, written, seen, stream>>

(* $delete with another address than the one $gadr returned. *)
DeleteRefused(a) ==
  /\ pc[reader] = "have"
  /\ a # avail_start
  /\ region' = [region EXCEPT ![reader] = NoRegion]
  /\ Goto(reader, "idle")
  /\ UNCHANGED <<status, locks, req, written, seen, stream>>

delete == (\E k \in 1 .. BUFSIZE : DeleteStart(k)) \/ DeleteLen

------------------------------------------------------------------------------
(***************************************************************************)
(* strmw: the user writes the next unit of its region ($trans on :<mem     *)
(* through $op), with the tag that belongs to its place in the stream.     *)
(***************************************************************************)
Cells(s) == region[s].addr .. (region[s].addr + region[s].len - 1)

FirstTag == IF pc[writer] = "padr" THEN sent + Tags - region[writer].len ELSE sent

Write ==
  /\ pc[writer] \in {"have", "padr"}
  /\ written < region[writer].len
  /\ buf' = [buf EXCEPT ![region[writer].addr + written] = (FirstTag + written) % Tags]
  /\ written' = written + 1
  /\ UNCHANGED <<status, locks, pc, req, region, seen, sent, rcvd>>

(***************************************************************************)
(* $create: the check reads avail_start and avail_len without a lock.      *)
(***************************************************************************)
CreateRead ==
  /\ pc[writer] = "have"
  /\ seen' = avail_start
  /\ Goto(writer, "check")
  /\ UNCHANGED <<status, locks, req, region, written, stream>>

CreateChecked ==
  /\ pc[writer] = "check"
  /\ region[writer].addr = (seen + avail_len) % BUFSIZE
  /\ seen' = 0
  /\ Goto(writer, "create")
  /\ UNCHANGED <<status, locks, req, region, written, stream>>

(* Mutant of CreateRefused: the border is not wrapped around. *)
CreateRefusedUnwrapped ==
  /\ pc[writer] = "check"
  /\ region[writer].addr # seen + avail_len
  /\ seen' = 0
  /\ region' = [region EXCEPT ![writer] = NoRegion]
  /\ written' = 0
  /\ Goto(writer, "idle")
  /\ UNCHANGED <<status, locks, req, stream>>

CreateRefused ==
  /\ pc[writer] = "check"
  /\ region[writer].addr # (seen + avail_len) % BUFSIZE
  /\ seen' = 0
  /\ region' = [region EXCEPT ![writer] = NoRegion]
  /\ written' = 0
  /\ Goto(writer, "idle")
  /\ UNCHANGED <<status, locks, req, stream>>

(* From here on the reader can have the units, written or not. *)
CreateLen ==
  /\ pc[writer] = "create"
  /\ mod = {}
  /\ avail_len' = avail_len + region[writer].len
  /\ sent' = (sent + region[writer].len) % Tags
  /\ Goto(writer, "padr")
  /\ UNCHANGED <<avail_start, locks, req, region, written, seen, buf, rcvd>>

create == Write \/ CreateRead \/ CreateChecked \/ CreateRefused \/ CreateLen

------------------------------------------------------------------------------
Next ==
  \/ \E s \in Sides, l \in Lens, y \in TryLens, a \in action_t : CallGadr(s, l, y, a)
  \/ \E s \in Sides : gadr(s) \/ padr(s)
  \/ delete
  \/ \E a \in Offsets : DeleteRefused(a)
  \/ create

Spec == Init /\ [][Next]_vars

(***************************************************************************)
(* A user may stop calling $gadr, but finishes what it began: "do not      *)
(* forget to call $padr before you do another $gadr" (pipe.ath).           *)
(***************************************************************************)
Fairness ==
  /\ \A s \in Sides : WF_vars(gadr(s)) /\ WF_vars(padr(s))
  /\ WF_vars(delete)
  /\ WF_vars(create)

FairSpec == Spec /\ Fairness

------------------------------------------------------------------------------
Asleep(s) == pc[s] = "wait" /\ s \in wait1

(* The side has moved its border and not called $padr yet. *)
OwesWakeup(s) == pc[s] \in {"delete", "padr"}

(***************************************************************************)
(* Reader and writer are never both asleep, whatever lengths they asked    *)
(* for: a region too short for the reader cannot wrap, and then the writer *)
(* has all the rest of the buffer, which is all $gadr lets it wait for.    *)
(***************************************************************************)
NeverBothAsleep == ~(Asleep(reader) /\ Asleep(writer))

(***************************************************************************)
(* No lost wakeup: a side that sleeps in $gadr, or is about to, has a      *)
(* reason to, or the other side is on its way to $padr.  The check, the    *)
(* wait place and LOCK_ADDR_MOD must be taken and released in the right    *)
(* order for it.                                                           *)
(***************************************************************************)
SleepersHaveReason ==
  \A s \in Sides :
    Asleep(s) \/ pc[s] = "release" => TooShort(s) \/ OwesWakeup(Other(s))

(* The units that are created but not written yet: how many, and where.    *)
Unwritten == IF pc[writer] = "padr" THEN region[writer].len - written ELSE 0
Late == IF pc[writer] = "padr"
        THEN (region[writer].addr + written) .. (region[writer].addr + region[writer].len - 1)
        ELSE {}

(***************************************************************************)
(* What the reader's user finds in its region, at any time until it calls  *)
(* $delete, are the next units of the stream: nothing stale, overwritten,  *)
(* skipped or repeated.  The only exception are the units the writer has   *)
(* created and is about to write: $create makes them visible, although the *)
(* documentation lets $putpadr do so, and the reader finds old data there. *)
(***************************************************************************)
ReaderSeesStream ==
  pc[reader] = "have" =>
    \A o \in (Cells(reader) \cap Offsets) \ Late :
      buf[o] = (rcvd + (o - region[reader].addr)) % Tags

(***************************************************************************)
(* The regions in use are contiguous parts of the buffer, and one handed   *)
(* out by strmw is the writer's alone until $create: it does not meet the  *)
(* region the reader's user still works on, although the reader's border   *)
(* may move at any time.                                                   *)
(***************************************************************************)
RegionsSafe ==
  /\ \A s \in Sides : Cells(s) \subseteq Offsets
  /\ pc[reader] = "have" /\ pc[writer] \in {"have", "check", "create"}
       => Cells(reader) \cap Cells(writer) = {}

(***************************************************************************)
(* demo_pipe2.ath takes a refused $create for an error.  $create with the  *)
(* address that $gadr returned is refused only when a $delete moves the    *)
(* border while it reads the two halves of the border without the lock;    *)
(* otherwise it is accepted, at the end of the buffer, too.                *)
(***************************************************************************)
RefusedOnlyDuringDelete ==
  [][pc[writer] = "check" /\ pc'[writer] = "idle"
       => pc[reader] = "delete" \/ seen # avail_start]_vars

(***************************************************************************)
(* The pipe is a bounded first-in first-out stream, extended by $create,   *)
(* consumed by $delete, and written before $create or after it.  The n     *)
(* last units of the content are Blank while n of them are not written.    *)
(***************************************************************************)
Content ==
  LET n == IF pc[reader] = "delete" THEN avail_len - region[reader].len ELSE avail_len
  IN  [i \in 1 .. n |-> IF i =< n - Unwritten THEN buf[(avail_start + i - 1) % BUFSIZE]
                                              ELSE Tags]

ST == INSTANCE Stream WITH Capacity <- BUFSIZE, content <- Content

ImplementsStream == ST!Spec

(***************************************************************************)
(* A waiting $gadr is served: once there is enough for it, it returns the  *)
(* region, although the data or the room came while it was falling asleep. *)
(***************************************************************************)
WaiterServed ==
  \A s \in Sides :
    (pc[s] \in {"release", "wait", "again"} /\ ~TooShort(s) /\ pc[reader] # "delete")
      ~> pc[s] = "have"

==============================================================================
