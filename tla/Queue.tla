-------------------------------- MODULE Queue --------------------------------
(***************************************************************************)
(* The brick queue (queue.ath): a bounded queue of packets.  A packet is a *)
(* block of the nest :<mem; the queue keeps a ring of entries that name    *)
(* the blocks.  The writer's $gadr allocates the block and notes it behind *)
(* the last available entry, $create makes the entry available; the        *)
(* reader's $gadr returns the first entry, $delete frees its block and     *)
(* removes it; $padr wakes the other side.  Waiting works as in Pipe: the  *)
(* waiter locks its wait place twice.                                      *)
(*                                                                         *)
(* As in Pipe, the two assignments of $delete are visible to the check of  *)
(* $create, which reads avail_start, avail_len and the entry they lead to  *)
(* without holding LOCK_ADDR_MOD.                                          *)
(*                                                                         *)
(* The writer's user writes its packet before $create or after it: whoever *)
(* calls $gadrcreate has the packet created before it has written anything *)
(* to it.  The reader can see the packet from $create on, and delete it.   *)
(***************************************************************************)
EXTENDS Integers, FiniteSets

CONSTANTS
  QUEUE_BUFSIZE,   \* the number of entries
  Blocks,          \* the blocks of :<mem
  Lens,            \* the lengths asked for
  TryLens,         \* the reader's upper bounds; 0 is no bound
  NoBlock          \* the address in an entry that was never written

ASSUME QueueAssumption ==
  /\ QUEUE_BUFSIZE \in Nat \ {0}
  /\ Lens \subseteq Nat \ {0}
  /\ TryLens \subseteq Nat
  /\ NoBlock \notin Blocks

reader == "reader"
writer == "writer"
Sides == {reader, writer}
Other(s) == IF s = reader THEN writer ELSE reader

Slots == 0 .. (QUEUE_BUFSIZE - 1)
Tags == 2 * QUEUE_BUFSIZE
action_t == {"try", "wait"}
queue_entry_t == [log_addr : Blocks \cup {NoBlock}, log_len : Lens \cup {0}]
NoEntry == [log_addr |-> NoBlock, log_len |-> 0]

VARIABLES
  avail_start, avail_len, buffer,   \* struct status_t
  alloc,                            \* the allocated blocks of :<mem
  mem,                              \* the tag stored in each block; Tags: none
  mod, wait1,                       \* LOCK_ADDR_MOD and the two wait places
  pc, req,                          \* where each side is, arguments of $gadr
  region,                           \* the entry its $gadr returned
  written,                          \* the writer's user has written its packet
  seen,                             \* avail_start as read by $create's check
  sent, rcvd                        \* tags of the next packets

status == <<avail_start, avail_len, buffer>>
nest == <<alloc, mem>>
locks == <<mod, wait1>>
tags == <<sent, rcvd>>
vars == <<status, nest, locks, pc, req, region, written, seen, tags>>

NoReq == [len |-> 0, try |-> 0, action |-> "try"]

TypeOK ==
  /\ avail_start \in Slots
  /\ avail_len \in 0 .. QUEUE_BUFSIZE
  /\ buffer \in [Slots -> queue_entry_t]
  /\ alloc \subseteq Blocks
  /\ mem \in [Blocks -> 0 .. Tags]
  /\ mod \in SUBSET Sides /\ wait1 \in SUBSET Sides
  /\ pc \in [Sides -> {"idle", "gadr", "release", "wait", "again", "have", "delete",
                       "check", "create", "padr"}]
  /\ req \in [Sides -> [len : Lens \cup {0}, try : TryLens \cup {0}, action : action_t]]
  /\ region \in [Sides -> queue_entry_t]
  /\ written \in BOOLEAN
  /\ seen \in Slots
  /\ sent \in 0 .. (Tags - 1) /\ rcvd \in 0 .. (Tags - 1)

Init ==
  /\ avail_start = 0 /\ avail_len = 0
  /\ buffer = [i \in Slots |-> NoEntry]
  /\ alloc = {}
  /\ mem = [b \in Blocks |-> Tags]
  /\ mod = {} /\ wait1 = {}
  /\ pc = [s \in Sides |-> "idle"]
  /\ req = [s \in Sides |-> NoReq]
  /\ region = [s \in Sides |-> NoEntry]
  /\ written = FALSE
  /\ seen = 0
  /\ sent = 0 /\ rcvd = 0

writer_start == (avail_start + avail_len) % QUEUE_BUFSIZE
Goto(s, where) == pc' = [pc EXCEPT ![s] = where]

------------------------------------------------------------------------------
(* strmw ignores @try_len. *)
CallGadr(s, l, y, a) ==
  /\ pc[s] = "idle"
  /\ s = writer => y = 0
  /\ req' = [req EXCEPT ![s] = [len |-> l, try |-> y, action |-> a]]
  /\ Goto(s, "gadr")
  /\ UNCHANGED <<status, nest, locks, region, written, seen, tags>>

Locked(s) == pc[s] \in {"gadr", "again"} /\ mod = {}
MustWait(s) == avail_len = IF s = reader THEN 0 ELSE QUEUE_BUFSIZE

(* $gadr returns, with a region or without one. *)
GadrReturn(s, entry) ==
  /\ region' = [region EXCEPT ![s] = entry]
  /\ req' = [req EXCEPT ![s] = NoReq]
  /\ Goto(s, IF entry = NoEntry THEN "idle" ELSE "have")

GadrRefused(s) ==
  /\ Locked(s) /\ pc[s] = "gadr"
  /\ MustWait(s)
  /\ req[s].action # "wait"
  /\ GadrReturn(s, NoEntry)
  /\ UNCHANGED <<status, nest, locks, written, seen, tags>>

GadrWait(s) ==
  /\ Locked(s)
  /\ MustWait(s)
  /\ pc[s] = "gadr" => req[s].action = "wait"
  /\ mod' = {s}
  /\ wait1' = wait1 \cup {s}
  /\ Goto(s, "release")
  /\ UNCHANGED <<status, nest, req, region, written, seen, tags>>

GadrRelease(s) ==
  /\ pc[s] = "release"
  /\ mod' = {}
  /\ Goto(s, "wait")
  /\ UNCHANGED <<status, nest, wait1, req, region, written, seen, tags>>

(* Mutant of GadrWoken: does not look at the status again. *)
GadrWokenSpins(s) ==
  /\ pc[s] = "wait"
  /\ s \notin wait1
  /\ Goto(s, "wait")
  /\ UNCHANGED <<status, nest, locks, req, region, written, seen, tags>>

GadrWoken(s) ==
  /\ pc[s] = "wait"
  /\ s \notin wait1
  /\ Goto(s, "again")
  /\ UNCHANGED <<status, nest, locks, req, region, written, seen, tags>>

(* Mutant of GadrRead: the packet behind the first. *)
GadrReadSecond ==
  /\ Locked(reader)
  /\ ~MustWait(reader)
  /\ LET block == buffer[(avail_start + 1) % QUEUE_BUFSIZE]
         fits == /\ block.log_len >= req[reader].len
                 /\ block.log_len =< req[reader].try \/ req[reader].try = 0
     IN  GadrReturn(reader, IF fits THEN block ELSE NoEntry)
  /\ UNCHANGED <<status, nest, locks, written, seen, tags>>

(* strmr: the first packet, if its length is what the user asked for. *)
GadrRead ==
  /\ Locked(reader)
  /\ ~MustWait(reader)
  /\ LET block == buffer[avail_start]
         fits == /\ block.log_len >= req[reader].len
                 /\ block.log_len =< req[reader].try \/ req[reader].try = 0
     IN  GadrReturn(reader, IF fits THEN block ELSE NoEntry)
  /\ UNCHANGED <<status, nest, locks, written, seen, tags>>

(* Mutant of GadrWrite: $gadr on :<mem in place of $gadrcreate. *)
GadrWriteNoAlloc(b) ==
  /\ Locked(writer)
  /\ ~MustWait(writer)
  /\ b \notin alloc
  /\ alloc' = alloc
  /\ LET block == [log_addr |-> b, log_len |-> req[writer].len]
     IN  /\ buffer' = [buffer EXCEPT ![writer_start] = block]
         /\ GadrReturn(writer, block)
  /\ UNCHANGED <<avail_start, avail_len, mem, locks, written, seen, tags>>

(* strmw: :<mem$gadrcreate, which fails when it has no block left. *)
GadrWrite(b) ==
  /\ Locked(writer)
  /\ ~MustWait(writer)
  /\ b \notin alloc
  /\ alloc' = alloc \cup {b}
  /\ LET block == [log_addr |-> b, log_len |-> req[writer].len]
     IN  /\ buffer' = [buffer EXCEPT ![writer_start] = block]
         /\ GadrReturn(writer, block)
  /\ UNCHANGED <<avail_start, avail_len, mem, locks, written, seen, tags>>

GadrNoBlock ==
  /\ Locked(writer)
  /\ ~MustWait(writer)
  /\ alloc = Blocks
  /\ GadrReturn(writer, NoEntry)
  /\ UNCHANGED <<status, nest, locks, written, seen, tags>>

gadr(s) ==
  \/ GadrRefused(s) \/ GadrWait(s) \/ GadrRelease(s) \/ GadrWoken(s)
  \/ s = reader /\ GadrRead
  \/ s = writer /\ ((\E b \in Blocks : GadrWrite(b)) \/ GadrNoBlock)

(* The writer's user calls it when it has written its packet. *)
padr(s) ==
  /\ pc[s] = "padr"
  /\ s = writer => written
  /\ wait1' = wait1 \ {Other(s)}
  /\ region' = [region EXCEPT ![s] = NoEntry]
  /\ written' = (written /\ s # writer)
  /\ Goto(s, "idle")
  /\ UNCHANGED <<status, nest, mod, req, seen, tags>>

------------------------------------------------------------------------------
(* Mutant of DeleteStart: the remainder is forgotten. *)
DeleteStartNoWrap ==
  /\ pc[reader] = "have"
  /\ region[reader] = buffer[avail_start]
  /\ mod = {}
  /\ mod' = {reader}
  /\ alloc' = alloc \ {region[reader].log_addr}
  /\ mem' = [mem EXCEPT ![region[reader].log_addr] = Tags]
  /\ avail_start' = avail_start + 1
  /\ rcvd' = (rcvd + 1) % Tags
  /\ Goto(reader, "delete")
  /\ UNCHANGED <<avail_len, buffer, wait1, req, region, written, seen, sent>>

(* strmr $delete: the check, :<mem$delete and the first assignment. *)
DeleteStart ==
  /\ pc[reader] = "have"
  /\ region[reader] = buffer[avail_start]
  /\ mod = {}
  /\ mod' = {reader}
  /\ alloc' = alloc \ {region[reader].log_addr}
  /\ mem' = [mem EXCEPT ![region[reader].log_addr] = Tags]
  /\ avail_start' = (avail_start + 1) % QUEUE_BUFSIZE
  /\ rcvd' = (rcvd + 1) % Tags
  /\ Goto(reader, "delete")
  /\ UNCHANGED <<avail_len, buffer, wait1, req, region, written, seen, sent>>

(* Mutant of DeleteLen: the second assignment is missing. *)
DeleteLenForgotten ==
  /\ pc[reader] = "delete"
  /\ avail_len' = avail_len
  /\ mod' = {}
  /\ Goto(reader, "padr")
  /\ UNCHANGED <<avail_start, buffer, nest, wait1, req, region, written, seen, tags>>

DeleteLen ==
  /\ pc[reader] = "delete"
  /\ avail_len' = avail_len - 1
  /\ mod' = {}
  /\ Goto(reader, "padr")
  /\ UNCHANGED <<avail_start, buffer, nest, wait1, req, region, written, seen, tags>>

(* :<mem$delete failed, or the user named another packet: nothing changes, *)
(* and $deletepadr returns without $padr.                                  *)
DeleteFailed ==
  /\ pc[reader] = "have"
  /\ mod = {}
  /\ region' = [region EXCEPT ![reader] = NoEntry]
  /\ Goto(reader, "idle")
  /\ UNCHANGED <<status, nest, locks, req, written, seen, tags>>

------------------------------------------------------------------------------
(* strmw: the user writes its packet, before $create or after it; then the *)
(* block may already be freed.                                             *)
Tag == IF pc[writer] = "padr" THEN sent + Tags - 1 ELSE sent

Write ==
  /\ pc[writer] \in {"have", "padr"}
  /\ ~written
  /\ mem' = [mem EXCEPT ![region[writer].log_addr] = Tag % Tags]
  /\ written' = TRUE
  /\ UNCHANGED <<status, alloc, locks, pc, req, region, seen, tags>>

(* $create: the check reads avail_start, then avail_len and the entry. *)
CreateRead ==
  /\ pc[writer] = "have"
  /\ seen' = avail_start
  /\ Goto(writer, "check")
  /\ UNCHANGED <<status, nest, locks, req, region, written, tags>>

EntrySeen == buffer[(seen + avail_len) % QUEUE_BUFSIZE]

CreateChecked ==
  /\ pc[writer] = "check"
  /\ EntrySeen = region[writer]
  /\ seen' = 0
  /\ Goto(writer, "create")
  /\ UNCHANGED <<status, nest, locks, req, region, written, tags>>

(* The block stays allocated: $gadrcreate does not give it back. *)
CreateRefused ==
  /\ pc[writer] = "check"
  /\ EntrySeen # region[writer]
  /\ seen' = 0
  /\ region' = [region EXCEPT ![writer] = NoEntry]
  /\ written' = FALSE
  /\ Goto(writer, "idle")
  /\ UNCHANGED <<status, nest, locks, req, tags>>

(* From here on the reader can have the packet, written or not. *)
CreateLen ==
  /\ pc[writer] = "create"
  /\ mod = {}
  /\ avail_len' = avail_len + 1
  /\ sent' = (sent + 1) % Tags
  /\ Goto(writer, "padr")
  /\ UNCHANGED <<avail_start, buffer, nest, locks, req, region, written, seen, rcvd>>

create == Write \/ CreateRead \/ CreateChecked \/ CreateRefused \/ CreateLen

------------------------------------------------------------------------------
Next ==
  \/ \E s \in Sides, l \in Lens, y \in TryLens, a \in action_t : CallGadr(s, l, y, a)
  \/ \E s \in Sides : gadr(s) \/ padr(s)
  \/ DeleteStart \/ DeleteLen \/ DeleteFailed
  \/ create

Spec == Init /\ [][Next]_vars

(* As in Pipe: a user may stop calling, but finishes what it began. *)
Fairness ==
  /\ \A s \in Sides : WF_vars(gadr(s)) /\ WF_vars(padr(s))
  /\ WF_vars(DeleteStart \/ DeleteLen \/ DeleteFailed)
  /\ WF_vars(create)

FairSpec == Spec /\ Fairness

------------------------------------------------------------------------------
(* The ring positions of the available packets, oldest first. *)
Pending == IF pc[reader] = "delete" THEN avail_len - 1 ELSE avail_len
Slot(i) == (avail_start + i - 1) % QUEUE_BUFSIZE

(***************************************************************************)
(* Every available packet is an allocated block, no block is queued twice, *)
(* and none is the one the writer has not created yet: freeing a packet    *)
(* never pulls the memory away from under another one.                     *)
(***************************************************************************)
PacketsOwnBlocks ==
  \A i \in 1 .. Pending :
    LET b == buffer[Slot(i)].log_addr
    IN  /\ b \in alloc
        /\ \A j \in 1 .. Pending : buffer[Slot(j)].log_addr = b => j = i
        /\ pc[writer] \in {"have", "check", "create"}
             => region[writer].log_addr # b

(* The number of packets that are created but not written yet: the last    *)
(* one, from $create until its user has written it.                        *)
Unwritten == IF pc[writer] = "padr" /\ ~written THEN 1 ELSE 0

(***************************************************************************)
(* The packet the reader's user holds is the next one of the stream, and   *)
(* stays so until it is deleted.  The only exception is the packet the     *)
(* writer has created and is about to write: $create makes it visible,     *)
(* although the documentation lets $putpadr do so.                         *)
(***************************************************************************)
ReaderSeesStream ==
  pc[reader] = "have" =>
    /\ region[reader].log_addr \in alloc
    /\ \/ mem[region[reader].log_addr] = rcvd
       \/ Unwritten = 1 /\ region[reader].log_addr = region[writer].log_addr

(* The packets of the queue; one that is not written counts as Blank.      *)
Content == [i \in 1 .. Pending |->
              IF i =< Pending - Unwritten /\ buffer[Slot(i)].log_addr \in Blocks
              THEN mem[buffer[Slot(i)].log_addr]
              ELSE Tags]

ST == INSTANCE Stream WITH Capacity <- QUEUE_BUFSIZE, content <- Content

(***************************************************************************)
(* The queue is a bounded first-in first-out stream of packets, each of    *)
(* them written before its $create or after it.                            *)
(***************************************************************************)
ImplementsStream == ST!Spec

(***************************************************************************)
(* A waiting $gadr ends once the queue is no longer empty (or full),       *)
(* although the packet (or the room) came while it was falling asleep.     *)
(***************************************************************************)
WaiterServed ==
  \A s \in Sides :
    (pc[s] \in {"release", "wait", "again"} /\ ~MustWait(s) /\ pc[reader] # "delete")
      ~> pc[s] \in {"have", "idle"}

==============================================================================
