------------------------------ MODULE IoQueue ------------------------------
(***************************************************************************)
(* The request queue between applications and a block driver: io_queue.ath *)
(* (the queue), io_sched_elevator.ath (applications submit through it) and *)
(* io_arbiter.ath (threads that carry requests to the driver).             *)
(*                                                                         *)
(* The queue is an array of references to request blocks.  An address in   *)
(* the queue is a position that only grows; `offset' is the position of    *)
(* cell 0, and make_valid moves the used cells down when the array's end   *)
(* is reached.  Positions count requests (the code counts 64 bytes each).  *)
(*                                                                         *)
(* lock[0] and lock[1] are waiting lists: a waiter draws the next ticket   *)
(* and locks that address, which next_unlock++ frees.  lock[2] frees the   *)
(* address lock_id of a request when it was processed.  lock[3] protects   *)
(* the queue; `holder' is its owner, who may take it again.  A submitter   *)
(* keeps it from queue(:1:)$lock to queue(:1:)$unlock (extlock), so that   *)
(* its calls in between are one action.  :<lock[] and :<driver are         *)
(* external.                                                               *)
(***************************************************************************)
EXTENDS Integers, SequencesExt

CONSTANTS
  Users, Arbiters,        \* threads
  Submissions,            \* arguments of $trans: [req |-> [log_addr, data], prio]
  Cancels,                \* address ranges of $trans with direct_stop
  IOQUEUE_MAX_REQUESTS, IOQUEUE_ADD_REQUESTS,
  MAX_CALLS,              \* bound on the number of calls
  NoOne

IOQUEUE_TOTAL_REQUESTS == IOQUEUE_MAX_REQUESTS + IOQUEUE_ADD_REQUESTS

(* prio_t of common.h *)
prio_background == 1
prio_normal == 2
prio_urgent == 3

ASSUME IoQueueAssumption ==
  /\ IOQUEUE_MAX_REQUESTS \in Nat \ {0, 1}
  /\ IOQUEUE_ADD_REQUESTS \in Nat
  /\ \A s \in Submissions : /\ s.req.log_addr \in Nat
                             /\ s.prio \in {prio_background, prio_normal, prio_urgent}
  /\ MAX_CALLS \in Nat
  /\ NoOne \notin Users /\ Users \cap Arbiters = {}

(* ioqueue_index *)
locked_head == 0
head == 1
sched_normal == 2
sched_background == 3
tail == 4
insert_background == 7
sched_urgent == head

Blocks == 0 .. (IOQUEUE_MAX_REQUESTS - 1)
NULLPTR == IOQUEUE_MAX_REQUESTS
Cells == 0 .. (IOQUEUE_TOTAL_REQUESTS - 1)

VARIABLES
  d,        \* the data of io_queue, with what it unlocked in lock[2]
  holder,   \* owner of lock[3]
  pc,       \* where each thread is
  arg,      \* a user's [req, prio, ticket] of $trans
  place,    \* an arbiter's ticket, then the position $gadr returned
  waits,    \* a user's $wait: the lock_ids it waits for, and those given before
  calls,    \* number of calls so far
  exited    \* @.fatal ended the program

vars == <<d, holder, pc, arg, place, waits, calls, exited>>

ioqueue_request ==
  [req : {s.req : s \in Submissions}, prio : {s.prio : s \in Submissions},
   stop : BOOLEAN, lock_id : Nat]
Zeroed == [req |-> [log_addr |-> 0, data |-> 0], prio |-> 0, stop |-> FALSE, lock_id |-> 0]

(* what output_init allocates *)
ioqueue_data ==
  [queue : [Cells -> Blocks \cup {NULLPTR}], offset : Nat,
   idx : [0 .. insert_background -> Nat],
   request : [Blocks -> ioqueue_request \cup {Zeroed}], freelist : Seq(Blocks),
   next_lock : [0 .. 2 -> Nat], next_unlock : [0 .. 1 -> Nat],
   done : SUBSET Nat, extlock : BOOLEAN, error_state : BOOLEAN]

(* the lock_ids given so far *)
Ids == 0 .. (d.next_lock[2] - 1)
NoArg == << >>
NoSearch == << >>
NoWait == [ids |-> {}, before |-> {}]

TypeOK ==
  /\ d \in ioqueue_data /\ Len(d.freelist) <= IOQUEUE_MAX_REQUESTS /\ d.done \subseteq Ids
  /\ d.extlock = (holder # NoOne)
  /\ holder \in Users \cup {NoOne}
  /\ \A u \in Users : pc[u] \in {"idle", "free", "enter", "body", "wait", "stuck"}
  /\ \A a \in Arbiters : pc[a] \in {"start", "avail", "take", "fetch", "driver",
                                    "delete", "ended"}
  /\ \A u \in Users : waits[u].ids \subseteq waits[u].before /\ waits[u].before \subseteq Ids

Init ==
  /\ d = [queue |-> [c \in Cells |-> 0], offset |-> 0,
          idx |-> [i \in 0 .. insert_background |-> 0],
          request |-> [b \in Blocks |-> Zeroed],
          freelist |-> [i \in 1 .. IOQUEUE_MAX_REQUESTS |-> i - 1],
          next_lock |-> [n \in 0 .. 2 |-> 0],
          next_unlock |-> [n \in 0 .. 1 |-> IF n = 0 THEN IOQUEUE_MAX_REQUESTS ELSE 0],
          done |-> {}, extlock |-> FALSE, error_state |-> FALSE]
  /\ holder = NoOne
  /\ pc = [t \in Users \cup Arbiters |-> IF t \in Users THEN "idle" ELSE "start"]
  /\ arg = [u \in Users |-> NoArg]
  /\ place = [a \in Arbiters |-> 0]
  /\ waits = [u \in Users |-> NoWait]
  /\ calls = 0
  /\ exited = FALSE

Goto(t, where) == pc' = [pc EXCEPT ![t] = where]

------------------------------------------------------------------------------
(* Operations of io_queue on its data. *)

Cell(q, pos) == pos - q.offset
At(q, pos) == q.queue[Cell(q, pos)]
IsNull(q, pos) == At(q, pos) = NULLPTR
Request(q, pos) == q.request[At(q, pos)]

(* Mutant of make_valid: the last used cell is not moved. *)
make_valid_short(q, pos) ==
  LET c == Cell(q, q.idx[locked_head])
      used == Cell(q, q.idx[tail]) - c - 1 IN
  IF Cell(q, pos) < IOQUEUE_TOTAL_REQUESTS THEN q
  ELSE [q EXCEPT !.queue = [i \in Cells |-> IF i < used THEN @[i + c] ELSE @[i]],
                 !.offset = @ + c]

make_valid(q, pos) ==
  LET c == Cell(q, q.idx[locked_head])
      used == Cell(q, q.idx[tail]) - c IN
  IF Cell(q, pos) < IOQUEUE_TOTAL_REQUESTS THEN q
  ELSE [q EXCEPT !.queue = [i \in Cells |-> IF i < used THEN @[i + c] ELSE @[i]],
                 !.offset = @ + c]

waitlistlock_getid(q, nr) == [q EXCEPT !.next_lock[nr] = @ + 1]

(* lock[nr]$lock of a ticket does not block *)
Unlocked(nr, ticket) == d.error_state \/ ticket < d.next_unlock[nr]

break_all_locks(q) == [q EXCEPT !.error_state = TRUE]

(* $gadr of a writer who holds lock[3]: $lock has made the position valid. *)
gadr(q) ==
  [waitlistlock_getid(q, 0) EXCEPT !.idx[tail] = @ + 1,
                                   !.queue[Cell(q, q.idx[tail])] = NULLPTR]

(* the number of cells from c to t that are empty up to the first used one *)
FreeAgain(queue, c, t) == Cardinality({k \in c .. t : \A j \in c .. k : queue[j] = NULLPTR})

(* Mutant of delete: makes a place available, locked_head stays. *)
delete_one(q, pos) ==
  [q EXCEPT !.queue[Cell(q, pos)] = NULLPTR,
            !.freelist = <<At(q, pos)>> \o @,
            !.done = @ \cup {Request(q, pos).lock_id},
            !.next_unlock[0] = @ + 1]

(* Mutant of delete: the request block is not returned to the freelist. *)
delete_leaks(q, pos) ==
  LET queue == [q.queue EXCEPT ![Cell(q, pos)] = NULLPTR]
      k == FreeAgain(queue, Cell(q, q.idx[locked_head]), Cell(q, q.idx[tail]) - 1) IN
  [q EXCEPT !.queue = queue,
            !.done = @ \cup {Request(q, pos).lock_id},
            !.next_unlock[0] = @ + k,
            !.idx[locked_head] = @ + k]

delete(q, pos) ==
  LET queue == [q.queue EXCEPT ![Cell(q, pos)] = NULLPTR]
      k == FreeAgain(queue, Cell(q, q.idx[locked_head]), Cell(q, q.idx[tail]) - 1) IN
  IF IsNull(q, pos) THEN q
  ELSE [q EXCEPT !.queue = queue,
                 !.freelist = <<At(q, pos)>> \o @,
                 !.done = @ \cup {Request(q, pos).lock_id},
                 !.next_unlock[0] = @ + k,
                 !.idx[locked_head] = @ + k]

------------------------------------------------------------------------------
(* io_sched_elevator: the search for an equal request or the place of a new one. *)

Equal(q, pos, r) == Request(q, pos).req = r /\ ~Request(q, pos).stop

SameAddr(q, pos, r) == ~IsNull(q, pos) /\ Request(q, pos).req.log_addr = r.log_addr

Result(found, next) == [found |-> found, next |-> next, fatal |-> FALSE]
NoResult(next) == [found |-> FALSE, next |-> next, fatal |-> TRUE]

(* The search met log_addr at c: look for an equal request below c down to *)
(* f, then above c up to t.                                                *)
LocalSearch(q, r, f, t, c) ==
  LET below == {p \in f .. (c - 1) : \A k \in p .. (c - 1) : SameAddr(q, k, r)}
      above == {p \in (c + 1) .. t : \A k \in (c + 1) .. p : SameAddr(q, k, r)}
      back == {p \in below : Equal(q, p, r)}
      forth == {p \in above : Equal(q, p, r)}
      under == c - Cardinality(below) - 1 IN
  IF Equal(q, c, r) THEN Result(TRUE, c)
  ELSE IF back # {} THEN Result(TRUE, Max(back))
  ELSE IF under >= f /\ IsNull(q, under) THEN Result(FALSE, c)
  ELSE IF forth # {} THEN Result(TRUE, Min(forth))
  ELSE Result(FALSE, c + Cardinality(above) + 1)

(* The loop of binary_search as a function of its variables: an empty      *)
(* entry at check is @.fatal.                                              *)
SearchState == [from : Int, to : Int, check : Int, next : Int]

Middle(from, to, next) ==
  [from |-> from, to |-> to, check |-> from + (to - from) \div 2, next |-> next]

Searching(q, r) ==
  LET bs[x \in SearchState] ==
        IF x.from > x.to THEN Result(FALSE, x.next)
        ELSE IF IsNull(q, x.check) THEN NoResult(x.next)
        ELSE IF Request(q, x.check).req.log_addr < r.log_addr
             THEN bs[Middle(x.check + 1, x.to, x.next)]
        ELSE IF Request(q, x.check).req.log_addr > r.log_addr
             THEN bs[Middle(x.from, x.check - 1, x.check)]
        ELSE LocalSearch(q, r, x.from, x.to, x.check) IN
  bs

binary_search(q, r, from, to, check, next) ==
  Searching(q, r)[IF check \in from .. to
                  THEN [from |-> from, to |-> to, check |-> check, next |-> next]
                  ELSE Middle(from, to, next)]

search(q, r, pr) ==
  binary_search(q, r, q.idx[sched_background - pr], q.idx[sched_background - pr + 1] - 1,
                q.idx[insert_background - pr], q.idx[sched_background - pr + 1])

(* The reference b of the new request in cell n is moved to cell p, and    *)
(* those from p on up by one.                                              *)
InsertedAt(queue, n, p, b) ==
  IF n > p
  THEN [i \in Cells |-> IF i \in {p, n + 1} THEN b
                        ELSE IF i \in (p + 1) .. n THEN queue[i - 1] ELSE queue[i]]
  ELSE [queue EXCEPT ![n] = b]

(* Mutant of insertrequest: the lower classes do not start one later. *)
insertrequest_unshifted(idx, pos, prio) == [idx EXCEPT ![insert_background - prio] = pos]

insertrequest(idx, pos, prio) ==
  [i \in DOMAIN idx |->
     IF i = insert_background - prio THEN pos
     ELSE IF i \in (sched_background - prio + 1) .. (sched_background - prio_background)
          THEN idx[i] + 1 ELSE idx[i]]

(* sched_* indices may not lie before the head *)
Validated(q) ==
  LET n == Max({q.idx[sched_normal], q.idx[sched_urgent]})
      b == Max({q.idx[sched_background], n}) IN
  [q EXCEPT !.idx[sched_normal] = n, !.idx[sched_background] = b]

------------------------------------------------------------------------------
(* A user calls $trans of the elevator: queue(:1:)$lock waits until two    *)
(* requests are free.                                                      *)
Idle(u) == pc[u] = "idle" /\ calls < MAX_CALLS /\ calls' = calls + 1

CallTrans(u, s) ==
  /\ Idle(u)
  /\ arg' = [arg EXCEPT ![u] = [req |-> s.req, prio |-> s.prio,
                                   ticket |-> d.next_lock[0] + 1, search |-> NoSearch]]
  /\ Goto(u, "free")
  /\ UNCHANGED <<d, holder, place, waits, exited>>

LockWoken(u) ==
  /\ pc[u] = "free"
  /\ Unlocked(0, arg[u].ticket)
  /\ Goto(u, IF d.error_state THEN "idle" ELSE "enter")
  /\ arg' = IF d.error_state THEN [arg EXCEPT ![u] = NoArg] ELSE arg
  /\ UNCHANGED <<d, holder, place, waits, calls, exited>>

LockRetry(u) ==
  /\ pc[u] = "enter"
  /\ holder = NoOne
  /\ arg[u].ticket # d.next_lock[0] + 1
  /\ arg' = [arg EXCEPT ![u].ticket = d.next_lock[0] + 1]
  /\ Goto(u, "free")
  /\ UNCHANGED <<d, holder, place, waits, calls, exited>>

(* The search of the classes urgent, normal, background ends in the first  *)
(* one where it finds an equal request or meets an empty entry; otherwise  *)
(* it gives the place in the class of the request.                         *)
SearchAll(q, r, prio) ==
  LET s == [pr \in prio_background .. prio_urgent |-> search(q, r, pr)]
      ends == {pr \in DOMAIN s : s[pr].found \/ s[pr].fatal} IN
  IF ends = {} THEN [class |-> prio, result |-> s[prio]]
  ELSE [class |-> Max(ends), result |-> s[Max(ends)]]

(* queue(:1:)$lock is granted; with the lock, the search is done. *)
LockEnter(u) ==
  /\ pc[u] = "enter"
  /\ holder = NoOne
  /\ arg[u].ticket = d.next_lock[0] + 1
  /\ \E q \in {Validated(make_valid(d, d.idx[tail] + 1))} :
     /\ d' = [q EXCEPT !.extlock = TRUE]
     /\ arg' = [arg EXCEPT ![u].search = SearchAll(q, arg[u].req, arg[u].prio)]
  /\ holder' = u
  /\ Goto(u, "body")
  /\ UNCHANGED <<place, waits, calls, exited>>

Found(u) == arg[u].search.result.found
Fatal(u) == arg[u].search.result.fatal
Place(u) == arg[u].search.result.next

(* Mutant of Unlock: extlock stays set. *)
UnlockKeepsExtlock(u, q) ==
  /\ d' = q
  /\ holder' = NoOne
  /\ arg' = [arg EXCEPT ![u] = NoArg]
  /\ Goto(u, "idle")

Unlock(u, q) ==
  /\ d' = [q EXCEPT !.extlock = FALSE]
  /\ holder' = NoOne
  /\ arg' = [arg EXCEPT ![u] = NoArg]
  /\ Goto(u, "idle")

(* An equal request is in the queue: it may get the higher priority. *)
TransMerge(u) ==
  /\ pc[u] = "body"
  /\ Found(u)
  /\ Unlock(u, IF arg[u].prio > arg[u].search.class
               THEN [d EXCEPT !.request[At(d, Place(u))].prio = arg[u].prio]
               ELSE d)
  /\ UNCHANGED <<place, waits, calls, exited>>

(* Mutant of Submitted: the request is not offered to the arbiters. *)
SubmittedUnoffered(q, r, prio, next) ==
  LET pos == q.idx[tail]
      b == Head(q.freelist) IN
  [q EXCEPT !.next_lock = [q.next_lock EXCEPT ![0] = @ + 1, ![2] = @ + 1],
            !.freelist = Tail(q.freelist),
            !.request = [q.request EXCEPT
                           ![b] = [req |-> r, prio |-> prio, stop |-> FALSE,
                                   lock_id |-> q.next_lock[2]]],
            !.queue = InsertedAt(q.queue, Cell(q, pos), Cell(q, next), b),
            !.idx = insertrequest([q.idx EXCEPT ![tail] = pos + 1], next, prio)]

(* $gadr and $create link the new request at the tail, $unlock offers it   *)
(* to the arbiters, insertrequest moves it to its place.                   *)
Submitted(q, r, prio, next) ==
  LET pos == q.idx[tail]
      b == Head(q.freelist) IN
  [q EXCEPT !.next_lock = [q.next_lock EXCEPT ![0] = @ + 1, ![2] = @ + 1],
            !.next_unlock = [q.next_unlock EXCEPT ![1] = @ + 1],
            !.freelist = Tail(q.freelist),
            !.request = [q.request EXCEPT
                           ![b] = [req |-> r, prio |-> prio, stop |-> FALSE,
                                   lock_id |-> q.next_lock[2]]],
            !.queue = InsertedAt(q.queue, Cell(q, pos), Cell(q, next), b),
            !.idx = insertrequest([q.idx EXCEPT ![tail] = pos + 1], next, prio)]

TransSubmit(u) ==
  /\ pc[u] = "body"
  /\ ~Found(u) /\ ~Fatal(u)
  /\ ~d.error_state /\ d.freelist # << >>
  /\ Unlock(u, Submitted(d, arg[u].req, arg[u].prio, Place(u)))
  /\ UNCHANGED <<place, waits, calls, exited>>

(* The search met an empty entry: @.fatal.  Or $gadr sees the error state, *)
(* or $create finds no request block: the @.check of $trans returns        *)
(* without queue(:1:)$unlock.                                              *)
TransAbort(u) ==
  /\ pc[u] = "body"
  /\ ~Found(u)
  /\ Fatal(u) \/ d.error_state \/ d.freelist = << >>
  /\ exited' = Fatal(u)
  /\ d' = IF Fatal(u) \/ d.error_state THEN d ELSE gadr(d)
  /\ Goto(u, "stuck")
  /\ UNCHANGED <<holder, arg, place, waits, calls>>

(* $trans with direct_stop cancels the schedulable requests of a range. *)
Cancelled(q, addrs) ==
  LET hit == {At(q, p) : p \in q.idx[head] .. (q.idx[tail] - 1)} \ {NULLPTR} IN
  [q EXCEPT !.request = [b \in Blocks |->
     IF b \in hit /\ @[b].req.log_addr \in addrs THEN [@[b] EXCEPT !.stop = TRUE] ELSE @[b]]]

CallCancel(u, addrs) ==
  /\ Idle(u)
  /\ holder = NoOne
  /\ d' = Cancelled(d, addrs)
  /\ UNCHANGED <<holder, pc, arg, place, waits, exited>>

(* $wait: for the last request of the queue, else for all requests. *)
(* Mutant of WaitIds: the first request. *)
WaitIdsFirst ==
  LET first == d.idx[locked_head] IN
  IF first < d.idx[tail] /\ ~IsNull(d, first)
  THEN {Request(d, first).lock_id}
  ELSE Ids

WaitIds ==
  LET last == d.idx[tail] - 1 IN
  IF d.idx[locked_head] <= last /\ ~IsNull(d, last)
  THEN {Request(d, last).lock_id}
  ELSE Ids

CallWait(u) ==
  /\ Idle(u)
  /\ holder = NoOne
  /\ waits' = [waits EXCEPT ![u] = [ids |-> WaitIds, before |-> Ids]]
  /\ Goto(u, "wait")
  /\ UNCHANGED <<d, holder, arg, place, exited>>

WaitReturn(u) ==
  /\ pc[u] = "wait"
  /\ waits[u].ids \subseteq d.done \/ d.error_state
  /\ waits' = [waits EXCEPT ![u] = NoWait]
  /\ Goto(u, "idle")
  /\ UNCHANGED <<d, holder, arg, place, calls, exited>>

------------------------------------------------------------------------------
(* An arbiter thread. *)
GadrTicket(a) ==
  /\ pc[a] = "start"
  /\ holder = NoOne
  /\ place' = [place EXCEPT ![a] = d.next_lock[1]]
  /\ d' = waitlistlock_getid(d, 1)
  /\ Goto(a, "avail")
  /\ UNCHANGED <<holder, arg, waits, calls, exited>>

(* fail: the queue is switched to the error state, the thread ends. *)
Fail(a) == d' = break_all_locks(d) /\ Goto(a, "ended")

GadrWoken(a) ==
  /\ pc[a] = "avail"
  /\ Unlocked(1, place[a])
  /\ IF d.error_state THEN Fail(a) ELSE Goto(a, "take") /\ UNCHANGED d
  /\ UNCHANGED <<holder, arg, place, waits, calls, exited>>

(* An empty entry sends the reader back to the waiting list. *)
GadrTake(a) ==
  /\ pc[a] = "take"
  /\ holder = NoOne
  /\ LET pos == d.idx[head]
         q == [d EXCEPT !.idx[head] = @ + 1] IN
     IF IsNull(d, pos)
     THEN /\ d' = waitlistlock_getid(q, 1)
          /\ place' = [place EXCEPT ![a] = d.next_lock[1]]
          /\ Goto(a, "avail")
     ELSE /\ d' = q
          /\ place' = [place EXCEPT ![a] = pos]
          /\ Goto(a, "fetch")
  /\ UNCHANGED <<holder, arg, waits, calls, exited>>

Valid(pos) == Cell(d, pos) \in Cells

Fetch(a) ==
  /\ pc[a] = "fetch"
  /\ holder = NoOne
  /\ IF ~Valid(place[a]) \/ IsNull(d, place[a]) THEN Fail(a)
     ELSE /\ Goto(a, IF Request(d, place[a]).stop THEN "delete" ELSE "driver")
          /\ UNCHANGED d
  /\ UNCHANGED <<holder, arg, place, waits, calls, exited>>

(* :<driver$trans transfers everything, or fails or falls short. *)
Driver(a, ok) ==
  /\ pc[a] = "driver"
  /\ IF ok THEN Goto(a, "delete") /\ UNCHANGED d ELSE Fail(a)
  /\ UNCHANGED <<holder, arg, place, waits, calls, exited>>

Delete(a) ==
  /\ pc[a] = "delete"
  /\ holder = NoOne
  /\ IF Valid(place[a])
     THEN d' = delete(d, place[a]) /\ Goto(a, "start")
     ELSE Fail(a)
  /\ place' = [place EXCEPT ![a] = 0]
  /\ UNCHANGED <<holder, arg, waits, calls, exited>>

------------------------------------------------------------------------------
UserStep(u) ==
  \/ LockWoken(u) \/ LockRetry(u) \/ LockEnter(u)
  \/ TransMerge(u) \/ TransSubmit(u) \/ TransAbort(u)
  \/ WaitReturn(u)

ArbiterStep(a) ==
  \/ GadrTicket(a) \/ GadrWoken(a) \/ GadrTake(a) \/ Fetch(a)
  \/ \E ok \in BOOLEAN : Driver(a, ok)
  \/ Delete(a)

Call(u) ==
  \/ \E s \in Submissions : CallTrans(u, s)
  \/ \E addrs \in Cancels : CallCancel(u, addrs)
  \/ CallWait(u)

Next ==
  /\ ~exited
  /\ \/ \E u \in Users : Call(u) \/ UserStep(u)
     \/ \E a \in Arbiters : ArbiterStep(a)

Spec == Init /\ [][Next]_vars

(* Threads run, the driver returns, and a lock that stays free is taken. *)
FairSpec ==
  /\ Spec
  /\ \A u \in Users : WF_vars(~exited /\ UserStep(u))
  /\ \A a \in Arbiters : WF_vars(~exited /\ ArbiterStep(a))

------------------------------------------------------------------------------
Zone == d.idx[locked_head] .. (d.idx[tail] - 1)
Entries == {p \in Zone : ~IsNull(d, p)}
Queued(id) == {p \in Entries : Request(d, p).lock_id = id}

(* No request is lost and none is queued twice: the locked and the         *)
(* schedulable zone hold exactly the requests not processed yet, each at   *)
(* one position, and all other request blocks are in the freelist.  So the *)
(* moves of make_valid and insertrequest keep every entry.                 *)
RequestsAccounted ==
  /\ \A id \in Ids : Cardinality(Queued(id)) = IF id \in d.done THEN 0 ELSE 1
  /\ Cardinality(Entries) = Cardinality({At(d, p) : p \in Entries})
  /\ Range(d.freelist) = Blocks \ {At(d, p) : p \in Entries}
  /\ Cardinality(Range(d.freelist)) = Len(d.freelist)

(* The waiting lists agree with the queue: as many writers are let in as   *)
(* there are places, as many arbiters as there are requests, and the       *)
(* arbiter who is let in finds one.                                        *)
TicketsMatchQueue ==
  /\ d.next_lock[0] = d.idx[tail]
  /\ d.next_unlock[0] = d.idx[locked_head] + IOQUEUE_MAX_REQUESTS
  /\ d.next_unlock[1] = d.idx[tail]
  /\ \A a \in Arbiters : pc[a] = "take" =>
       d.idx[head] < d.idx[tail] /\ ~IsNull(d, d.idx[head])

(* The elevator's order: normal requests come before background requests   *)
(* and are sorted by log_addr.                                             *)
NormalSorted ==
  \A p, k \in d.idx[head] .. (d.idx[tail] - 1) :
    LET a == Request(d, p) b == Request(d, k) IN
    p < k /\ b.prio = prio_normal =>
      a.prio = prio_normal /\ a.req.log_addr <= b.req.log_addr

(* $trans fails half-way, keeping lock[3], only in the error state; the    *)
(* search never meets an empty entry.                                      *)
AbortOnlyOnError == \A u \in Users : pc[u] = "stuck" => d.error_state

(* $wait returns success only when all requests submitted before it were   *)
(* processed, although it waits for a single one.                          *)
WaitDrains ==
  [][\A u \in Users : WaitReturn(u) /\ ~d.error_state => waits[u].before \subseteq d.done]_vars

(* Unless an error occurs, every call of a user returns, and once no more  *)
(* calls come (there are at most MAX_CALLS) every request that was         *)
(* submitted is processed, whether or not a user waits for it: by the      *)
(* driver, or without it after it was cancelled.                           *)
CallsReturn ==
  /\ \A u \in Users : pc[u] # "idle" ~> pc[u] = "idle" \/ d.error_state
  /\ []<>(Ids \subseteq d.done \/ d.error_state)
==============================================================================
