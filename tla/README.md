# A verification project for ATHOMUX

ATHOMUX is an experimental operating system architecture.  A system is a
network of *bricks* (`trunk/src/*.ath`, translated to C by `pre.pl`).  A brick
exports *nests* at its outputs: sparse logical address spaces with a small set
of generic operations (`$trans`, `$get`, `$put`, `$create`, `$delete`, `$gadr`,
`$padr`, `$lock`, `$unlock`, `$move`, `$retract`, ...), and uses the nests its
inputs are wired to.  Everything is made of such bricks: memory, locks, pipes,
queues, files, devices, remote calls.  The documentation is `trunk/doc/progr.lyx`.

Concurrency comes from threads that call operations of the same brick
instance, and from the bricks' habit of keeping their state in another nest,
protected by locks taken at yet another one.  This is why the project is
about the lock bricks and about the bricks that use them in the most subtle
way: `pipe`, `queue` and the I/O request queue.

## 1. Inventory

| Part | State | Operations | Interacts with | What makes it hard |
|---|---|---|---|---|
| `lock_ulinux` | list of granted regions, a condition variable per record, free list | `$lock`, `$unlock` | used by `pipe`, `queue`, `io_queue` as `:<ilock`, `:<lock` | waiting on a record that others merge, cut, split and unlink; editing the list while walking it; allocation outside the mutex |
| `lock_mutex` over `lock_native` | sorted list of records without owners, one native lock per record | `$lock` (with optional part), `$unlock`, `$retract` | sits above `lock_native` | an `$unlock` that cannot know whose record it removes; native locks that are reused while sleepers wake |
| `lock_mand` | the same list, with owners; obligatory and optional locks | `$lock`, `$unlock`; sends `$retract` | calls back to the owners of optional locks | own locks melt into the list: records are stretched, split and strengthened while the list is walked; retraction races with requests |
| `lock_cache`, `lock_manager` | list of client locks and of what the manager owns; calls on their way | `$lock`, `$unlock`, `$retract` | caches call the manager, the manager calls `$retract` of the caches | the mutex is free during a call to the manager |
| `lock_protect`, `merge_lock` | none | locking around other operations, wiring | all lock bricks | `$move` locks two ranges and retries |
| `pipe` | ring buffer in a nest: `avail_start`, `avail_len` | `$gadr`, `$create`, `$delete`, `$padr` for a reader and a writer | takes locks at `:<ilock`, data at `:<mem` | waiting built from two locks under two mandates; unlocked reads of the status |
| `queue` | ring of packet descriptors, blocks of `:<mem` | the same | the same, plus allocation of blocks | the same; a block must never be lost, shared or freed too early |
| `strm_multiplex`, stream adaptors | current packet, two channels | the same | `:<istrm`, `:<ilock` | early returns with a lock held |
| `io_queue`, `io_sched_*`, `io_arbiter` | one array of request references in zones (at the driver, schedulable by class), ticket locks, request blocks | `$trans` of the scheduler, `$gadr`, `$create`, `$delete`, `$move`, `$wait`, error state of the queue | applications submit through the scheduler, arbiter threads take from the head and call the driver | positions are rebased and entries moved while arbiters hold positions; three ticket locks that must agree with the queue |
| `remote_client`, `remote_server`, mirror | open calls on a stream | every operation, marshalled | streams, threads | answers out of order, lost connections |
| `thread_ulinux`, `thread_klinux` | start handshake | thread creation | `pthread`, kernel threads | waiting without a predicate |
| `map_*`, `copy_on_write`, `selector`, `adapt_*` | address translation | all, translated | their inputs | index arithmetic |
| `heap`, `helper_idpool`, `buffer_*`, `device_mem_*` | free lists, buffers | allocation, I/O | devices | reuse of buffers |
| `fs_simple`, `dir_simple`, FUSE | directory nests, instantiated bricks | path look-up | `control_simple`, `strategy_*` | instance life times |
| `control_*`, `strategy_*`, `strat.c` | descriptions of bricks and wires | instantiation | everything | string handling, large |
| `pre.pl` | – | compiler | – | – |
| `env/`, `libc`, busybox | – | – | – | third-party |

Correct means, for the parts modelled so far:

* *locks*: two parties never hold conflicting locks on an address; holdings
  change only as callers ask; what a party was granted is in the list; a request
  that sleeps has a reason to; a request nothing blocks any more returns;
  `$unlock` releases the region it names;
* *optional locks* (`lock_mand`): they give way to a request that waits;
* *lock caches*: clients of different caches exclude each other as the clients
  of one lock brick do;
* *pipe and queue*: what the reader gets is what the writer wrote, in order,
  once; the regions of the two users do not meet; no wakeup is lost and the
  two never sleep on each other; blocks belong to one packet;
* *I/O queue*: no request is lost, doubled or processed twice; tickets agree
  with places and requests; `$wait` returns when everything before it is done;
  normal requests are sorted; every call returns.

`PROJECT.json` lists all parts under `components` and, under `hazards`, every
place found so far where something can go wrong that a test would hardly
reach, with the property that watches it or the reason why none does yet.

## 2. Modules

| Module | Models | Remarks |
|---|---|---|
| `LockTypes` | lock types and both conflict tables | constants and operators only |
| `RegionLock` | abstract specification of `$lock`/`$unlock` | what each mandate holds, address by address; leaves open whether a `$lock` with another type adds to the first one or replaces it |
| `LockUlinux` | `lock_ulinux.ath` | implements `RegionLock` |
| `LockUlinuxPool` | `newlock`/`freelock` of `lock_ulinux.ath` | the one part that runs outside the mutex |
| `LockUlinuxProofs` | – | invariants of `LockUlinux`, and that it implements `RegionLock` |
| `LockList` | the search and the insertion in a sorted list of records | the code `lock_mutex` and `lock_mand` share; operators only |
| `LockMutex` | `lock_mutex.ath` on `lock_native.ath` | with its users' bookkeeping |
| `LockMand` | `lock_mand.ath` on `lock_native.ath` | with users that answer `$retract` |
| `LockListLemmas` | – | lemmas about the masks, the search and the insertion, for both |
| `LockMutexProofs`, `LockMandProofs` | – | invariants of `LockMutex` and `LockMand` |
| `LockCache` | `lock_cache.ath` under `lock_manager.ath` | composition: clients, caches, manager |
| `Stream` | abstract specification: bounded FIFO of tagged units | a unit may be put before it is written, and is blank until then |
| `Pipe` | `pipe.ath` | implements `Stream` |
| `Queue` | `queue.ath` | implements `Stream` (units are packets) |
| `RingLemmas` | – | lemmas about positions in a ring and tags of units, for both |
| `PipeProofs`, `QueueProofs` | – | invariants, and that both implement `Stream` |
| `IoQueue` | `io_queue.ath`, `io_sched_elevator.ath`, `io_arbiter.ath` | composition: applications, queue, arbiters, driver |
| `IoQueueProofs` | – | invariants of `IoQueue`; `binary_search` |
| `MCLockUlinux`, `MCLockMutex`, `MCLockMand`, `MCLockCache`, `MCIoQueue` | – | regions, types and requests for TLC |

### LockUlinux

`anchor` is the list, each element a `struct lock` with the set of threads
waiting on its condition variable in place of `queue`.  `new[t]` is the record
(or the `del` of `$unlock`) of thread `t`, `mutex` the process-wide mutex and
`base[t]` the cursor of `lock_sub`.  `CallLock` and `CallUnlock` fill in the
arguments; each run of `lock_add` is one step, because it happens under the
mutex and makes at most one change (`LockRefused`, `LockSleep`, `LockAsked`,
`LockMerge`, `LockInsert`); `lock_sub` is one step per turn of its loop
(`SubSkip`, `SubSplit`, `SubCutEnd`, `SubCutStart`, `SubRemove`), with the
cursor moved exactly as `base = &(*base)->next` moves it.  Condition variables
may wake spuriously.  Bound: no call starts once the list has `MaxRecords`
records.

The 81 entries of the matrix are compared with the rule they stand for by the
assumption `MatrixMeaning` in `MCLockUlinux`; the masks of `lock_mutex` by
`MaskMeaning` in `MCLockMutex`.  The matrix is stricter than the masks: in
`lock_ulinux` an address write lock excludes a pure data lock too.  These two
assumptions are the only check of the tables: code and properties read the same
table, so no property would see a wrong entry.

What `$lock` does to a region its mandate holds with another type is disputed:
`progr.lyx:1093-1110` calls it an up- or downgrade, the brick adds a second
record and keeps the first (until `$unlock`).  `RegionLock` (`Grant`) and
`HoldingsAsAsked` accept both: such a call may give up the caller's other types
in its region and nothing else.  So neither a brick that accumulates nor one
that replaces is refuted, and a step that loses a lock anywhere else is.

### LockUlinuxPool

The free list with its pointers.  `newlock()` is two accesses to `emptylist`,
not protected; all else is under the mutex.

### LockMutex

`list` is the list sorted by start address.  `$lock` is one step; `$unlock`
takes one step per turn of its loop, in which up to two leftovers are inserted
(each with the lowest free native lock, as `lock_native` allocates them) and
the original is removed.  When no native lock is free, `add_lock_rec` returns
without linking its record and its caller goes on.  `held[t]` is what the user
of thread `t` believes to hold; users unlock what they locked, whole or in two
parts.  The wait is that of the ulinux build (`pthread_cond_wait`).  Bounds: no
call starts with `MAX_LOCK_RECORDS` records in the list; `N_NATIVE_LOCKS` is
the code's 128, made so large that it is never reached, or so small that it is.

### LockMand

The list again, its records with an owner, an obligation and the set of
mandates that sleep on them.  A call runs under the native mutex until it sleeps
or returns, but its loops edit the list they walk; so `frame` holds the local
variables of the one call that has the mutex (the parts of the request still to
be melted in, the records `lock` and `prev` point to), and each turn of a loop
is a step.  `$lock` searches for a conflict with the obligatory part and waits
or refuses (`LockWait`, `LockNothing`), cuts the optional part at the conflicts
it meets (`CutTo`) and melts up to three parts into the list (`MeltBegin`,
`MeltTurn`, `MeltEnd`).  A waiter first sends `$retract` for what is in its way
of an optional lock; the calls on their way are the set `retracts`, and each
user answers by unlocking the region once nothing in it is obligatory, also while
its own `$lock` sleeps.  That is an assumption about the users (`HoldsObligatory`)
and no code of the brick; `lock_cache`, the one such user in the repository,
waits for any call or record of its clients in the region before it answers.  `held` is what each user was
granted and has not unlocked, address by address.  `broken` is a history
variable: it becomes true when the list is out of order for the first time.

### LockCache

The clients of two caches of one manager and one region (requests for different
regions share only the mutex of a cache).  `mgr[c]` says that the cache's list
has the record, under the cache's own mandate, of what the manager owns;
`hold` are the clients' records; `ops[c]` is the list of calls to the manager on
their way, each with the native lock others sleep on.  `mutex[c]` is kept
between the actions of a process where the code keeps it, and free where the
code waits or calls the manager.  The manager is `lock_manager`, a `lock_cache`
that owns everything: `owner` is its record of the region.

### Pipe and Queue

`avail_start`/`avail_len` are the status; `mod` and `wait1` are the locks at
`:<ilock` (exclusive locks on three addresses, so sets of holders suffice).
A critical section is one step, with two exceptions that other threads can
see: `$delete` moves the border in two assignments (`DeleteStart`,
`DeleteLen`), and the address check of `$create` reads the two without a lock
(`CreateRead`, then `CreateChecked` or `CreateRefused`).  Waiting takes the wait
place under `LOCK_MAND_WAIT1` before `LOCK_ADDR_MOD` is released (`GadrWait`,
`GadrRelease`), blocks on the same place under `LOCK_MAND_WAIT2` and goes on
when the other side's `$padr` has released the first lock (`GadrWoken`).

Memory holds tags: the *n*-th unit written carries `n % Tags`, and `Tags` is
twice the capacity, so that a unit that is lost, repeated, overwritten or stale
is visible as a wrong tag.  In `Queue` a unit is a packet,
and the nest `:<mem` is the set of its allocated blocks; a refused `$create`
leaves its block allocated, as in the code, and the supply may run out
(`GadrNoBlock`).

The users follow the order the bricks demand: `$gadr`, then `$create` or
`$delete`, then `$padr`; one thread on each side.  The data go to `:<mem` by
operations of their own (`$op`), and nothing in the bricks orders them with
`$create`.  So `Write`, one unit at a time (a packet in `Queue`), is possible
from `$gadr` to `$padr`: before `$create`, after it, or partly each; `$padr`
comes when all is written.  All writers in the repository use `$gadrcreate`
(`lib.c:307-331`, `demo_pipe2.ath:65-73`, `remote_common.inc:36`) and write
after `$create`, when the reader can already have the units, read them, `$delete`
them and, in `queue`, free their block.  `written` counts what is written;
`Late` (`Unwritten` in `Queue`) are the units created and not yet written.

`Stream` has this window in its interface: units may be put blank, are then
written in order, and may be taken blank.  `ReaderSeesStream` exempts the `Late`
units and no others: all else the reader has, at any time until its `$delete`, are
the next units of the stream.  The unconditional form, that the reader never has
an unwritten unit, is what `progr.lyx:1783` promises (`$putpadr` makes the data
available) and does not hold of the code.

### IoQueue

`d` is the data of the queue instance: the array, the indices of its zones, the
free list of request blocks, the counters of the ticket locks, the error state.
A position only grows (it counts requests, the code 64 bytes per request);
`make_valid` moves the used cells down and adjusts `offset` when the end of the
array is reached.  `holder` owns `lock[3]`, which a submitter keeps from
`queue(:1:)$lock` to `queue(:1:)$unlock`; its search is done when it gets the
lock, and the calls in between are one action (`TransMerge`, `TransSubmit`,
`TransAbort`).  The waits for tickets are actions of their own: a submitter reads
the next ticket without the lock, and takes another one if it was overtaken
(`LockWoken`, `LockRetry`, `LockEnter`).  Arbiters draw a ticket, take the
first request, fetch it, call the driver, which succeeds or fails, and delete
the request (`GadrTicket` … `Delete`); a failure breaks all locks.  `$wait` and
cancelling by address are calls of users too.  The locks at `:<lock[]` and the
driver are external.  Bounds: `MAX_CALLS` calls in all, and an array of
`IOQUEUE_MAX_REQUESTS + IOQUEUE_ADD_REQUESTS` cells.

## 3. Runs

| Run | Shows | Bounds | Distinct states |
|---|---|---|---|
| `ulinux` | exclusion, no lost wakeup, no empty record, holdings change as asked, refinement of `RegionLock`, a waiter nothing blocks returns | 2 threads, 2 mandates, 2 types, addresses 0–2, 3 records at the start of a call | 332 816 |
| `ulinux_unlock` (violation) | `$unlock` can leave part of its region locked | as `ulinux` | |
| `ulinux_pool` (violation) | overlapping `newlock()` calls share a record | 2 threads, 2 records | |
| `pipe` | data, regions, refinement of `Stream`, waiting, liveness; a correct `$create` is refused only while `$delete` updates the status | 4 units, lengths 1, 2, 4 | 83 124 |
| `queue` | packets and their blocks, refinement of `Stream`, liveness | 2 entries, 3 blocks, packets of length 2, `@try_len` 0 and 1 | 797 004 |
| `mutex` | sorted list, exclusion among users, books balance, no lost wakeup, liveness | 3 threads, read and write, 2 records at the start of a call, 14 native locks | 182 647 |
| `mutex_full` (violation) | with all native locks in use, `$lock` succeeds without locking | 2 threads, 1 native lock | |
| `mand` | what was granted is in the list, exclusion as long as the list is sorted, own records disjoint, `$unlock` complete, no lost wakeup, optional locks give way | 2 mandates, read and write, three requests (plain, with an option below, purely optional), 2 records at the start of a call | 217 976 |
| `mand_excl` (violation) | the list gets out of order, and then conflicting locks are granted | 2 mandates, plain requests, 3 records | |
| `cache` (violation) | clients of two caches get conflicting locks | 2 caches with one client and one `$retract` thread each | |
| `ioqueue` | no request lost or doubled, tickets match the queue, order, `$wait` drains, every call returns and every request is processed | 2 users, 1 arbiter, 4 calls, 3 + 1 cells | 331 766 |
| `ioqueue_arbiters` (violation) | with two arbiters a submitter can meet an empty entry and end the program | 1 user, 2 arbiters, 3 calls, 4 + 1 cells | |

*Why the bounds are enough.*  For `lock_ulinux`: addresses 0 to 2 are enough
for a region strictly inside, at either end of, equal to, touching and apart
from another one; three records are enough for a removal to skip a record that
has neighbours on both sides, and a call that starts with two may end with
four.  Two waiters on one record occur in the proofs only (the theorems hold
for any number of threads).
For the pipe: four units and lengths up to four include the wrap-around, a
request for all of the buffer, and one that does not fit its rest.  For the
queue: two entries with three blocks include the full queue, one entry too many
if the code allowed it, a block leaked by a refused `$create` and the exhaustion
of the nest.  The length of a packet is only passed on and compared: the code
refuses a packet whose length is not the one asked for when `@try_len` is set, so
one length with `@try_len` 0 and 1 has both outcomes.  For `lock_mutex`: three users are the smallest number with which a
third can profit from a lock the second removed by mistake, or get the native
lock the first still sleeps on.  For `lock_mand`: the requests make a call melt
in up to two parts, cut its option, meet own records it must split, strengthen
or stretch, and ask for optional locks back; `$unlock` takes a record, or cuts it
above or below; two records at the start of a call
become up to four in it.  For the I/O queue: four cells for three requests make
the array move its contents, the third request fills the queue, four calls let
a submitter be overtaken, and the requests meet an equal one, one with the same
address, and the same one with another priority.

The requests of `ioqueue` are of normal and background priority.  An urgent one
goes through the wrong index (see below) and loses requests at once; the run is
about the rest of the queue.

*Fairness.*  Weak fairness of each thread's steps inside a brick (`lock_add`,
`lock_sub`, `gadr`, `padr`, ...): the code loses control there only to a mutex
or a condition variable, and the scheduler runs a thread that can go on.  No
fairness of new calls; users of pipe and queue finish what they began, which
the description of `pipe` demands of them.  No fairness of mutex acquisition
against a stream of other callers (weak, not strong, fairness): the liveness
properties of the locks therefore speak of a time when the others have come to
rest, and those of pipe and queue of a side that has what it waits for, which
the other side cannot take away again.  Two runs assume more.  In `mand`, the
thread that answers a `$retract` is treated with strong fairness: it needs the
mutex only for a moment, and `OptionalGivesWay` is about the protocol, not about
a mutex that starves one thread.  In `ioqueue`, the driver returns (with success or failure), and
`CallsReturn` (each call of a user returns, and no submitted request stays in the
queue for ever, whether or not somebody waits for it) excuses what follows a
failure: the error state breaks all locks, and a `$trans` in progress may then
return with the queue locked.

*Deadlock* is checked for `pipe` and `queue`.  The lock bricks may
stop: a request may wait for a lock that its holder never releases, so it is not
checked there, and the properties about sleepers take its place.  The I/O queue
comes to rest when its calls are used up.

### Findings

Each has its counterexample run, and is quoted against the text it contradicts
in `PROJECT.json`:

1. `ulinux_unlock`: `lock_sub` skips the record behind one it removes.
2. `ulinux_pool`: `$lock` calls `newlock()` outside the mutex.
3. `mutex_full`: `add_lock_rec` fails without its callers noticing when the 128
   native locks are in use; there are 1024 records.
4. `mand_excl`: `melt_lock_into_list` stretches a record downwards where it
   stands in the list; the list is no longer sorted, and searches that rely on
   the order miss a conflict.
5. `ioqueue_arbiters`: the priorities start at `prio_none`, so the elevator's
   search for urgent requests runs in the zone of requests at the driver, where
   entries can be empty.
6. `cache`: a client gets a region back from the manager between the cache's
   own lock on it and the `$unlock` that answers a `$retract`.

### Seen while modelling, not checked by a run

* `pipe` and `queue` publish a region at `$create`; `progr.lyx:1783` says at
  `$putpadr`.  With `$gadrcreate`, which all writers use, the reader may see and
  free units not yet written.  The properties exempt exactly these units
  (`Late`, `Unwritten`, `Blank`); the theorems say that nothing worse happens.
* `$create` of `pipe` and `queue` reads a half-updated status and can refuse a
  correct call; `RefusedOnlyDuringDelete` bounds when.
* `lock_ulinux`: a `$lock` with another type on a held region adds a second
  record where `progr.lyx:1093-1110` speaks of an up- or downgrade.  The
  properties exempt the types concerned; no run asserts either reading.
* `lock_mutex`: `$unlock` does not tell data locks from address locks
  (`lock_mutex.ath:452`, against line 20).
* `lock_native` for klinux: `up()` and `sleep_on()` leave a window for a lost
  wakeup (`lock_native.ath:118`).
* `lock_mand`: the optional parts are melted in with the bounds asked for, not
  with those they were cut to; a split strengthens all of the record above the
  start of the request; `is_weaker_or_equal` compares an address type with a
  data type (line 159).  The model has all three, and the properties hold with
  them.
* `io_sched_elevator`: `next[3]` is written for an array of three on every
  `$trans` (line 184); the insertion of an urgent request sets the index of the
  tail; a request equal to one already at the driver counts as merged and is
  dropped; background requests are neither sorted nor merged reliably, against
  the brick's description; a raised priority changes the request but not its
  place; `prio_none` leaves a variable unset.  An error between `$lock` and
  `$gadr` makes `$trans` return with the queue locked.
* `io_queue` with several arbiters: `$wait` can return while an older request is
  still at the driver.  `io_sched_none` submits without the queue's lock.
* `strm_multiplex.ath:105` returns with `LOCK_ADDR_MOD` held;
  `thread_ulinux.ath:180` waits without a predicate, and for ever if
  `pthread_create` fails; `$move` of `lock_protect` starts over without bound.

## 4. Proofs

The theorems hold for every value of the constants.  What they assume of them
is stated where the constants are declared, and TLC evaluates it in the runs:

| Module | Assumption |
|---|---|
| `LockUlinux` | `UlinuxAssumption`: types are packed types, regions have natural bounds, those of `$unlock` are not inverted |
| `Pipe` | `PipeAssumption`: the buffer has at least one unit, the lengths asked for are positive |
| `Queue` | `QueueAssumption`: at least one entry, the lengths asked for are positive, `NoBlock` is no block |
| `LockMutex` | `MutexAssumption`: types are packed types, regions have natural bounds and are not inverted, the number of native locks is a number (possibly 0); `NoDesc`: `None` is no region |
| `LockMand` | `MandAssumption`: types are packed types and lock something, the optional part of a request contains the obligatory one and is not empty; `NoFrame`: `None` is no frame |
| `IoQueue` | `IoQueueAssumption`: room for at least two requests, natural addresses, known priorities, a user is no arbiter |

Some theorems need more, which they name as hypotheses:

| Hypothesis | Says | Why |
|---|---|---|
| `Plain` (`LockMutexProofs`) | two types that do not conflict are the same, as with read and write locks of one dimension | `$unlock` does not tell types apart; with data and address locks mixed it can take out the record of another user with the same region (TLC finds this with the types `(read, none)`, `(none, read)` and `(none, write)`) |
| `[]NativesSuffice` (`LockMutexProofs`) | two native locks are free | without them `add_lock_rec` loses a record: run `mutex_full`.  In `mutex` it holds in every state |
| `NoUrgent` (`IoQueueProofs`) | no request is submitted at `prio_urgent` | such a request is counted at the wrong index and others are lost (below, *Seen while modelling*) |
| `OneArbiter` (`IoQueueProofs`) | there is one arbiter | with two the last two properties do not hold: run `ioqueue_arbiters` |

| Theorem | States | About |
|---|---|---|
| `LockUlinuxProofs` `TypeCorrect` | `[]TypeOK` | |
| `MutualExclusion` | `[]NoConflict` | no conflicting locks of two mandates |
| `NoLostWakeup` | `[]SleepersHaveReason` | a sleeper's record is there and in its way |
| `NoEmptyRecord` | `[]RecordsNonEmpty` | |
| `RefinesRegionLock` | `ImplementsRegionLock` | every step is a step of `RegionLock` or changes no holding; a `$lock` may or may not keep the caller's other types in its region |
| `ChangesAsAsked` | `HoldingsAsAsked` | only the caller's holdings change, in its region, as asked; a `$lock` loses at most other types there |
| `PipeProofs` `TypeCorrect` | `[]TypeOK` | |
| `RegionsApart` | `[]RegionsSafe` | reader and writer work on disjoint regions |
| `ReaderCorrect` | `[]ReaderSeesStream` | the reader's units are the next ones of the stream, or still to be written |
| `NoLostWakeup`, `NoDeadlyEmbrace` | `[]SleepersHaveReason`, `[]NeverBothAsleep` | the waiting built from two locks |
| `RefusalExplained` | `RefusedOnlyDuringDelete` | when the unlocked check errs |
| `ImplementsFIFO` | `ImplementsStream` | the pipe is a bounded FIFO whose last units may still be blank |
| `QueueProofs` `TypeCorrect`, `ReaderCorrect`, `ImplementsFIFO` | as for `Pipe` | |
| `NoLostWakeup` | a sleeper's wait lock is held by somebody | |
| `PacketsApart` | `[]PacketsOwnBlocks` | no block lost to two packets |
| `LockMutexProofs` `TypeCorrect` | `[]TypeOK` | |
| `InOrder` | `[]ListSorted` | also when the native locks run out |
| `NoLostWakeup` | `[]SleepersHaveReason` | |
| `Exclusion` | `[]HoldersExcluded` | exclusion among users; if `Plain` and `[]NativesSuffice` |
| `Backing` | `[]HoldingsBacked` | one record per holder and address; if `Plain` and `[]NativesSuffice` |
| `LockMandProofs` `TypeCorrect` | `[]TypeOK` | |
| `HoldingsInList` | `[]HoldingsBacked` | nothing granted is lost by rebuilding the list |
| `Exclusion` | `[]ExclusionWhileSorted` | exclusion, as long as the list was in order |
| `OwnRecordsApart` | `[]OwnDisjoint` | a mandate's records do not overlap, as long as the list was in order |
| `UnlockReleasesAll` | `[]UnlockComplete` | `$unlock` is complete, as long as the list was in order |
| `NoLostWakeup` | `[]SleepersHaveReason` | |
| `IoQueueProofs` `TypeCorrect` | `[]TypeOK` | if `NoUrgent`, as all below |
| `NoRequestLost` | `[]RequestsAccounted` | requests and blocks are neither lost nor doubled, with any number of arbiters |
| `TicketsAgree` | `[]TicketsMatchQueue` | the ticket locks agree with the queue, with any number of arbiters |
| `QueueSorted` | `[]NormalSorted` | `binary_search` finds the right place, with any number of arbiters |
| `NoFalseAbort` | `[]AbortOnlyOnError` | `$trans` gives up half-way only after an error; if `OneArbiter` |
| `WaitReturnsDrained` | `WaitDrains` | `$wait` returns when all before it is done; if `OneArbiter` |

Every proof of an invariant has the same frame: an inductive invariant `IInv`,
one lemma or step per action, and under it one per conjunct the action can
disturb.

*`LockUlinux`.*  `IInv` is the conjunction of the four properties with
`CallsOK` (a thread inside the brick has a well-formed request, and one in
`add` or `sleep` a non-empty region and a type in use) and `QueuesOK` (a thread
in the queue of a record is asleep, and in no other queue).  The first is needed
because the list is only as good as what enters it, the second because a
broadcast must send exactly its own waiters on.  Exclusion: steps of `lock_sub`
only take parts of records away (`DerivedPreserves`); an insertion or a merge is
preceded by a scan that found no conflict with the request (`ScanCompatible`),
and a merged record is the union of one that was compatible and the request,
both of the same type and mandate.  The matrix is symmetric (`ConflSymmetric`),
which is needed because `lock_add` looks a pair up in one order only.  Wakeups:
a step keeps the record a thread sleeps on as it is, or moves it in the list, or
wakes its whole queue (`KeptPreserves`, `QueuesMoved`).  Refinement: the holdings
of `RegionLock` are those of the records; one lemma per edit says how they
change, address by address.

*`Pipe` and `Queue`.*  The invariant ties the status to the cursors of the two
sides: which of them has taken a region and not yet published or freed it, what
of the ring is data, how much of the writer's region is written, before `$create`
or after it, and which tag each cell carries, but for the unwritten ones.  Those
are the last units before the writer's border and all in its region, so a
`Write` after `$create` turns the first blank of `Stream` into the unit due there,
or, when the reader has freed it already, changes nothing the stream can see.
The difficult part is that `$delete` updates the status in two assignments and `$create` reads it
without a lock: the invariant says in which of these states each of the two may
be.  Waiting: a lock on the wait place under `LOCK_MAND_WAIT1` means that
somebody is about to sleep or sleeps, and the other side has then not yet passed
the `$padr` that releases it.  The refinement maps the status and the memory to
the sequence of units, and the tags of `Stream` to the counts of units modulo
`Tags`; `RingLemmas` has the modular arithmetic.

*`LockMutex`.*  `IInv` adds what a call's arguments are (`CallsOK`), that no two
records share a native lock (`NativesApart`), and the record each sleeper sleeps
on (`SleepersOK`).  That the search would find that record, which
`SleepersHaveReason` says, then follows from the order of the list.

Exclusion has an invariant of its own, `EInv`, on top of `IInv`.  Records have no
owner, so it counts: on each address lie as many records as there are threads
that hold it or are giving it back (`CountOK`), they do not conflict, and are of
the type of whoever holds the address (`ShareOK`).  A running `$unlock` has left
no record in the part of its region it has passed (`CursorOK`).  A grant adds a
record and an owner where the search met no conflict, and by `Plain` there are
only records of its own type.  A turn of `$unlock` finds a record on the first
address of what is left of its region, because there is an owner and so a
record, at the cursor or behind it; the record it meets
first starts no later, because the list is sorted.  It takes one record from each address down to
where that record ends and shrinks the region by the same addresses, and what
the record had beside the region is put back (`TurnOn`).  `$unlock` ends only
when its region is used up: otherwise there would be one more owner than records.

*`LockMand`.*  The hardest one: a `$lock` that melts its request in changes the
list in many steps before its user is told what it holds.  `IInv` says of a call
in the middle that each address of its request is in the list, as strong as
asked for, or in a part still to do (`MeltOK`); that `prev_lock` ends where that
part begins and is as strong (`FrameOK`), which is why stretching it loses
nothing; that the region to be reported is free of conflicting holders
(`GrantOK`), which holds because `CutTo` stops at each conflicting record and
holdings are backed by records; that what `$unlock` is taking out is no longer
held (`UnheldOK`), and that it has left no own record behind in its region
(`UnlockOK`).  The edits are chains of four basic ones, and two relations that
can be chained carry the argument: `Edited` (sleepers of records taken out are
sent on, the others sleep on the same record, which may have grown) and
`CoverKept` (what was covered is covered as strongly, but for what is being
unlocked).

`OwnDisjoint` looks at the list between calls, so its invariant `DInv`, on top of
`IInv`, says while the list is in order that the records of a mandate are apart
in the middle of a call too (`ApartOK`), that the own records in the way of the
part being melted in stand at `lock` or behind it (`GapOK`), and that no region
to be unlocked is empty or inverted (`RangesOK`).  `GapOK` is why the space
`MeltTurn` fills is free of own records: `prev_lock` ends where the part begins,
so in a list in order whatever is in the part's way comes after it.  `RangesOK`
is why the two leftovers of a record `$unlock` cuts do not overlap.

*`IoQueue`.*  `IInv` has the data: the zones of the array lie in it and in order
(`ZonesOK`); every block is in the free list or in the queue, once (`BlocksOK`);
every request not yet done is in the queue, once (`RequestsOK`); the counters are
the indices (`CountersOK`); the schedulable zone is sorted (`OrderOK`).  Three parts
are about the threads.  A submitter uses its search after it made it, while
arbiters take requests: `SearchOK` says what the search is still good for, and it
stays so because whoever moves entries or inserts needs `lock[3]`.  `RoomOK`: the
writer let in finds a free block and a free cell, because its ticket counts the
blocks given back.  `TicketsOK`: the tickets of the arbiters that are used up are as
many as `head`, so an arbiter with one of the others below `tail` finds a request
at `head`.  `binary_search` is a recursive function on the state of its loop; that
it exists is a lemma (`LoopFunction`), and what it returns is proved by taking the
least counterexample in what is left to search (`LeastNumber`, `SearchEnds`,
`SearchSorted`), which needs no induction theorem.  For one arbiter, `SInv` adds
that the requests at the driver are deleted in turn, so the zone has no empty
entry (`InLine`), and that what a `$wait` waits for stands behind all requests that
were there before (`WaitsOK`).

*What the proofs found in the model.*  `LockMand` used `CASE` with guards that
overlap, which TLC evaluates in order and TLA+ leaves open; they are
`IF`/`ELSE` now, as in the code.  The cut of the optional part was a fold that
followed the code's loop; it is now stated by what it results in (the largest
end of the conflicting records below, the start of the first one above), and TLC
compared the two on 4.8 million states before the fold was dropped.
`remove_lock_rec` in `LockMutex` finds its record by its native lock, which
`NativesApart` shows to be unambiguous.  In `IoQueue`, `binary_search` is a function
of one record with the loop's variables, and `Submitted` writes its fields out;
`TypeOK` says what the data are, field by field.

*Only model-checked:*

* Liveness everywhere (`WaiterServed`, `OptionalGivesWay`, `CallsReturn`):
  fairness and `ENABLED` are outside the prover's reach.
* `LockCache` and `LockUlinuxPool` have only the violation they show.

## 5. Not modelled

* `lock_ulinux`: `@try_addr`/`@try_len`, which the brick copies from the
  obligatory part.
* `lock_mutex`/`lock_native`/`lock_mand`: the end of the 1024 records, which is
  `@.fatal`; overflow of addresses; the kernel's wait.  `LockMand` takes the
  native locks to suffice; its `@.check`s then return as those of `lock_mutex` do.
* `lock_cache`: optional parts and address locks, several regions (its list is
  the one of `lock_mand`), the meta and statistics nests, the strategy that
  places caches.
* `pipe`/`queue`: creation, destruction and flushing of the status nest;
  failures of `:<ilock` (the code has FIXMEs in their place); several readers
  or writers, which the bricks exclude.
* `io_queue`: `io_sched_none`; the shutdown of an arbiter (`$output_init` with
  `destr`); `linear_search`, which is not used; `ioqueue_current_addr`, which is
  written and never read; overflow of tickets and positions.
* All components with status `not_modelled` in `PROJECT.json`, each with its
  reason.  Most of the repository's lines are third-party code (kernel headers,
  uClibc, busybox).

## 6. Plan

1. `LockProtect` above `RegionLock` (`$move`); `StrmMultiplex` above `Stream`;
   the start handshake of `thread_ulinux`.
2. Remote calls above two streams: answers out of order, lost connections.
3. `heap`, `helper_idpool`, `map_delta`, `copy_on_write`: algorithms against a
   reference definition.
4. Proofs: that a bound on threads and addresses, against the number of native
   locks, implies `NativesSuffice` of `LockMutex`.
