# A TLA+ verification project for code_c

`code_c` is a collection of C and C++ experiments, each in a dated directory.
Most of them show one library call. A few are small concurrent systems with an
algorithm of their own: a lock-free ring in shared memory, a bounded blocking
queue, a thread pool, several generations of a publish/subscribe library with its
service discovery, and an HTTP server on an event loop; a directory of exercises
holds pure algorithms.
This project models those systems, checks them with TLC on small instances and
proves the safety properties of all but the exercises with TLAPS.

Contents: 1 inventory, 2 plan, 3 the modules, 4 the runs, 5 the theorems,
6 disagreements between code and its documentation, 7 what is not modelled.

## 1. Inventory

### The shared-memory ring (`c/20181104_dilu_spmc_atomic/spmc10.c`, `spmc_test.c`)

*State*: the segment `spmc_t` (capacity, buf_size, size, write_pos, read_pos,
one count `nconsumers[i]` per block, the blocks), in System V shared memory that
outlives its processes. *Operations*: `spmc_init`, `producer_alloc`,
`producer_alloc_end`, `consumer_alloc`, `consumer_alloc_end`; the loops
`produce` and `consume` of the test use them. *Interaction*: shared memory only,
one producer process and any number of consumer processes. *Hard*: every access
interleaves with every other; `read_pos` is stale when the count is loaded and
the count is stale when it is exchanged; the count is released before the
position is published; consumers leave without releasing their last block; the
segment keeps the leftovers of the previous run; nothing orders `spmc_init` before
the first consumer, whose count it may reset. *Correct when*: producer and
consumers never own the same block, the counts are exact, a message does not
change while it is read and is no older than what was published, and both sides
finish; the first three only where the reset finds nobody.

### The bounded blocking queue (`util/bounded_blocking_queue.h`, `.hpp`)

*State*: a ring with `in`, `out`, `closed`, a mutex, two condition variables.
*Operations*: `queue_init`, `queue_put`, `queue_get`, `queue_close`.
*Hard*: single signals with several sleepers, a broadcast outside of the mutex,
one spare cell that tells full from empty. *Correct when*: it is a bounded FIFO
queue, no wake-up is lost, close gets everybody out.

### The thread pool (`util/threadpool.c`)

*State*: a ring of tasks, `count`, `shutdown`, `started`, the threads, a mutex
and a condition variable. *Operations*: `threadpool_create`, `threadpool_add`,
`threadpool_destroy`, `threadpool_free`, and the loop `threadpool_thread`.
*Hard*: creation that fails half way, shutdown racing adds and tasks, two calls
of destroy. *Correct when*: accepted tasks run exactly once and begin in
the order in which they were accepted (unless shutdown is immediate), no worker sleeps
while a task waits for a busy one, the pool is released once nobody uses it, destroy
returns.

### Shared-memory publish/subscribe (`c++/20230108-pubsub-shm-udp-3`)

`shm.hpp` keeps a segment per topic: class `State` with a lock word per block and
the position of the newest message, and the blocks behind it. `message.hpp` has
`MessagePublisher` (creates the segment, writes, sends a one-byte datagram `r` to
each subscriber) and `MessageSubscriber` (answers each `r` by reading the newest
block in its libuv loop). `service_discover.hpp` introduces them over multicast.
`message_bench.cc` is a ping-pong between two threads on two topics.
*Hard*: three-step read locking against the writer; lost and late datagrams;
processes that stop (and unlink the name) or crash holding a block; a publisher
that constructs `State` again over a segment in use. *Correct when*: a block is
not read while it is written, a subscriber never reads something older than what
was published when it looked, an answered datagram means its message was seen,
and the benchmark ends with every lock given back.

### In-process publish/subscribe (`c++/20221206-pubsub/message.hpp`)

*State*: a static map from topic to delegate (reference counted), the delegate's
set of raw subscriber pointers, and per subscriber a worker thread, `stop_`, and
a buffer for the newest message. *Operations*: `GetOrNew`, `Publish`, `Stop` of
publisher and of subscriber, constructors and destructors, the worker.
*Hard*: notifications after the unlock, waiting without a predicate, destructors
that depend on what others have set, erasing from the map what owns the mutex
being held, inserting into the set under another mutex than the one it is read and
erased under. *Correct when*: no worker sleeps on work, told-to-stop workers end,
messages arrive or are replaced by newer ones, no dead subscriber is reachable.

### Service discovery (`c++/20230108-pubsub-shm-udp-3/service_discover.hpp`)

*State*: per object two sockets, one of them a member of a multicast group, and
callbacks by topic; the publisher's vector `subs_` of subscriber addresses.
*Operations*: `Send`, `Recv`, `Stop`, the callbacks that `MessagePublisher` and
`MessageSubscriber` register. *Hard*: constructors in different processes cross,
announcements are sent once and may be lost, entries are pushed without looking and
never removed. *Correct when*: whoever is up at the same time meets, however they
came up, and the number of entries stays in proportion to what was started.

### The HTTP server (`c/20171011_ae_httpd`)

*State*: per thread an event loop (table of file events by descriptor, `maxfd`, the
batch `epoll_wait` reported, the epoll set) and, shared by the threads, the
process's descriptors and a listening socket each; per connection a buffer with its
fill. *Operations*: `aeCreateFileEvent`, `aeDeleteFileEvent`, `aeProcessEvents`, the
handlers `socket_accept`, `socket_readable`, `socket_writeable`. *Hard*: events of a
batch that are stale when they are dispatched, descriptors closed in one thread and
reused in another, descriptors past the table, requests that arrive in pieces or
together, a full buffer, clients that leave before they are answered. *Correct
when*: table, epoll set and connections agree, nobody is dropped without cause, and
complete requests are answered.

### The exercises (`c++/leetcode`)

Functions, one of them with state that outlives a call. *Hard*: unsigned arithmetic below zero,
searches that cut off and go back. *Correct when*: they return what the problem
asks for, and they return.

### The rest

The libuv variants of publish/subscribe, the other versions of the ring, the
component scheduler and the small utilities: see section 7. `PROJECT.json` lists
every component, and under `hazards` each place where the code is hard to test.

## 2. Plan

Done, in this order:

1. `LockedBlocks` (abstract) and `SpmcRing`, with `SpmcRingProofs`;
2. `BoundedFifo` (abstract) and `BlockingQueue`, with `BlockingQueueProofs`;
3. `ThreadPool`, which also implements `BoundedFifo`, with `ThreadPoolProofs`;
4. `ShmBlock`, used by both `ShmPubSub` and `ShmPingPong`, with `ShmPubSubProofs` and
   `ShmPingPongProofs`;
5. `Mailboxes` (abstract) and `MessageDelegate`, with `MessageDelegateProofs`;
6. `HttpServer`, the ae loop and the server on it, with `HttpServerProofs`;
7. `ServiceDiscover`, with `ServiceDiscoverProofs`;
8. `StringExercises`, `NumberExercises` and `Exercises`.

Every safety property that a run checks of these systems is also a theorem, the four
refinements included, except for the exercises. What is not proved is liveness, and
what the recursive functions of the exercises compute; section 5 says why.

Next, models, if the development goes on: the libuv variant with `uv_async_send`,
whose notifications coalesce, as a sibling of `MessageDelegate`; the component
timers once more than one is used.

## 3. The modules

Conventions. Names are those of the code. A thread's program counter is a
variable (`pc`, `ppc`, `cpc`, `wpc`, `dpc`, ...); an action is one access to
shared memory in the lock-free models and one critical section in the models with
a mutex. `pthread_cond_wait` is two actions: falling asleep with the mutex
released, and going on (as *woken*) when the mutex is free again; spurious
wake-ups are an action. An operator marked *mutant* right before a definition is
a wrong form of that definition with which the runs are tested (`PROJECT.json`,
`mutants`); no specification uses it.

### `LockedBlocks`, `SpmcRing`, `SpmcRingProofs`, `MCSpmcRing`

`LockedBlocks` is what a user of a block pool may rely on: a set of blocks being
written, the blocks each reader reads, and `BeginWrite`, `Write`, `EndWrite`,
`BeginRead`, `EndRead`, where nobody writes what somebody reads, but for the blocks
that have lost their lock while they were read (`LoseLock`).

`SpmcRing` has the fields of `spmc_t`, the locals of the producer (`ppc`, `next`,
`slot`) and of each consumer (`cpc`, `pos`, `seen`, `value`, `last`), and three
history variables: `written` (blocks written since the reset), `floor` (newest
value published when a consumer loaded `read_pos`) and `forgot` (the consumers that
held a block when `spmc_init` reset its count). A block's content is the
integer at its start; `consume` then compares bytes of the block, `value % 256`.
Init is a segment of zeros or what an earlier run left (including leaked counts).

| code | actions |
|---|---|
| `spmc_init` | `InitHeader`, `InitCount` (one per block) |
| `producer_alloc` | `AllocFree`, `AllocBusy` (one compare-exchange each) |
| `produce` | `ProduceWrite` |
| `producer_alloc_end` | `AllocEndUnlock`, `AllocEndPublish` |
| `consumer_alloc` | `LoadPos`, `LoadCount`, `CasCount` |
| `consume` | `ConsumeRead`, `ConsumeCompare` |
| `consumer_alloc_end` | `AllocEnd` |

Sequential consistency is assumed for these accesses: the file is built with
`gcc -g` for x86-64, where locked read-modify-writes and stores are in order.
`spmc_test.c` forks, and nothing orders the two sides: a consumer attaches at any
moment, before or during `spmc_init` too, to a segment of zeros (where its release
divides by a `buf_size` of 0: state `"trap"`) or to one left over. The reset of
`nconsumers` then forgets it. From there on the code breaks its own rules at that
block, and the properties say how far: its count is too low by at most the forgotten
readers, a release may find it below zero (state `"error"`), and the producer may
write it under at most that many readers. At a block whose reset found nobody,
everything is exact.

### `BoundedFifo`, `BlockingQueue`, `BlockingQueueProofs`, `MCBlockingQueue`

`BoundedFifo` is a sequence of at most `MaxElems` items, `Put`, `Get`, `Close`; the
thread pool implements it too.
`BlockingQueue` has `out`, `in`, `closed`, `data` of `queue_t` and for each thread
whether it is ready, waiting, woken or at its end. A putter puts `PutsEach`
different items; a getter gets until `queue_get` returns `NULL`. `queue_close` is
`CloseSet` (under the mutex) and two steps of `Broadcast` after it. `Cells` is the
number of allocated cells: `MaxElems + 1` in C, `MaxElems` in the C++ class.

### `ThreadPool`, `ThreadPoolProofs`, `MCThreadPool`

The fields of `threadpool_t`, `wpc` and `work` of each worker, `dpc` and `joined`
of each caller of `threadpool_destroy`, and `status` of each task. The mutex is a
variable of two values because one path of `threadpool_destroy` returns without
unlocking it: `DestroyAgain` sets it to `"held"`, for ever. `CreateThread` and
`CreateFails` are rounds of the loop in `threadpool_create`; on failure the
creator itself goes through `threadpool_destroy`. `DestroyBegin`, `DestroyJoin`,
`DestroyFree` and `DestroyReturn` are the stages of a call.

Clients do not use a pool they know to be released: `threadpool_add` and
`threadpool_destroy` begin only while `~freed`, which is the contract of a C
library and not something the pool could enforce.

`TasksInOrder` says that the pool implements `BoundedFifo`: the queue is `Pending`, the
cells of the ring from `head` on, a getter is a worker with the task it took last, and the
queue is closed by an immediate shutdown, after which nobody takes a task. A graceful
shutdown does not close it: the workers go on taking what is left.

### `ShmBlock`, `ShmPubSub`, `ShmPubSubProofs`, `MCShmPubSub`, `ShmPingPong`, `ShmPingPongProofs`, `MCShmPingPong`

`ShmBlock` has the segments: `locks[k][i]`, `read_pos[k]`, `data[k][i]`, and one
operator per atomic access of class `State`. Two modules extend it.

`ShmPubSub` is one topic: `name` (what `shm_open` finds), the publisher's and
each subscriber's process state with the segment it has mapped, the subscribers
the publisher knows, and the datagrams on their way. Publisher: `PubCreate`,
`PubConstruct`, `Acquire`, `LockForWrite`, `Write`, `ReleaseLock`, `ReleasePos`,
`Notify`, `PubStop`, `PubCrash`. Subscriber: `SubStart`, `Receive`, `LoadReadPos`,
`LoadLock`, `CasLock`, `Read`, `Release`, `SubStop`, `SubCrash`. `Notify` loses any
subset of the datagrams when `Lossy`. `Discover` stands for the service discovery.

`ShmPingPong` is `multi_thread_main` of the benchmark: two segments, two threads,
and `Send` called from inside the callback that `RecvProc` is, before the block
that was read is released.

### `Mailboxes`, `MessageDelegate`, `MessageDelegateProofs`, `MCMessageDelegate`

`Mailboxes` is what a topic promises: a mailbox for one message per reader, which a
newer message replaces; a message goes to all members until the topic is split; a
reader is given newer messages only, and one at most after it was told to stop. A
reader that is just joining may be given a message or not, and as long as somebody
joins a message may pass members by.

`topics` is the entry of the static map, `ref[x]` the delegate object `x` refers
to, so that the reference count is `Cardinality(Holders(d))` plus one for the map.
Publisher: `PubConstruct`, `Publish`, `StopErase`, `StopLock`, `StopMark`, `StopNotify`,
`PubDestruct`. Subscriber: `SubConstruct`, `SubInsertBegin`, `SubInsertEnd`,
`SubStartWorker`, `SubStop`, `SubNotify`, `SubSkipStop`, `SubDestruct`. Worker: `WorkerWait`, `WorkerTake`,
`WorkerCall`, `WorkerEnd`. A thread that drops the last reference while it holds
the map's mutex locks that mutex a second time and is `"stuck"`. `Stop` of a subscriber
may be called again with `stop_` already set, and a publisher may be destroyed without
an earlier `Stop`.

`mutex_` guards the loops of `Publish` and `Stop` and the erase, `subscribers_mutex_`
guards the insert, and so nothing keeps an insert away from the others. An insert has a
beginning and an end, and what overlaps it is a data race on the `std::set`: a loop
then visits any subset of the members and of who is being inserted (`Walks`). `Stop` has
a beginning and an end too (`StopLock`, `StopMark`), because `stop_` is set by the
constructor without a mutex; an insert within it leaves `tree` `"raced"` for the rest of
the loop. `Publish` stays one step, since `buffer_` is only looked at with `mutex_` held.
An erase that overlaps an insert leaves the tree `"torn"`: the erased subscriber may stay
reachable, and later loops may visit any subset for ever. Not modelled are the crash of
a thread on a broken node, after which there is nothing to state, and pointers to what
never was a subscriber.

`MailboxSpec` maps the one to the other: the members are the subscribers in
`subscribers_` of any delegate, those inside an insert are joining, the topic is split
once a publisher was stopped (the next constructor then makes a second delegate) or a
tree is torn, `slot` is `buffer_`, `hand` the local
`buf` of the worker, `seen` what the callback was last given, and the phase follows from
`stop_` and the worker's place.

### `HttpServer`, `HttpServerProofs`, `MCHttpServer`

Several threads, each with a loop: the mask and handlers of each descriptor in the
table, what the epoll set monitors, `maxfd`, and the batch still to be dispatched.
The descriptors belong to the process, so that a descriptor closed by one thread can
be given to the next connection of another. `Poll` is `aeApiPoll`; `ReadableHalf` and
`WritableHalf` are the two tests and calls of the loop in `aeProcessEvents`, with
`rfired` between them and the reported events in any order; `socket_accept`,
`socket_readable` and `socket_writeable` are the handlers, one step each. What a client
sends comes in units, `"end"` for the empty line that ends a request and `"part"` for
anything else, at most `Budget[c]` of them; a read takes what has arrived, as far as
the buffer has room. Clients connect, send, and (the `Leavers`) end or reset the
connection at any moment; a second write after that raises `SIGPIPE`, which ends the
process. The time events of ae are compiled out and have no action.

### `ServiceDiscover`, `ServiceDiscoverProofs`, `MCServiceDiscover`

The objects of one topic. `toPub[p][s]` and `toSub[s][p]` count the copies of an
announcement in the socket of a publisher or subscriber; `SendSub` and `SendPub` add
one for every member of the group. A constructor is two steps, `PubJoin` (member of
the group, callback registered) and `PubAnnounce`, and the same for a subscriber:
what comes in between is kept by the socket until the loop runs. `PubHears` and
`SubHears` are the two callbacks, `Lose` the network. A publisher that is constructed
again has an empty `subs_`; a subscriber has a new port and counts as a new one. It
refines what `ShmPubSub` has as one action, `Discover`, and shows when that action is
sure to happen; the benchmark constructs its four objects one after the other, which
is why each publisher of `ShmPingPong` has exactly one entry.

### `StringExercises`, `NumberExercises`, `Exercises`, `MCExercises`

The first two have the functions as operators, each with the definition it is compared
with. `Exercises` is the calls: a one-step `Call` for those, a step per round for the
two n-queens searches (`QueensRound` for 51-2.cpp, `QueensBoardRound` for 51.cpp) and
for the sudoku (`SudokuPos` and `SudokuVal`, with `Side` and `Block` in the place of 9
and 3). The boards are solvable ones, as the problem says. `size_t` is modelled modulo
2^16 in the place of 2^64: what matters is that a negative difference becomes larger
than any position. `findSubstring` of 30.cpp takes `status_`, the member that survives a
call: `findFirst` is a call on a new object, `findAgain` the second of two calls.

## 4. The runs

Bounds are the constants of the `.cfg`. Where `CHECK_DEADLOCK FALSE` is given, the
system ends (all processes done) or, in the runs with a known deadlock, stops.

| run | instance | states |
|---|---|---|
| `spmc` | 2 consumers, 3 blocks, 4 values | 548,683 |
| `queue` | 2 putters of 2 items, 3 getters, 2 elements | 133,677 |
| `pool` | 2 workers, ring of 2, 3 tasks, 2 destroyers | 79,400 |
| `shm` | 2 segments of 2 blocks, 2 subscribers, 2 messages, 1 datagram each, 1 stop, 1 crash, loss | 984,689 |
| `shm_pingpong` | 2 blocks per topic, 4 round trips | 2,271 |
| `delegate` | 1 publisher, 2 subscribers, 2 delegates, 2 messages | 462,719 |
| `http` | 2 threads, 3 clients, a table of 4 and 5 descriptors, a buffer of 2, up to 3 units | 113,916 |
| `discovery` | 2 publishers constructed twice, 1 subscriber, 1 loss | 12,258 |
| `exercises` | 15,806 calls | 32,911 |

The type invariants of `SpmcRing`, `BlockingQueue`, `ThreadPool` and `HttpServer` are
not among the properties of the runs: they are theorems (section 5).

**`spmc`** (`MCSpmcRing.cfg`): `Exclusion`, `CountsAreClose`; `NoOlderThanPublished`;
`StableWhileHeld`; `PoolSpec`, that the ring implements `LockedBlocks`;
`EverybodyFinishes`. The producer laps the ring, so a block a consumer is about to
count is taken and rewritten under it, and a consumer may hold a block when
`spmc_init` resets it. Three blocks and not two: a consumer that
leaves at the last value leaks its block, and with a single block left a polling
consumer can starve the producer.

**`queue`** (`MCBlockingQueue.cfg`): `NoLostWakeup` (while somebody sleeps there is a
woken thread for every item or free cell); `CloseWakesEverybody`; `FifoSpec`, that the
ring implements `BoundedFifo`; `PuttersFinish`; `CloseEndsEverybody`. More getters
than items and more putters than cells make threads sleep on both conditions and be
overtaken; four items wrap three cells.

**`pool`** (`MCThreadPool.cfg`): `RingHoldsQueued`; `SleepersLeaveNoWork` (while a
worker sleeps there is another one about to look at the ring for every queued task,
and nobody sleeps in a pool that is shut down); `FreedAfterWorkers`, `GracefulDrains`;
`TasksInOrder`, that the pool implements `BoundedFifo`; `DestroyReturns`,
`AcceptedTasksRun`. More tasks than cells fill and wrap the ring; two destroyers of
either kind come at any moment, and creation may fail after one worker or before the
first.

**`shm`** (`MCShmPubSub.cfg`): `TypeOK`; `NoOlderThanPublished`, which survives every
start, stop and crash; `AnsweredIsSeen`, for the time until the first process leaves.
Two segments are enough for a publisher and a subscriber to be on different ones.
Subscribers are symmetric (no liveness here).

**`shm_pingpong`** (`MCShmPingPong.cfg`): `CallbackOwnsBlock`, `LocksAreExact`;
`EveryNumberOnce`; `BenchmarkEnds`. Deadlock is checked. It shows why the benchmark
does not meet the flaw that `shm_writing` demonstrates: nobody writes a topic while
its subscriber is in `LockForRead`.

**`delegate`** (`MCMessageDelegate.cfg`): `NobodySleepsOnWork`; `PointersAreLive`;
`MailboxSpec`, that the topic implements `Mailboxes`; `StopEndsWorker`;
`MessagesArrive`. Two delegates let a subscriber hold on to one that is no longer in
the map; two subscribers let one's insert overlap the other's erase, and a `Publish` or
`Stop` that goes through both. `PointersAreLive` has the two ways in which a destroyed
subscriber stays reachable: after a publisher's `Stop`, and in a torn tree.

**`http`** (`MCHttpServer.cfg`): `RegistrationIsExact`: a descriptor is in the table
of a thread and in its epoll set exactly if it is an open connection (or listening
socket) of that thread; `DropsAreExplained`: a client that stays is dropped only in
the middle of its response or with a full buffer; `RequestsAreKept`: what a connection
is registered for agrees with what it has read, however the bytes were cut into reads,
so that no complete request lies unanswered in a buffer; `RequestsAreAnswered`. One
client sends more than the buffer holds and may leave, one sends a single request, one
only connects; the fifth descriptor lies behind the table.

**`discovery`** (`MCServiceDiscover.cfg`): `PairsMeet`: a pair that is up has met or
has a copy under way that makes it meet; `EntriesAreBounded`; `Rendezvous`, that it
does meet. Two publishers matter because a subscriber's answer to one reaches the
other; subscribers do not touch each other's counts, so one is enough.

**`exercises`** (`MCExercises.cfg`): `ResultsAreRight`, `SearchSkipsNothing`,
`EveryCallReturns`. Strings of up to eight letters, patterns of up to four, up to
seven boxes, all permutations of up to five, boards of up to five queens, and 59
sudokus of side four chosen so that the search goes back. Two of the functions are wrong
on some inputs, and `ResultsAreRight` has such inputs by name, with the claim that the
code is wrong there (`Underrated`, `Misled`); section 6 says how.

Three runs show that something the repository says of its code does not hold; see
section 6: `queue_cells`, `pool_twice`, `shm_writing`.

### Fairness

Only weak fairness, and only of threads that are inside a call or a loop of their own:
the scheduler runs each of them eventually. Nobody is obliged to call anything.
`spmc`: producer and each consumer (the loops of `spmc_test.c` poll). `queue`: each
putter and getter loop, and a `queue_close` that has begun. `pool`: the workers (so
tasks return) and calls of `threadpool_destroy` that have begun. `delegate`: the
workers, and a `Stop` that has begun. `shm_pingpong`: both threads, and no loss of
datagrams sent to the own host; `shm` states no liveness, because datagrams may be
lost. `http`: the loop of each thread; clients owe nothing. `discovery`: the loops of
publishers and subscribers that are up read what their sockets hold; nobody has to
start or stop. `exercises`: one thread. A critical section is one action, so weak
fairness of it also says that a thread which keeps asking for a mutex that others keep
releasing gets it in the end.

## 5. The theorems

For every value of the constants that satisfies the named assumptions.

**`SpmcRingProofs`** (any finite set of consumers, any capacity and number of values):

- `TypeCorrect`: `TypeOK`.
- `LockInvariant`: the inductive invariant `LockInv`. `CountsAreClose` alone is not
  inductive: a consumer's compare-exchange is harmless only because the count it
  expects was seen to be non-negative (`ConsumerSane`), and the count of an owned block
  is negative however many releases of forgotten readers came (`CloseInv`). Before its
  reset a count has at least those that have come in (`EarlyInv`), so that what the
  reset forgets is all that goes missing, and a release below zero happens only at such
  a block (`ErrorInv`). Nothing is written or published before `spmc_init` is through
  (`BeforeInit`).
- `ExclusionHolds` and `CountsStayClose` follow from it. The step lemmas are
  `ProducerLockStep` and `ConsumerLockStep`, one case per action; cardinalities
  change through `HoldersFrame`, `ComeAndGo` and the finite-set theorems.
- `HeldBlocksAreStable`: `StableWhileHeld`, since only an owned block changes
  (`OnlyOwnedBlocksChange`) and an owned block has no more holders than were forgotten.
- `Freshness`: `NoOlderThanPublished`, by `FreshInv`: what is published is the value
  before `next` or newer, blocks hold no value from the future, the block in flight
  holds `next`, and from its load of `read_pos` on a consumer's block holds the value that was
  published then, or a newer one.
- `RingImplementsPool`: `PoolSpec`; each action maps to a step of `LockedBlocks` or
  stutters.

**`BlockingQueueProofs`** (any queue size, any finite sets of threads):

- `TypeCorrect`: `TypeOK`.
- `CloseLeavesNobodyAsleep`: `CloseWakesEverybody`, by `CloseInv`: once `closed` is
  set nobody falls asleep any more, so that the two broadcasts empty the two
  conditions one after the other.
- `WakeupsAreNotLost`: `NoLostWakeup`, inductive with `TypeOK`. `UsedSteps` says how
  a put and a get change the number of items across the wrap-around, `SignalWakes`
  and `WokenLosesOne` how the number of woken threads changes.
- `RingImplementsFifo`: `FifoSpec`, with the cells from `out` to `in` as the contents of
  `BoundedFifo`. `StoreAppends` and `TakeTails` are the two steps that do not stutter;
  they compare sequences position by position across the wrap-around.

**`ThreadPoolProofs`** (any number of workers, tasks and callers, any ring size):

- `TypeCorrect`: `TypeOK`, together with `CreateInv` (the workers that exist are
  `1 .. thread_count`, and nobody destroys a pool that is still being made).
- `ReleasedAfterWorkers`: `FreedAfterWorkers`, by `JoinInv`: `started` is the number
  of workers that are neither missing nor gone, and everybody a join loop has
  passed is gone. Without the first part `threadpool_free` could refuse.
- `RingIsExact`: `RingHoldsQueued`, by `RingInv`, which says the same position by
  position; `RingFacts` has the arithmetic of the wrap-around.
- `TasksRunOnce`: `OneWorkerPerTask`, by `RunInv`: running tasks and running workers
  correspond. It needs `RingInv`, because a grabbed task must be a queued one.
- `GracefulShutdownDrains`: `GracefulDrains`, by `DrainInv` (a worker leaves a
  graceful shutdown only with the ring empty, and nothing is accepted any more) and
  all of the above: there is a first worker, it has left, so the ring is empty.
- `SleepersAreNotNeeded`: `SleepersLeaveNoWork`, inductive with `TypeOK` and
  `CreateInv`. A signal adds a worker for the task just added, or there is no
  sleeper; a worker that takes a task takes one off both sides (`AlertGrows`,
  `SleepStep`). `threadpool_destroy` sets `shutdown` and wakes everybody in one critical
  section.
- `PoolImplementsFifo`: `TasksInOrder`. `AddAppends` and `TakeTails` are the two steps
  that do not stutter.

**`ShmPubSubProofs`** (any finite number of segments and subscribers, any number of
blocks, messages, stops and crashes):

- `WordsStayBounded`: `TypeOK`. Alone the bounds of the lock words are not inductive: a
  release counts down whatever the word holds, also after a new publisher has cleared
  it or a writer has stored 0 over it. `LockDebt` bounds how far a word may be from the
  number of its readers: a crash leaves one too many, a forgotten reader one too few,
  and a subscriber is forgotten at most once before it counts down. `ReadersKept`,
  `ReaderAdded` and `ReaderGone` follow the number of readers.
- `ReadsAreFresh`: `NoOlderThanPublished`, by `Fresh`: blocks only get newer, the block
  that `read_pos_` names holds the newest message of its segment or a later one, and
  from its load of `read_pos_` on a subscriber's block is at least that new. It needs no
  lock, which is why it survives what `shm_writing` shows.
- `AnswersAreSeen`: `AnsweredIsSeen`, by `Quiet`: as long as nobody has stopped or
  crashed there is one segment, everybody who has mapped any has mapped that one
  (`OneSegment`), and a datagram comes after the message it announces (`Answers`).

**`ShmPingPongProofs`** (any number of blocks and round trips):

- `LocksStayExact`: `LocksAreExact`; `CallbacksOwnTheirBlock`: `CallbackOwnsBlock`;
  `NumbersInOrder`: the action property `EveryNumberOnce`. None is inductive alone. They
  hold because one message is under way at a time (`OneMessage`): it is written, waits as
  a datagram or is read. `Numbers` says which number it has, `Delivery` that it lies where
  `read_pos_` points. With it nobody writes a topic while its subscriber is in
  `LockForRead`, so that the missing test for a writer does no harm.

**`MessageDelegateProofs`** (any number of publishers, subscribers, delegates and
messages):

- `WorkersAreWoken`: `NobodySleepsOnWork`. It needs `Membership` (who is in
  `subscribers_` of a delegate has that delegate as `publisher_`, or is destroyed), so
  that the notification goes to the condition variable the worker waits on, and
  `WorkerInOwner` (a destroyed subscriber has no worker).
- `PointersStayLive`: `PointersAreLive`, by `LeftBehind`: where a subscriber may skip
  its own `Stop`, some publisher has called `Stop` before. An insert that overlaps a loop
  adds a live subscriber only; an erase that overlaps an insert is the exception the
  property names.
- `DelegateImplementsMailboxes`: `MailboxSpec`. That a publisher reaches all members,
  unless somebody is joining, needs `OneDelegate` (until a publisher is stopped everybody
  shares the delegate in the map) and `Settled` (a tree is raced only while a `Stop` goes
  through it; `WalksGive` says what a loop then visits), that a callback is given newer messages only needs `Ordered` (what lies in the
  buffer is newer than what the worker holds, and that newer than what was seen).

**`ServiceDiscoverProofs`** (any number of objects, starts and losses):

- `PairsAlwaysMeet`: `PairsMeet`, inductive with the types: a pair comes up by an
  announcement that finds the other one in the group, and later steps turn a copy for
  the subscriber into one for the publisher, and that into an entry of `subs_`.
- `EntriesStayBounded`: `EntriesAreBounded`. An announcement adds a copy for every
  subscriber, so the bound is inductive only with the announcements that are still owed
  counted in (`Due`): one for each publisher that has joined and not yet announced.

**`HttpServerProofs`** (any number of threads and clients, any size of the table, of
the descriptors and of the buffer):

- `TypesHold`: `TypeOK`; `RegistrationStaysExact`: `RegistrationIsExact`;
  `DropsStayExplained`: the action property `DropsAreExplained`. They follow from one
  invariant, `IInv`. Its parts: `Loops` (table, epoll set and `maxfd` of each loop
  agree), `Listening`, `Owned` and `Serving` (what is registered is an open connection of
  that thread and descriptor, and the reverse); `Queued` (who waits to be accepted has no
  connection yet, so that `accept` overwrites none); `Reported` (what a poll has reported
  and nobody has handled is still registered and still ready, so that a handler is never
  called for a descriptor closed or reused since); `Counted` (`cur` is at most what was
  read since the last response).
- `CreateEvent`, `DeleteEvent` and `ForgetDescriptor` say what `aeCreateFileEvent`,
  `aeDeleteFileEvent` and closing do to one loop, `AcceptOutcome`, `ReadOutcome` and
  `WriteOutcome` what the handlers do to the registration: nothing, or one of `Accepts`,
  `Switches`, `Drops`. The parts of `IInv` follow from those and not from the code again.
- `RequestsStayKept`: `RequestsAreKept`, by `KInv` on top of `IInv`: a connection starts
  with nothing read (`Fresh`), and the last unit a client has sent is the last one unread
  (`Ends`), so that a read which empties the socket knows whether a request is complete.
- `WaitersAreNoticed`: a client that waits for a response and has a descriptor in the
  table is reported by the next `epoll_wait` of its thread. It is the safety part of
  `RequestsAreAnswered`: what remains is that the thread polls and dispatches.

The assumptions are the named ones of the component modules: sizes and bounds are
natural numbers, positive where the code divides by them or indexes with them; sets of
threads, subscribers, publishers and segments are finite or disjoint where the argument
counts or separates them; segments are numbered from 1, 0 being no segment; and
`NULL`-like values are not items.

Two operators of the community modules are recursive or a `CHOOSE`: `Max` of a set of
descriptors (`HttpServer`) and the sum `Total` (`ServiceDiscover`). What they return is
proved without an induction rule, from the fact that strict inclusion of finite sets is
well-founded: among the subsets for which a claim fails there would be a smallest one,
and for that one the claim follows from the smaller ones (`MaxExists`; `SmallestSet`,
`SumExists`, `TotalMono`, `TotalAdd`).

Only model-checked: all liveness properties (`EverybodyFinishes`, `PuttersFinish`,
`CloseEndsEverybody`, `DestroyReturns`, `AcceptedTasksRun`, `BenchmarkEnds`,
`StopEndsWorker`, `MessagesArrive`, `RequestsAreAnswered`, `Rendezvous`,
`EveryCallReturns`), because liveness under fairness is out of the prover's reach; and
`ResultsAreRight` and `SearchSkipsNothing` of the exercises, which compare `RECURSIVE`
operators with reference definitions.

## 6. Where code and documentation disagree

- `queue_cells` (`InAllocatedCells`): the C++ class indexes `max_elems + 1` cells
  and allocates `max_elems`.
- `pool_twice` (`GracefulRunsPending`): a second `threadpool_destroy` returns with
  the mutex held, and the pending tasks a graceful shutdown promises to process are
  not.
- `shm_writing` (`Exclusion`): the branch commented "being written" in
  `LockForRead` tests the position instead of the lock word.

Three more are not runs, because the runs above have the part that does hold:

- the comment on `size` in `spmc10.c:18` says that it keeps consumers from reading an
  entry that was never written; `consumer_alloc` does not look at it, and `read_pos` is
  0, a valid position, from the start. `NoOlderThanPublished` begins with the first
  publication;
- `assert(i >= 0)` in `shm.hpp:127` fails when an `r` of a publisher that was replaced
  finds the new segment empty. `AnsweredIsSeen` has the assertion until then;
- `message.hpp:238` of 20221206-pubsub says that both objects may be on the stack; a
  subscriber destroyed after its publisher's `Stop` stays in `subscribers_`.
  `PointersAreLive` holds until a publisher is stopped, or a tree is torn.

Four defects have no run of their own, because the properties of the passing runs say
how far each goes:

- `spmc_init` resets counts under consumers that came first (`spmc_test.c:120`,
  `spmc10.c:71`): `CountsAreClose` and `Exclusion`;
- `message.hpp:200` inserts into `subscribers_` under a mutex of its own:
  `PointersAreLive` and `MailboxSpec`;
- `546-2.cpp` keeps one best way to clear an interval, although another one of the same
  score may leave boxes a later merge needs (lines 24-26). All inputs of up to seven boxes
  of two colours and of six of three are right; of `1,1,1,2,1,2,2,2,1,2,1` it makes less
  than an order of removals does, and also of `1,1,2,2,2,1,2,3,1,3,3,3,1` (43, where 45 can
  be had): `ResultsAreRight`, `Underrated`;
- `30.cpp:25` keeps `status_` of an earlier call, so that a second call of the same object
  with another string finds what is not there or misses what is: `ResultsAreRight`,
  `Misled`.

In `chuqq_httpd_nodelay.c:58` a comment expects that the buffer never fills; a client
whose request does not fit is closed without an answer. `DropsAreExplained` lists this
as a cause.

## 7. Not modelled

The libuv variants of publish/subscribe, the other versions of the ring (spmc9 is the
modelled algorithm in another layout; the rwlock forms leave exclusion to the C
library), the component scheduler (its test case has one timer). The first and second
version of the shared-memory publish/subscribe are predecessors of what is modelled.
Five of the exercises: three first attempts, one that rests on a comparison for which
the library promises nothing, one text parser. Abstracted in the modelled parts:
payloads (a message is its number, a request its length), JSON, logging, error returns
of `mmap`, `shm_open` and socket creation that end the process, and weak memory (see
`SpmcRing`).

Of the 66,000 lines of source about 45,000 are vendored (nlohmann_json, httplib,
Catch), and most of the others are samples of one call, so that the modelled share of
all lines is small although it is most of what has an algorithm.

Out: vendored code (nlohmann_json, httplib, Catch, zmalloc), benchmarks of
libraries and of the kernel, and language and tool samples, which are independent
single files without state that outlives a function; `mempool.h` and
`thread_pool.hpp`, which have no code; the CAN socket, a layer over one
descriptor.
