# A TLA+ verification of rtsc

rtsc is a Rust crate of synchronisation components for real-time programs:
channels (synchronous and asynchronous), cells, a semaphore, a mutex and condition
variable with priority inheritance, and a few stand-alone tools. This directory holds TLA+ models of its components, the TLC runs
that check them on small instances, and TLAPS proofs that hold for all
instances. Paths below are relative to the crate's `src/` directory.

## 1. Inventory

| Component | State | Operations | What is hard | What makes it correct |
|---|---|---|---|---|
| Sync channel core, `base_channel.rs` | `InnerData {queue, senders, receivers}` under one mutex; condition variables `data_available`, `space_available` | `send`, `send_timeout`, `try_send`, `recv`, `recv_timeout`, `try_recv`, `next`, clone and drop of both handles | lost wakeups, timeouts racing notifications, drops racing blocked calls | no thread sleeps beside what it waits for; end of stream is reported once, to everyone, and is final |
| Plain channel, `channel.rs` | a `VecDeque` as the queue | the storage methods | many senders, many receivers | one bounded FIFO |
| Policies and policy deque, `data_policy.rs`, `pdeque.rs` | `VecDeque` (elements and ring position), `ordered` | `try_push`, `get`, `clear` | eviction, replacement and expiry together; the ring layout under the sort | policies keep their promises, order is kept, the sort's assertion holds |
| Policy channel, `policy_channel.rs` | as above | as above | room that appears by expiry or replacement | as above, end to end |
| PI locking, `pi.rs` | `PiLock {futex, blocked}`, `Condvar {waiters, fx}` | `lock`, `try_lock`, `try_lock_until`, `unlock`, `block_forever`, `wait`, `wait_for`, `notify_one`, `notify_all` | the window between unlock and futex wait; the notifier's spin; guards that move between threads | mutual exclusion; behaves as an atomic monitor; notifications end |
| Cells, `cell/datacell.rs`, `coupler.rs`, `triplecoupler.rs` | `primary` (`current`), `second`, `third`, `closed` | `set`, `replace`, `set_second`, ..., `get`, `get_timeout`, `try_get`, `next`, `close` | one notification for many getters; `close` with getters blocked | no getter sleeps beside a value; secondary values leave with a primary one |
| Semaphore, `semaphore.rs` | `permissions` | `acquire`, `try_acquire`, drop of a guard | barging | permissions are guards; no free permission is withheld |
| Async channels, `base_channel_async.rs`, `channel_async.rs`, `policy_channel_async.rs` | as the sync core, plus queues of wakers, sets of queued and of pending ids | `Send`/`Recv` futures (poll, drop), the blocking and the `try` methods | futures dropped after a wake, stale entries of timed-out calls, mixed waiters in one queue | as the sync channel |
| `TtlCell`, `cell/ttlcell.rs` | `value`, `ttl`, `set_at` | `set`, `replace`, `take`, `take_with`, `touch`, `clear`, ... | time passing between two reads of the clock in one call | an expired value is never handed out; pairs are close in time |
| `Interval`, `time.rs` | `next_tick`, `ticks` | `tick` | a tick on time, late or far too late | the pace is kept: one pass per period, no drift, no backlog |
| `EventMap`, `event_map.rs` | an ordered map | `insert`, `get_closest_to`, `cleanup` | ties, bounds | the closest event is returned |
| `DataBuffer`, `buf.rs` | a `VecDeque` under a mutex | `try_push`, `force_push`, `take` | none blocks | bounded; nothing leaves it in silence or out of order |
| `SystemConfig`, `CpuGovernor`, `system.rs` | files, previous values | `apply`, drop | failure half-way, order of drops | what was changed is restored |
| `DataPolicy` derive, `rtsc-derive` | none at run time | from attributes to methods | per-variant values against the all-default shortcut | every variant has what it was given, or the default |
| `Operation`, `ops.rs`; `thread_rt` | none of their own | | | |

Interaction: every blocking component is written against `lock_api::Mutex` and
the trait `RawCondvar` (`condvar_api.rs`); on Linux these are `pi::Mutex` and
`pi::Condvar`. All calls of `notify_one` and `notify_all` inside the crate are
made with the mutex held. The channels are generic over `ChannelStorage`, with
`VecDeque` and `pdeque::Deque` as the two storages. The semaphore and the cells
stand alone.

## 2. Modules

| Module | Models |
|---|---|
| `Messages` | what channels and storages are generic over: messages, which of them may expire, the capacity |
| `ChannelStorage` | the trait `ChannelStorage` as constant operators, and the contract the channels need of it |
| `BaseChannel` | `base_channel.rs`, generic over its storage as the code is |
| `BaseChannelAsync` | `base_channel_async.rs`, generic likewise: futures and blocking calls in one queue per side |
| `PolicyStorage` | the `ChannelStorage` impl of `policy_channel.rs`: `PolicyDeque` as the storage of a channel |
| `PolicyChannelAsync` | `policy_channel_async.rs` (and `channel_async.rs`): `BaseChannelAsync` over `PolicyStorage` |
| `Channel` | `channel.rs`: `BaseChannel` over a `VecDeque` |
| `BoundedFifo` | abstract specification: one bounded FIFO with two ends that close |
| `PolicyDeque` | `pdeque.rs`, `data_policy.rs`, as operators on the deque's value |
| `DequeUse` | a deque driven directly, in any order, while values expire |
| `PolicyChannel` | `policy_channel.rs`: `BaseChannel` over `PolicyStorage` |
| `PiLocking` | `pi.rs` at the granularity of atomic operations and futex calls |
| `Monitor` | abstract specification: the mutex and condition variable everyone relies on |
| `Cell` | the three cells, by the constant `Extras` |
| `Semaphore` | `semaphore.rs` |
| `Clock` | the monotonic clock (external) |
| `TtlCell`, `Interval` | `cell/ttlcell.rs`, `time.rs` under that clock |
| `EventMap`, `DataBuffer` | `event_map.rs`, `buf.rs` |
| `SystemGuards` | `SystemConfig` and `CpuGovernor` of `system.rs`, one step per file access |
| `DataPolicyDerive` | `rtsc-derive/src/lib.rs`, as operators on the attributes of an enum |
| `Tools` | the six above side by side: a behaviour uses one of them |
| `ChannelProofs` | theorems and proofs about `BaseChannel`, `Channel` and `PolicyChannel` |
| `BaseChannelAsyncProofs` | about `BaseChannelAsync` and `PolicyChannelAsync` |
| `PolicyDequeProofs`, `DequeProofs` | about the operators of `PolicyDeque`, and about `DequeUse` |
| other `*Proofs` | about the module of that name |
| `MC*` | instances for TLC |

### How the models correspond to the code

**Steps.** A method of a channel, a cell or the semaphore runs under one mutex
and gives it up only inside a wait. A step of those modules is one critical
section: from the call, or from the return of a wait, to the return of the
method or to the next wait. A blocking method is therefore an action for the
call (`SendCall`, `RecvCall`, `GetCall`) and one for the pass of its loop after
a wakeup (`SendResume`, `RecvResume`, `GetResume`), both made of the same
alternatives. That a critical section may be taken as a step, and that wait and
notify behave as the models assume, is what `PiLocking` establishes for the
crate's own locks (below).

**Condition variables.** A thread in a wait is `waiting`. `notify_one` turns one
waiting thread, chosen arbitrarily, into a `woken` one; `notify_all` all of them.
A woken thread still has to get the mutex, and others may get it first. A timed
wait may turn `timedout` while it is `waiting`; its method then returns `Timeout`
without another look at the state, as the code does. Spurious wakeups are not
modelled: `pi::Condvar` returns on a wake or a timeout only.

**BaseChannel.** `queue`, `senders`, `receivers` are the fields of `InnerData`.
`st` and `mode` say where each thread stands, `arg` is the local `value` of a
blocked sender, `ret` the last result of each thread. `sent` and `got` are
histories. `TryPush`, `Get` and `Length` are constants: the storage. What is
assumed of it is `StorageContract`, and TLC evaluates that assumption on the
`VecDeque` and on the policy deque in the runs that use them. That the storage is
one of these two is `StorageIsVecDeque` in `Channel` and `StorageIsPolicyDeque` in
`PolicyStorage`: hypotheses of the theorems about those channels, and evaluated by
TLC in the MC modules. A thread owns at
most one handle. `Expire` is the environment: the time-to-live of a message runs
out.

**PolicyDeque.** Besides the elements the model keeps the position of the front
in the ring, since `sort_by_priority` rotates by the length of the ring's second
slice and asserts that nothing is left in it. `retain` and `sort_by` are given by
ranks (`Arrange`): position `k` of the result holds the element that `k` positions
do not come after, itself included, so that no recursion stands in the way of the
proofs. `retain` with its `entry_removed` flag keeps all but the first match. Priorities and kinds are attributes of a
value; `is_expired` is a set that grows.

**PiLocking.** `owner` is the PI futex's word, `waiters` the counter, and `pc`
tells the atomic operations apart: `WaitRegister` is the `fetch_add`,
`WaitUnlock` the release, `FutexWait` the entry into the futex, `WaitDeregister`
the `fetch_sub`, `LockCheck` and `LockAcquire` the two halves of `perform_lock`,
`NotifyLoad` and `NotifyWake` one round of the notifier's loop. The kernel's
futexes are external. A guard is `Send` (`GuardMarker = GuardSend`, `pi.rs:244`), so
`MoveGuard` hands it to another thread, which may notify, wait and unlock with it;
the futex word still names the thread that locked. `PerformUnlock` therefore clears
the word only when the caller is the one it names, and otherwise does nothing, since
the error of `unlock_pi` is ignored; the history `stranded` remembers that this has
happened. `Guarding` are the threads with a live guard. In `Monitor` such a move is
`Pass`, and giving up a guard ends the hold, whether or not the futex is released.

**BaseChannelAsync.** A client is a task or a thread with at most one handle and
one operation. `wk.send` and `wk.recv` hold the three records the code keeps per
side: the queue of entries (`wakers`), the ids in it (`ids`) and the ids that
were woken and have not been polled since (`pending`). A future's entry is its
id; the entry `None` of a blocking call (`SyncWaker`) names nobody, and when it is
popped the condition variable wakes any of the blocked threads, or none. `st` is
`pending` for a suspended future, `woken` once its waker was called; polls may
also come without a wakeup, as executors and `select!` make them. `gen` tells the
futures of one client apart, so that an entry of an earlier future is not taken
for its successor's. The asymmetries of the code are kept: a first poll does not
try the queue while anybody is queued, a later one does; `try_send` and the
blocking calls never look at the queue of waiters; `send_blocking_timeout`
notifies receivers also when its value was skipped; a timed-out call leaves its
entry behind. `clean` is a history variable: so far the entries of both queues
have been exactly the clients that sleep. The wakeup guarantees are stated for
behaviours that are clean, since a stale entry does swallow a wakeup (run
`async_stale`); the other guarantees are stated without it. Messages do not
expire in this model.

**Tools.** The stand-alone tools share no state and call none of each other, so
`Tools` chooses one at the start and leaves the rest alone; the state space is
the sum of theirs. In `TtlCell` and `Interval` a call is one step, and every read
of the clock in it takes a time no earlier than the last. `EventMap` keeps keys
as signed integers of a fixed width (`Half` is half their range) whose subtraction wraps, and compares
`get_closest_to` with a definition by distances. In `SystemGuards` scopes
interleave at every read and write of a file and each access may fail; `stack`,
`nested` and `spoiled` are histories: the scopes that are open, whether only the
innermost one has acted so far, and whether a write was left behind. `DataPolicyDerive` builds every small enum
from documented, undocumented and ill formed attributes. What the macro's loops and
flags produce is compared with what they produce for each variant alone and, for
enums in the terms of the documentation (`Documented`: its list of policies, integer
priorities, one value each), with the values it says. What the code accepts beyond
that is listed under "Further observations".

**Cell.** `set` and `replace` differ in what they return and are one action; the
secondary setters notify nobody; `closed` is looked at once, before the loop.

## 3. Runs

| Run | Instance | Shows |
|---|---|---|
| `channel` | 3 senders, 2 receivers, 4 messages, capacity 2 | counters, wakeups of both condition variables, end of stream, refinement of `BoundedFifo` |
| `channel_live` | 2 senders, 1 receiver, 3 messages, capacity 1 | blocked senders get on, accepted messages are delivered |
| `channel_drop` | 1 sender, 1 receiver, capacity 1 | **violation**: the last receiver's drop does not wake blocked senders |
| `policy_channel` | 2 senders, 1 receiver, 4 messages of 3 policies, ordered, capacity 2 | `Always` messages are delivered, nothing is invented, the best comes first, with eviction, replacement and expiry; type correctness, wakeups of receivers and end of stream are theorems for every storage |
| `policy_expiry` | 2 senders, 1 receiver, capacity 1 | **violation**: expiry leaves sender and receiver waiting for each other |
| `deque` | 7 values of all policies, capacity 3, ordered or not | order, ring layout, policies |
| `pi_locking` | 3 threads, notifications under the mutex, guards that move | refinement of `Monitor`, mutual exclusion, notifications end |
| `cell` | a coupler, 3 getters, 3 values | no lost wakeup, secondary values stay coupled |
| `semaphore` | 5 clients, capacity 2 | permissions, wakeups |
| `async_channel` | 2 senders, 2 receivers, 2 `Always` messages and an `Optional` one, capacity 1 | the three records of waiters agree; wakeups of futures and blocking calls, passed on by dropped futures; closing reaches all sleepers; `Always` messages keep their order |
| `async_stale` | as `async_channel` | **violation**: operations that have ended leave entries behind |
| `tools` | two cells, period 2, 3-bit keys, buffer of 2, 3 guards on 2 files, enums of 2 variants with 2 attributes each | what each tool promises |

**Bounds.** Two receivers and three senders let one thread be woken while a
second is still asleep and a third barges in, which is what a lost wakeup takes.
Four messages and two slots fill the queue, block senders behind it and let
room and data appear twice before a woken thread runs. In the deque three slots
and seven values make the ring wrap at every position and give a policy a choice
of victims. Three threads on one condition variable are a notifier, a waiter
inside the futex and a waiter that has not reached it. Five semaphore clients are
two guards, two woken and one asleep. Each message is sent at most once
(`fresh`), which bounds the runs; signals are bounded by `MaxInterrupts`.
In `async_channel` two clients on each side are a waiter and one that overtakes,
drops or inherits its wakeup; `MaxEntries` lets a timed-out call leave entries
until its queue is longer than two, and two generations let a client queue again
while an entry of its former future is still there. In `tools` a clock up to 7
passes every ttl and several periods, so that a tick may be late by more than one; three-bit
keys contain pairs whose distance overflows; three scopes nest, follow each other
and overlap.
Threads, and in the plain channel messages, are interchangeable, and the runs
`channel`, `policy_channel` and `async_channel` use that symmetry; runs with liveness use none.

**Deadlock.** Channel runs and `PiLocking` do not check it: threads may all have
dropped their handles, and `block_forever` parks everyone by design. Nor does
`tools`, whose behaviours end at their bounds.

**Fairness.** Weak fairness of what a notified or timed-out thread does next: the
scheduler runs it and the mutex, being released after every critical section,
comes to it. `channel_live` adds that a thread holding a receiver keeps calling a
receive method, since nothing in the crate can make an application receive.
`pi_locking` assumes fairness of a thread's own steps inside `wait` and `notify`
only, none of taking the mutex.

### What the violations mean

* `channel_drop`. The last `BaseReceiver::drop` notifies `data_available`
  (`base_channel.rs:500`), where no sender waits. A sender blocked in `send` on
  the full queue is never told. `send_timeout` returns `Timeout` in its place.
  The async sibling wakes the senders (`base_channel_async.rs:597`).
* `policy_expiry`. `recv` on a queue of expired entries empties it, gets `None`
  and waits, without notifying `space_available`; the sender that was waiting for
  room waits on. Every further call of a third party resolves it, no call of the
  two does. For this reason `NoLostSpace` is a property of
  the plain channel only.
* `async_stale`. `send_blocking_timeout` and `recv_blocking_timeout` return
  `Timeout` and leave the `None` they appended; a queued future that completes when
  polled without a wakeup has cleared `queued`, so its drop does not remove its
  entry either. `test_delivery` asserts that nothing is left
  (`channel_async.rs:46`). The next `wake_next_send` or `wake_next_recv` pops the
  stale entry in place of a real waiter, whose wakeup is lost, and a new `send()`
  is suspended behind it although there is room.

### Further observations

Met while modelling; the models have these behaviours, and no run is spent on them.

* A full deque without an expired or optional entry, or one of the same kind,
  refuses a `Latest` value as it refuses an `Always` one (`pdeque.rs:84`), while
  `data_policy.rs:12` says "always deliver, drop the previous if no room".
* `pi::Condvar::notify_all` wakes as many sleepers as it counted waiters; a caller
  without the mutex can count a waiter on its way to the futex and wake one that
  arrived later (`pi.rs:120`). The crate itself always holds the mutex, and
  `PiLocking` models notifications with the mutex held only.
* A guard of `pi::Mutex` may be moved to another thread (`pi.rs:244`). Dropped there,
  or used there to wait, it does not release the mutex: `perform_unlock` fails on the
  caller's thread id and ignores the error of `unlock_pi` (`pi.rs:215`). The mutex
  stays locked for good and a wait with such a guard cannot return; `GuardsExclude`
  states that this is all that happens. The crate itself moves no guard.
* A getter that is already blocked when its cell is closed is woken, finds nothing
  and waits again; a value set later is handed to it (`cell/datacell.rs:97`).
* A `tick` that meets `next_tick` exactly does not advance it, so the next one
  passes at once or counts as missed (`time.rs:85`); `IntervalKeepsPace` counts
  such calls. `Skip` with a period of zero does not end.
* `touch` of an expired `TtlCell` brings its value back, and `take` of an expired
  cell does not clear it.
* The distance of signed keys may overflow in `EventMap` (`event_map.rs:119`);
  `ClosestIsNearest` is stated for keys whose neighbours are within reach.
* `SystemConfig::apply` that fails after its first write returns no guard, so what it
  wrote stays (`system.rs:78`); of two guards on one file that are not dropped in
  reverse order the later one restores what the other had set (`system.rs:92`).
  `GuardsRestore` is stated of nested guards and of files with no write left behind.
* The derive macro panics on any attribute of a variant that it does not know,
  doc comments included.
* Its documentation lists four values of `data_delivery`; the code also takes `latest`
  (`rtsc-derive/src/lib.rs:211`), and any of them as a string. `data_priority` "must
  be an integer" (`:14`), but every literal is accepted and copied into the method
  (`:106`), where the compiler has to refuse it.
* As soon as one variant has `data_expires`, the generated match binds `value` in every
  tuple and named variant (`:126`), so that a named variant needs a field of that name
  though it never expires.

## 4. Proofs

TLC checks an instance, the theorems below hold for every value of the constants:
any number of threads, clients, messages, scopes or files, any capacity, period or
width. Each invariant is proved from an inductive one; the argument says what had
to be added to the property and why.

### The sync channel

`ChannelProofs`, for every finite set of threads, every set of messages, every
capacity and **every storage that keeps `StorageContract`**: `TypeCorrect`,
`HandleCountCorrect`, `NoLostDataCorrect`, `ClosedWakesReceiversCorrect`,
`ClosedIsFinalCorrect`.

*Argument.* `TypeOK` alone is not inductive: `DropSender` decrements `senders`,
which stays a natural number only because the thread that drops is counted in it.
The inductive invariant is `TypeInv == TypeOK /\ HandleCount`. `NoLostData` alone
is not inductive either: a drop of the last sender wakes every receiver, but a
receiver that finds the queue empty waits only when `senders > 0`, so the pair
`DataInv == NoLostData /\ ClosedWakesReceivers` is carried together, relative to
`TypeInv`. The storage contract enters in three places: an accepted push lengthens
the queue by one at most, matched by the one receiver it wakes; a `get` that
yields a value shortens it, matched by the receiver that stops being on its way;
a `get` that yields nothing leaves it empty, so a receiver may go to sleep. The
cardinality facts are collected in `CountMove`, `SubsetCount` and `DataCounts`.
`ClosedIsFinal` is inductive relative to `TypeInv`: when a counter is zero no
thread of that group is alive (`NoHandleLeft`), so nobody can send, receive or
clone through that end (`ClosedStaysClosed`), and a `get` on an empty storage
cannot yield a value (`EmptyStaysEmpty`).

Under `StorageIsVecDeque`, for the plain channel: `NoLostSpaceCorrect`,
`QueueIsBacklogCorrect` and the refinement `FifoImplemented`
(`Spec => ImplementsFifo`). `NoLostSpace` needs more of the storage than the
contract says: a receive frees exactly one slot, which a `VecDeque` does and a
deque with expired entries does not (run `policy_expiry`). The refinement maps
`sent` and `got` to themselves and the counters to the two open ends (`TxOpen`,
`RxOpen`, `Ended`); it rests on `QueueIsBacklog` (what was accepted is what was
delivered followed by what is queued), by which a receive at the head of the queue
is the abstract FIFO's next message, and on `ClosedIsFinal` for the end of stream.

Under `StorageIsPolicyDeque`, for the policy channel, ordered or not, with messages
that expire at any time: `NothingInventedCorrect`, `AlwaysIsDeliveredCorrect` and
the action property `DeliversBestCorrect`.

*Argument.* The three are proved from one invariant, `PolicyInv`. `NothingInvented`
speaks of what was accepted and delivered only, and is not inductive: a message
delivered twice would have been in the queue twice, or in the queue and delivered.
`Ledger` therefore gives every message one place: unsent, in the hands of one
blocked sender, or accepted, and then in the queue or delivered, once. `Delivers`
is `AlwaysIsDelivered` in terms of the values of a state; its hard step is a push
that removes entries, where `TryPushFacts` says that only what gives way to the new
value is removed (`GivesWay`), and the new value is then the later one of the same
kind, or the removed one has expired or is optional. `DeliversBest` needs that the
queue of an ordered channel is sorted in every reachable state, since `get` takes
the first entry that has not expired and compares nothing.

### The async channel

`BaseChannelAsyncProofs`, for every storage with `StorageContract`: `TypeCorrect`,
`ClosedWakesAllCorrect`, `BooksAgreeCorrect`, `NoLostDataCorrect`, and under the
hypothesis `SlotsAreKept` also `NoLostSpaceCorrect`; for the channel over an
unordered policy deque `AlwaysInOrderCorrect`.

*Argument.* The two sides run the same code, so the invariant is one formula per
side. `BooksInv` says, besides the type, who owns a future (`OwnsFuture`), what
the history `clean` stands for (`CleanMeans`: the entries of a queue are exactly
the clients that sleep) and, as `SideInv`, that the queue and the set of ids hold
the same futures once each, that who sleeps in a future is queued, that in a clean
behaviour the pending ids are those of the woken futures, and that a side whose
other end is closed is empty. `BooksAgree` and `ClosedWakesAll` follow; without the
part on pending ids a dropped future could pass on a wakeup it never had. The wakeup theorems add `NoLost(sd)`,
relative to a `Demand` that is data for receivers and room for senders: the demand
is covered by clients on their way, or nobody sleeps. A dropped future is the
hard step: it was one of the clients on their way, and the wakeup it passes on
reaches the head of the queue, which by `CleanMeans` is a sleeping client.

`SlotsAreKept` excludes storages on which a push makes room, or a receive makes
room for several: single-copy values and expiry, for which the property fails (the
hazards list names both). TLC evaluates the hypothesis for the deque of the run
`async_channel` (`MCSlotsAreKept`), and `SlotsKeptWithoutSingle` below proves it of
every policy deque without single-copy values.

`AlwaysInOrder` compares the `Always` messages of two sequences (`AlwaysOf`), what was
accepted and what was delivered followed by what is queued, and is inductive with the
types of the histories (`InOrder`). A push removes entries at any place of the queue
and appends one: a pick that leaves out no `Always` message has the same ones in the
same order (`AlwaysThinned`, by composing the picks), also behind what was delivered
(`SparesBehind`), and appending to both sides keeps them equal (`AlwaysAppend`). A
receive moves the first entry over. The hypotheses are those the property needs: the
deque does not sort (`~Ordered`), and no single-copy or `Latest` message is of the
kind of an `Always` one (`NothingReplacesAlways`), for such a message would take its
place. `MCPolicyChannelAsync` has TLC evaluate them.

### The policy deque

`PolicyDequeProofs` and `DequeProofs`, for every capacity, set of values, and
assignment of policies, kinds and priorities: `TypeCorrect`, `ContiguousCorrect`, `ArrivalOrderCorrect`,
`SingleCopyCorrect`, the action property `NoSilentLossCorrect`, and of the deque as
a storage `DequeIsStorage` (it meets what `StorageContract` says, restated as
`DequeContract` for the deque's operators) and `SlotsKeptWithoutSingle`. By the first
of these two the theorems on both channel cores hold of the policy channels too.

*Argument.* `ArrangeFacts` says that ranks by a total order number the positions
from one without gap or repetition (a pigeonhole argument), so `retain` picks the
positions it keeps in increasing order (`Picks`, `RetainFacts`) and `sort_by` is a
permutation (`Reorders`, `SortFacts`). Then `TryPushCases`: a push leaves the deque
alone, or removes entries that give way (`Cleared`) and stores its value; when the
first removal does not make room it has removed nothing, so a refused value leaves
the deque as it was. The invariant `UseInv` adds two facts to the properties. A
value in the deque is there once and is not among those still to be pushed
(`Apart`, `fresh`); without it `stored` could not tell two entries apart
(`PresentIsPick`: picks from the same positions are equal, `PicksUnique`). And an
ordered deque fits the ring as it lies (`Fits`): a push makes it exceed by one at
most, and then the rotation moves the head back by one (`SortDeque`).

### Locks, cells, semaphore

`PiLockingProofs`, for every set of threads: `TypeCorrect`, `GuardsExcludeCorrect`
and the refinement `MonitorImplemented` (`Spec => ImplementsMonitor`), all three with
guards that are handed from thread to thread. That the futex word names the thread
with the guard is therefore no invariant. `GuardsExclude` says instead that there is
one guard at most and that the word is zero just when there is none, but for a mutex
that was stranded; its third part, that then nobody has a guard, is what makes it
inductive: only a zero word lets a thread in. The mapping is `Holder`, the thread with
a guard until it has registered as a waiter, and `Cond`. The rest of the invariant
counts: `waiters` is the number of threads between `WaitRegister` and
`WaitDeregister` (`WaitersCount`), so a notifier that loads zero has nobody to wake;
and the notifier has the one guard, so nobody starts to wait between its load and its
wake, which reaches at least as many as wait (`NotifierCounts`).

`CellProofs`, for every set of getters and secondary slots: `TypeCorrect`,
`NoLostValueCorrect`, `ExtrasStayCoupledCorrect`; the last is an action property,
proved per action from the type invariant.

`SemaphoreProofs`, for every finite set of clients and every capacity:
`TypeCorrect`, `PermitsAreGuardsCorrect`, `NoLostPermitCorrect`. The inductive
invariant is their conjunction: `count` is a natural number after a release because
the releasing guard is counted in it, and a client goes to sleep only when
`count = Capacity`, which leaves nothing to be on the way to.

### Tools

`ToolsProofs`: a behaviour of `Tools` uses one tool, so each theorem is about that
tool alone.

* `TtlHonouredCorrect` (action property): calls are sorted by what they hand out,
  nothing, the value of one cell or a pair, with one lemma for each. `Cells` is a
  pair, the most that one call concerns.
* `GuardsRestoreCorrect`: the property speaks of the innermost scope and becomes
  inductive with the bases: `Chain(B, ...)` says there are contents `B[1]` (the
  original ones), `B[2]`, ... and finally those of the files, such that each scope
  of the stack found `B[i]`, remembers what it has read of it (`Saved`) and has
  made `B[i + 1]` of it (`Effect`). A step of the innermost scope changes the last
  link, `apply` adds one, the end of a scope removes one (`ChainTop`, `ChainPush`,
  `ChainPop`).
* `IntervalKeepsPaceCorrect`: with `OnPace`, `next_tick` is never behind the passes
  made, by which an early call sleeps long enough; multiples of the period need the
  four facts of arithmetic at the head of that part.
* `ClosestIsNearestCorrect`: the keys of the map are keys, so its neighbours are
  the extremes of sets with a least and a greatest element, the wrapped
  subtraction is exact within reach, and the nearest event is unique.
* `BufferAccountsCorrect`: the values, numbered by their pushes, lie in increasing
  order through what left the buffer and what is in it, which `take` concatenates and
  `force_push` shifts by one; a new value exceeds them all.

*Assumptions.* The named `ASSUME`s of the modules: finite disjoint sets of threads,
`NoMsg` is no message, a capacity of at least one (asserted by the code),
`StorageContract`; for the semaphore a finite set of clients and any capacity; a
period of at least one (with zero the loop of `Skip` does not end); guards set at
least one file.

### Only model-checked

* Liveness under fairness (`channel_live`, and `pi_locking`'s "notifications end"),
  out of the prover's reach.
* `DeriveKeepsAttributes`: it says what folds over the attributes of a variant
  compute and keep apart for every sequence of attributes, an induction over data, which the prover
  cannot carry out either.

Every other invariant, action property and refinement that a passing run checks is
also a theorem.

## 5. Not modelled

`ops.rs` is an immutable value and changes no state. `thread_rt` is system calls
on kernel state the crate does not keep. Of the modelled components the read-only
accessors (`len`, `is_full`, `is_alive`, `available`, ...) are not actions, since
they change nothing; text conversions of policies, `fits`, `diff_abs` and
`num_cpus` are left out for the same reason. Timeouts of the blocking components
are abstract: one may happen at any time. `VecDeque::capacity()` is taken to be
the capacity asked for. Of the async channel: the move of a pending future to
another task, and messages that expire. Of the PI locks: notifications without the
mutex, and what the kernel does with a mutex whose thread exits. Of the derive macro:
the text of the generated code, hence whether it compiles.

## 6. Plan

1. *(done)* The sync channel core with both storages, its abstract FIFO, the policy
   deque, the PI locks with the abstract monitor, the cells, the semaphore; the
   first theorems.
2. *(done)* The async channel core over the policy deque, with dropped futures,
   timeouts and the blocking calls in the same queues; the stand-alone tools.
3. *(done)* Theorems: the wakeups of the plain and the async channel, the
   refinements of `BoundedFifo` and `Monitor`, the cells, four of the tools.
4. *(done)* Theorems about the policy deque, with `retain` and the sort described by
   ranks instead of by recursion, and that it is a storage of the kind the channels
   need.
5. *(done)* The policy channels, sync and async: `NothingInvented`,
   `AlwaysIsDelivered`, `DeliversBest` and `AlwaysInOrder` from the facts on
   `try_push` and `get` in `PolicyDequeProofs`; `BufferAccounts`.
