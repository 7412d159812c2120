# TLA+ models of the low-latency exercises

The repository is a collection of self-contained C++20 exercises from the world
of electronic trading: synchronisation primitives, lock-free queues, executors,
allocators, smart pointers, collectors, containers, order handling and the usual
algorithms. The `src/*.cpp` files of the exercises are stubs; the tested
reference code of each exercise is embedded in its `SOLUTION.md` (`README.md`,
"Status — practice mode"). The models are translated from that code and from
the headers under `include/`: an action stands for a body in `SOLUTION.md`, the
operator that collects the operations of a class for its declaration in the
header. `PROJECT.json` maps every definition to its lines.

Each exercise is a component of its own. They call nothing of each other; what
interacts are the threads inside one component (its callers, its workers, its
condition variables), the callbacks it makes, and the handles and guards that
the caller moves about. So there is one module per component, written at the
grain at which its actors can interleave: one action per atomic operation, per
critical section where a mutex makes it one, per call where the component is
for one thread, per turn of the loop where a call runs user code or where a
property speaks of the turns. Where the world outside matters (a feed that
loses messages, an exchange, the heap, the caller's clock) it is part of the
module and marked external.

## Inventory

State, operations, and what is hard about them.

| Component | State | Operations | Hard behaviour | What makes it correct |
|---|---|---|---|---|
| `mcs_lock` | `tail_`, and `next_`, `locked_` of each `Waiter` | `lock`, `unlock` | link written after the exchange; weak CAS; nodes reused | exclusion, FIFO, node free after `unlock`, nobody starves |
| `rw_spinlock` | `readers_`, `writer_` | `lock_read`, `unlock_read`, `lock_write`, `unlock_write` | store then load of the other's variable; memory orders | a writer is alone; a writer with the flag gets in |
| `spinlock` | `state_` | `lock`, `try_lock`, `unlock` | race for a free flag | exclusion, no livelock |
| `spin_barrier` | `count_`, `generation_` | `wait` | reuse while others still leave the last round | nobody passes early, all rounds complete |
| `semaphore` | `n_`, `cv_` | `acquire`, `try_acquire`, `release` | notification after the unlock | no token beside a sleeper, no wrap below zero |
| `seqlock` | `seq_`, `value_` | `read`, `write` | relaxed stores, stores seen late, retry | no torn read, no snapshot older than the last |
| `ring_buffer_spsc` | `head_`, `tail_`, `buffer_` | `try_push`, `try_pop`, `size`, `empty`, `full` | slot reuse; two loads in `size()` | FIFO of N - 1 places, no slot shared |
| `ring_buffer_mpmc` | `head_`, `tail_`, slots with `seq` | `push`, `try_pop` | claimed but unpublished slots; laps; capacity 1 | FIFO, each value once, capacity |
| `lockfree_stack` | `head_`, `retired_` | `push`, `try_pop`, destructor | stale `next`, ABA, double free | LIFO, a node in one place |
| `object_pool` | freelist, `live_`, handles | `acquire`, handle moves, `reset`, `release` | ABA on the freelist; move chains | a slot in one place, `live_` counts |
| `symbol_table` | `symbol_to_id_`, `id_to_symbol_`, `live_` | `intern`, `find`, `lookup`, `erase_symbol`, `erase_id`, `clear` | two tables kept in step; views that outlive a reallocation | inverse tables, ids not reused, views valid |
| `thread_pool` | `tasks_`, `shutting_down_`, `cv_` | `submit`, `worker_loop`, `shutdown` | lost wakeups, re-entrant tasks, two closers | each task once, `shutdown` completes |
| `serial_executor` | `tasks_`, `in_flight_`, `shutting_down_`, `cv_` | `submit`, `worker_loop`, `drain`, `shutdown` | one condition variable for two kinds of waiters | order, `drain` sees all, nothing stuck |
| `order_gateway` | `seen_` | `submit` | clock read outside the lock, unsigned age, window edges | one forward per window |
| `risk_gate` | packed `state_` | `check_and_reserve`, `release` | check-then-act, packing of a signed half | counters add up, limits hold |
| `order_state_machine` | `state_` | `transition` | racing reports | legal edges, an order ends once |
| `l2_order_book` | sides, `has_snapshot_`, sequence | `apply_snapshot`, `apply_update`, `checksum` | lost updates | the book is the exchange's book, or known not to be |
| `order_book` | `by_id_`, queues per price | `add_order`, `cancel_order`, `modify_order`, `market_order`, `clear` | two indexes over one set of orders | levels, queues and index agree, time priority |
| `matching_engine` | levels, `index_` | `add_order`, `cancel_order` | index entries of filled orders | uncrossed, quantity conserved, price-time priority |
| `ohlcv_aggregator` | current bucket, bars | `add_trade`, `roll` | leading, skipped and stale buckets | each bar is what its trades make it |
| `sequenced_stream` | `next_`, `buffer_` | `on_message`, `pending_gaps` | lost, repeated and reordered messages | released once, in sequence, and in the end |
| `timer_wheel` | `pq_`, `pending_`, `done_`, `now_` | `schedule`, `cancel`, `tick` | callbacks that schedule and cancel; clocks that go back | fires once, in time, not after `cancel` |
| `token_bucket` | `tokens_`, `last_refill_` | `try_acquire`, `advance` | bursts, clocks that go back | rate kept over every span |
| `arena_allocator` | chain of chunks | `allocate`, `allocate_all`, `rollback_to`, `reset`, `release` | alignment and padding at the end of a chunk | nothing overlaps |
| `memory_pool_allocator` | free list in the slots | `allocate`, `deallocate`, destructor | links overwritten by objects | a slot is free once or live; the destructor destroys the live |
| `unique_ptr` | `ptr_`, `deleter_` | `reset`, `release`, move, `swap`, destructor | the deleter must travel with the pointer | one owner, destroyed once, by its own deleter |
| `shared_ptr` | counts of the control block, handles | copy, move, `reset`, `lock`, destructors | racing counts; `lock` against the last owner | disposed once, block deleted once, neither early |
| `borrow_guards` | `readers_`, `writer_`, guards | `try_borrow`, `try_borrow_mut`, moves, destructors | moved-from guards, early release | readers or one writer, counted exactly |
| `loan_tokens` | `loans_`, `writer_`, `next_id_` | `borrow`, `borrow_mut`, `access`, `access_mut`, `repay` | tokens are values: copied, used after repayment, repaid twice, made up, changed in kind | tokens valid until repaid, a writer alone |
| `state_borrow` | `SBox`, `LockedBox`, handles | `borrow`, `borrow_mut`, `release`, moves | moving a box away from its handles | a writer alone, readers counted |
| `arena_gc`, `mark_sweep` | objects, `roots_`, guards | `allocate`, `root`, `collect`, `reset`, links | moved guards, `reset()` under a guard, cycles, addresses reused | free exactly what is unreachable (the arena: its dead tail) |
| `refcount_gc` | `nodes_`, counts | `make`, copies, moves, links, `lock`, `collect_cycles` | a drop inside a drop, while a vector shifts | what is held lives |
| `hash_map` | `nodes_`, `size_`, `tombstones_` | `insert`, `erase`, `find`, `at`, `[]`, `clear`, `reserve`, copies, moves | tombstones, growth, unsigned counts | it is a map |
| `lru_cache` | `order_`, `map_` | `get`, `put` | iterators kept across splices and evictions | what is cached is what was used last |
| `observer_market_data` | `slots_`, `next_id_` | `subscribe`, `unsubscribe`, `publish_*` | callbacks that change the list, that throw; two publishers | each event calls each observer that stays and wants it, once, and nobody else |
| `command_order_entry` | `orders_`, `log_` | the three commands, `submit`, `undo_last` | commands that do not apply | undo restores |
| `chain_risk` | links, `used_`, `allowed_` | `append`, `validate`, `allow_symbol`, `reset`, `clear` | notional charged before a later handler rejects | every accepted order within every limit |
| `tick_statistics`, `twap_vwap_slicer`, `position_tracker` | sums, schedules, positions | per message | rounding | sums add up |
| `dynamic_vector`, `priority_queue`, `varint_codec` | buffers | insert, grow, encode | throwing copies, boundaries | agree with a sequence, a sort, an inverse |
| `factory_orders`, `strategy_execution`, algorithms (6) | none | pure functions | | agree with a reference definition |

`PROJECT.json` lists all of them under `components`, with the reason for each
one that has no module, and the hazards at their lines under `hazards`.

## Modules

| Module | Models | Granularity and abstraction |
|---|---|---|
| `McsLock` | MCS lock | one action per atomic operation; a thread stands for its node; `WeakCasFails` says whether the weak CAS may fail spuriously; `ahead` is a history variable |
| `FifoLock` | contract of a queue lock | places in line |
| `RwSpinLock` | RWSpinLock | one action per atomic operation; `StoresLinger` lets the store of a read-modify-write be missed by loads of others until it settles or the thread's next store |
| `SpinLock`, `SpinBarrier` | the exercises of those names | one action per atomic operation; a spin loop is the step that leaves it |
| `Seqlock` | seqlock | one action per load or store; a reader loads, of each variable, some store no older than what it knows of, or, where `Ordered`, the latest |
| `Semaphore`, `ThreadPool`, `SerialExecutor` | the mutex-and-condition-variable components | one action per critical section; notifying, running a task and joining are separate; spurious wakeups |
| `SymbolTable` | symbol table | one action per critical section; a view is a symbol and the buffer of the vector it lies in |
| `SpscRingBuffer`, `MpmcQueue` | the ring buffers | one action per shared access; counters do not wrap (64 bits) |
| `BoundedFifo` | contract of a queue | a sequence |
| `LockFreeStack` | Treiber stack with a retired list; `LifoStep` is the contract | one action per shared access; `retire` is one action, because nobody pops from its list |
| `ObjectPool` | pool and RAII handles, and proofs | one action per atomic operation on the freelist |
| `SharedPtr` | `SharedPtr`, `WeakPtr`, control block | one action per atomic operation on a count; each thread has one handle of each kind and may take from another's |
| `UniquePtr` | `UniquePtr` and its array form | one action per member function |
| `BorrowGuards`, `LoanTokens`, `StateBorrow` | the three borrow checkers | one action per call, move or destructor; the caller makes only the calls that compile |
| `ArenaGc`, `MarkSweep` | the two tracing collectors | one action per call; an object has one outgoing handle |
| `RefcountGc` | the counting collector | `vector::erase` one move at a time, with the erasures that run inside each other |
| `ArenaAllocator` | bump allocator | machine words, over a heap that places chunks anywhere free |
| `PoolAllocator` | pool with a threaded free list | one action per call |
| `HashMap` | open addressing; `IsMap` is the contract | one action per call; hash is the identity, as for integers; `Wrap` stands for 2^64 |
| `LruCache` | LRU cache | one action per call; iterators are names of list nodes |
| `OrderGateway` | `submit` | clock read, then one action under the lock; ages are unsigned (`% Modulus`) |
| `RiskGate` | the CAS loops over the packed word, and proofs | `Half` stands for 2^32; packing and sign extension are computed |
| `OrderStateMachine` | `transition` | load and table lookup, CAS |
| `RiskChain`, `TokenBucket`, `CommandOrderEntry` | the exercises of those names | one action per call |
| `MarketDataFeed`, `TimerWheel` | publisher and timers | the snapshot, then one action per callback |
| `SequencedStream` | reorder buffer and its feed | one action per message; the feed loses, repeats and reorders |
| `L2Book` | L2 builder and its exchange | one action per snapshot, update or comparison of checksums |
| `OrderBook`, `MatchingEngine` | the two books | one action per call, one per resting order that is met |
| `OhlcvAggregator` | bars | one action per trade or `roll` |
| `MCLocks`, `MCExecutors`, `MCLibrary` | the components side by side, for TLC | see below; they hold the theorems about what their runs check |
| `LibraryProofs` | proofs: SPSC ring, gateway, state machine, limits, commands, ownership, collectors, pool allocator | |
| `ContainerProofs` | proofs: MPMC queue, stack, hash map, LRU cache, feed, timers | |
| `MarketProofs` | proofs: order book, matching engine, L2 book, bars | |

Definitions keep the names of the source (`tail_`, `try_pop` becomes
`PopLoadTail`, `PopRead`, `PopRetire`). Definitions under the comment `Mutant`
are wrong on purpose: each changes an operation the way a plausible slip in the
code would, and `PROJECT.json` pairs it with the property that then fails.

Three modules collect components for TLC: `MCLocks` (what waits, and what
threads share by counts), `MCExecutors` (both executors, and the MPMC queue with
one consumer, for delivery) and `MCLibrary` (the rest, where only safety is
promised). Each extends one component and instantiates the others over
variables of their own; the variable `active`, chosen initially, names the
component that a behaviour exercises, so the state space is the sum and not the
product of the components'. Some components appear twice with different
constants over the same variables (the MCS lock with and without spurious CAS
failures, the reader-writer lock with and without lingering stores, the seqlock
with stores in order and as written, the object pool with one thread or with
one handle per thread, the gateway fed by one thread).

## What the runs show

| Run | Configuration | Shows |
|---|---|---|
| `locks` | MCS lock and spin lock with 3 threads; 3 readers (2 with lingering stores) and 2 writers; 4 threads, 4 rounds on the barrier; 4 threads, 1 initial token and 3 releases on the semaphore; seqlock with 2 writes and 2 readers, or with weak stores 3 writes and 1 reader; 2 symbols, 3 ids; 2 threads and 2 control blocks; a stream of 4 messages | exclusion, FIFO refinement, reusable nodes, barrier rendezvous, announced tokens, two-way tables whose ids are never reused, counted ownership, snapshots in order, release in sequence; `lock()` of MCS starves nobody, writers with the flag enter, rounds complete, sleepers are served, what waits behind a gap is delivered |
| `executors` | serial executor with 2 submitters, 1 drainer, 1 closer, 3 tasks; pool with 3 workers, 2 submitters, 2 closers, 3 tasks; MPMC ring of 2 slots, 2 producers, 1 consumer | each task once (and in order), `drain()` and `shutdown()` keep their promise, tasks complete, `shutdown()` returns; every MPMC value is delivered |
| `library` | SPSC ring of 4 slots and 7 pushes; MPMC ring of 2 slots, 2 producers with 2 pushes each, 2 consumers; stack with 3 threads, 3 nodes; pool of 3 slots, 1 thread with 3 handles or 2 threads with 1; the other components as under "Bounds" | FIFO and LIFO, each value once, no shared slot; one forward per window (one thread); counters and limits; legal edges, one end; callbacks once; books, bars, containers and free lists exact; one owner, writers alone; collected exactly what is dead; undo restores |
| `object_pool_aba` | 2 threads with 2 handles each, 2 slots | a finding: ABA on the freelist |
| `gateway_race` | 2 threads | a finding: an id forwarded twice in a window |
| `serial_drain_steals` | as `executors`, fair | a finding: a task stays queued |
| `mpmc_capacity_one` | 1 producer, 1 consumer, capacity 1 | a finding: capacity 1 overwrites |
| `rw_weak_order` | 1 reader, 1 writer, lingering stores | a finding: reader and writer overlap |
| `refcount_cascade` | 3 nodes, 3 handles | a finding: an erasure inside an erasure destroys a node that is held |
| `symbol_views` | 2 symbols, 3 ids | a finding: a view dangles without `clear()` |
| `hash_map_copy` | 3 keys that collide, copies of tables with tombstones | a finding: a copy does not find what it holds |
| `arena_heap` | chunks of 8 words, headers of 3 | a finding: allocations lie outside the chunk |

### Bounds

Races in these components involve a thread that stands still and one or two
others that go past it: three lockers give a queue with a head, a middle and a
tail; three stack threads are what it takes to pop, push something else and push
the first node back; the rings are wrapped (SPSC: 7 pushes into 4 slots, MPMC: 4
into 2), so that every slot is reused; 4 rounds of the barrier reuse the count
three times; the gateway's clock runs over twice the window, which makes an
entry age through the boundary and beyond; 3 writes pass a slow seqlock reader
twice; with 4 messages a stream has a gap, something parked behind it, and a
duplicate of each.

The sequential components are run through every sequence of calls that the
bounds allow, and the bounds are set where a further element would repeat a
case: of the hash map's keys 0, 3 and 4, two share a bucket and push the
third on at capacity 2 and 4, and at 8 they have buckets of their own, so chains
run over tombstones and growth breaks them up; the LRU
cache of 2 places meets 4 keys; the pool allocator has 4 slots; 3 orders give a
level with two orders, an aggressor and a second price; the bars take trades at
times 0, 1, 3, 6 with buckets of 2, which gives a bucket shared, skipped and
stale, and 2 rolls; 3 observers of one symbol or of all, 2 symbols and 2 publishers,
each observer free to unsubscribe itself or another; 3 timers and 2 ticks, so that a callback's new
timer can still fire; 2 ids and a log of 4 commands; limits of 2, 2 and 4 in the
risk chain; a bucket of 3 tokens over 5 ticks; 3 unique handles, 3 objects and 2
deleters; 2 boxes with 2 readers and 2 writers, and counts of up to 2
moved along with an `SBox` (`MaxCarried`); 5 loans, with every id up to that
presented as either kind; 4 arena objects in 3
slots and 3 addresses for mark and sweep, enough for a cycle and for an address
that is used again. Where a theorem exists, the bound does not matter.

### Fairness

A thread that is inside a call is scheduled: weak fairness of its steps, which
any preemptive scheduler provides. Critical sections and tasks end. Nobody is
obliged to make a call: there is no fairness on `Arm`, `Enqueue`, `DrainCall`,
`Shutdown`, `AcquireCall`, and no reliance on spurious wakeups. For the MPMC
queue producers push what they have, consumers keep polling, and the two CAS
operations are strongly fair: a weak CAS on a position that keeps being current
succeeds in the end. Lingering stores arrive (weak fairness of `Settle`). The
barrier assumes that every party keeps coming, which is its use. The stream
assumes of the feed that it answers a reported gap (weak fairness of
`SendAgain`) and that a message that is sent again and again gets through
(strong fairness of `on_message`); it may lose each of them any number of times.

Not claimed, since the code does not promise it: that one particular thread
gets the spin lock, that one particular `push` or `try_pop` of the lock-free
structures finishes, that a reader gets in past a stream of writers, that a
seqlock read ends while the writer keeps writing.

## Findings

Each is a run with expected violation and an entry under `findings`.

- `ObjectPool::acquire` compares only the address of the head: with recycled
  slots the CAS succeeds although the list behind the head has changed, and an
  object in use is handed out again.
- `OrderGateway::submit` reads the clock before it takes the lock: a stamp
  older than the entry in the map gives a wrapped age, and the id is forwarded
  a second time.
- `SerialExecutor` uses `notify_one` on a condition variable on which `drain()`
  sleeps too: the notification can go to the drainer and the task stays queued.
- `MpmcQueue` with capacity 1: a filled slot has the sequence number of a free
  one. The constructor accepts 1.
- `RWSpinLock`: the orders requested do not order a store before a following
  load, so a reader and a writer may miss each other. On x86, where every
  read-modify-write is a full barrier, the run `locks` shows exclusion.
- `RcHeap::destroy_now` erases from the vector of nodes; the node that is
  destroyed on the way drops its own `RcPtr` and erases again in the vector that
  is being shifted, and the outer shift then destroys a node that is held.
- `SymbolTable::lookup` returns a view of a string in a vector that a later
  `intern` may reallocate; the header promises the view until `clear()`.
- `HashMap`'s copy leaves the tombstones out and the pairs in their places: a
  walk that crossed a tombstone ends early in the copy.
- `Arena::allocate` makes chunks with `new Block{...}`, which is the header only,
  and hands out the bytes behind it, where the heap may put something else.

Observations that have no run:

- `ThreadPool::shutdown` called while another call is in progress returns at
  once, before queued tasks have run; `ShutdownsRunAll` is therefore about
  the call that set the flag.
- `McsLock::unlock` tries a weak CAS once. A spurious failure sends it to wait
  for a successor that need not exist; the unlock part of `McsProgress` is
  checked for a CAS that fails only for a reason. Its `LockAcquires` part holds
  in both cases.
- `RiskGate::release` of a sell can leave the position of the remaining buys
  above the limit: `RiskAccounts` says so (through `LimitsHold`).
- `OrderStateMachine`: of two racing transitions both may succeed, one after the
  other, where the table allows it; the comments speak of exactly one winner.
  What holds is `MachineEndsOnce`.
- `LoanBox::access_mut` (`memory/06_loan_tokens/SOLUTION.md:92-98`) looks at the
  kind in the token and not at the kind in the record: the id of a live shared
  loan, presented as `{id, mut = true}`, resolves for writing beside the readers.
  `SOLUTION.md:49-50` says of `access` and `access_mut` that "a dead, unknown, or
  kind-mismatched token throws". `TokensExclude` lets the caller present every
  token, and states that this is the only one that gets past the rule.
- `ArenaGcHeap::reset` may be called while guards hold objects, as
  `test_arena_gc.cpp:114-127` does; `SOLUTION.md:95` says of a guard "live while
  guarded". The guard keeps a slot number that later names another object, and
  when it ends, or is assigned to, it takes away a registration of that slot that
  is not its own: the object of another guard is then collected. Even
  `r = heap.root(b)` into such a guard `r` can lose the registration that it has
  just made. The model has `reset()` at any time; `stale` are the guards from
  before it and `robbed` the slots of which one of them took a registration, and
  `GuardsHold` speaks of all other guards and slots.
- `SBox`: the defaulted move of a box with readers copies the count and leaves it
  behind as well. The handles go on naming the old box, so the count in the new
  one never falls, and its `borrow_mut` throws for ever. `ReadersCounted` says
  how much of a count was brought along (`carried`). Assigning to a box whose
  handles are still out, or whose object is still read, loses their count, and
  `borrow_mut` then succeeds beside a reader; and `LockedBox::release` takes any
  `SMut`, also that of another lock. Nothing in the documents rules these two out;
  `Disciplined` keeps the caller of `StateBorrow` from them, and `WritersAlone`
  is claimed for such callers only.
- `ObjectPool::live_` changes with the CAS of the freelist in the model; in the
  code it follows one step later. Only the destructor reads it, when all calls
  have ended. `LockFreeStack::retire` is one step for its loop: nobody pops from
  that list before the destructor.
- `PoolAllocator` and `LruCache` are modelled from a capacity of 1 up, and a
  risk handler is appended at most once, since `clear()` leaves its link set.
- `OhlcvAggregator`: times are not negative; the division that finds the bucket
  rounds toward zero.
- `HashMap::clear` sets `tombstones_` to zero and leaves the tombstones in the
  slots, so the count may wrap below zero when one is used again. `HashMap`
  computes it (`Wrap`); the map stays correct.
- `Arena::reset` keeps the oldest chunk only, so `capacity()` shrinks while
  `block_count_` stays.
- `RcRooted` does not keep its node from dropping to zero; the comment at
  `memory/10_refcount_gc/SOLUTION.md:379` says "The root pins the node".

## What is proved

All proofs are checked by TLAPS; a theorem holds for every value of the constants
that satisfies the assumptions named in it or in its module. The theorems of
`MCLocks`, `MCExecutors` and `MCLibrary` are about the specification
(`MCSpec`) and the properties that the runs check, so that the run shows on a
small instance what the theorem states of all.

How the proofs are arranged. The inductive invariant of a component (`IInv`, with
its named parts and, as `Sized`, `Apart` or `RolesApart`, what it needs of the
constants) is in the component's module, after the properties; TLC can check it there.
Each component has three kinds of lemma: one that the action keeps the invariant
for each action (`...Keeps`), one that puts them together (`...Inductive`), and
`...InitHolds` or `...Init`; where the property is not a part of the invariant, `...Implied` gets
it. `MCLocks`, `LibraryProofs`, `ContainerProofs` and `MarketProofs` prove them of
the instances that the runs exercise (`Sem!IInv`, `Arena!IInv`), under the prefix of
the instance. `OneActs` then says that a step of `MCSpec` is a step or a stutter of
every component, and a theorem combines the lemmas with PTL. `ObjectPool` and
`RiskGate` hold their proofs themselves, since they have theorems of their own.

### Locks and shared objects (`MCLocks`)

- MCS lock (`Null` is no thread; any threads, with or without spurious CAS
  failures): `Invariance`, `Exclusion`, `Reusable`, `ImplementsFifo`. Exclusion is
  not inductive by itself: it does not say that the flag a spinner sees cleared
  was cleared by the thread directly before it. `IInv` ties the pointers to the
  order of the exchanges (`ahead`): the queue is linearly ordered, `tail_` is its
  last element, each link that exists or is about to be written joins neighbours,
  whoever owns or has been handed the lock has nobody ahead, and a node is armed
  before it is published. The refinement of `FifoLock` uses the mapping `Phase`.
- `LocksExclude` (`SpinLocksExclude`; finitely many readers, readers and writers
  apart): the spin lock's flag is set while somebody is inside. For the
  reader-writer lock `FlagInv` (the flag is taken by CAS only) holds with
  lingering stores too, and so does `Counting` (`readers_` is the number of readers
  between their two operations on it); `Drained`, that a writer inside has seen
  the readers leave, needs that stores do not linger, which is the finding
  `rw_weak_order`.
- `BarrierHolds` (`BarrierRendezvous`; finitely many parties, at least one): the
  invariant counts those who stand in the open round against `count_`, says for
  each program counter how far its thread has come, and that the last arriver,
  who resets and releases, is alone in doing so and has everybody behind it.
  `BarrierMissing` makes reuse safe: a thread that has not arrived keeps the
  round open.
- `TokensHold` (`SemaphoreTokensAnnounced`; finitely many threads): the tokens
  that are there are at most those who come for them, awake in `acquire()` or
  with a notification under way. It is inductive with the bound on `n_`.
- `SymbolsHold` (`SymbolIdsStable`): the invariant is that the two tables agree, that the
  two vectors have one length and that ids lie within it; that no id is reused until
  `clear()` is an action property of every step from it (`IdsKept`).
- `OwnershipHolds` (`SharedOwnership`; finitely many threads): each count is the
  number of handles and of calls in progress that contribute to it, and the one
  who takes a count to zero is the only one to dispose or delete.
- `SequenceHolds` (`StreamInSequence`): inductive with the types, as what is parked
  is ahead of `next_`.
- `SnapshotsHold` (`SeqlockSnapshots`, of the instance with any readers, any number
  of writes and any order of stores): what a reader knows of is in the past, `seq_` is twice the number of the payload and odd
  while it is replaced, and a read under way has an even count and a payload no
  older than that.

### Executors (`MCExecutors`)

- `ExecutorsRunOnce` (`TasksRunOnce`), `ExecutorsShutDown` (`ShutdownsRunAll`),
  `Drains` (`DrainSeesAll`): the workers of the pool are finitely many and the
  roles of threads apart (`RolesApart`, `RolesAssumption`). The invariant places
  every accepted task in the queue, in a worker's hands or among those run, in
  this order for the serial executor, counts `in_flight_`, and says what a worker
  that has left found: the flag set and the queue empty.

### Queues, stack, pool, gateways, limits (`ContainerProofs`, `ObjectPool`, `RiskGate`, `LibraryProofs`, `MCLibrary`)

- SPSC ring (N positive, `NoValue` no value): `Invariance`, `NoRace`, `SizeSafe`,
  and `Refinement` of `BoundedFifo` with N - 1 places. `IInv` relates the counters
  to the room each side has been promised by its check, the slot being published
  or returned to its content, and an observer's two loads to the counters.
  `IndexInjective`: counters less than N apart have different slots.
- `QueueDelivers` (`MpmcDeliversInOrder`; capacity of at least two, which the
  finding `mpmc_capacity_one` shows to be needed): the sequence number of a cell says
  which position it serves and how far that has come (`Slots`), what a thread saw
  when it looked still holds as long as the counter it compares has not moved
  (`Pushing`, `Popping`), and a position is claimed by one thread (`Claims`).
- `StackSafe` (`StackNodesSafe`), `StackRefines` (`StackImplementsLifo`): the list
  from `head_` is a sequence without repetition (`IsList`), every node is on it,
  retired or in one thread's hands (`Placed`), and a node that `try_pop()` has
  loaded was published, so its link is not written any more (`Loaded`).
- `PoolHolds` (`PoolSlotsSafe`, from `ObjectPool`'s `PoolSafe`; any number of
  slots, and either one thread with any handles or two threads with one handle
  each, `Modest`; the finding `object_pool_aba` shows that more breaks it): the
  free list is a chain of the slots that no handle owns and that were not given
  away (`Listed`). Why the CAS of `acquire()`, which compares an address only, is
  right there is `Seen`: a slot that `acquire()` has loaded is free with the link
  it read, or given away and never back, or in the one handle of the other
  thread, which can return it only onto the list it was taken from (`Borrowed`).
- `GatewayHolds` (`GatewayDeduplicates`; the clock and the window stay below the
  modulus): a stamp in the map is that of the last forward, at most a window
  before the last call; with one thread, an id that is not in the map was
  forwarded more than a window ago (`Ordered`). That an id is forwarded once in a window is proved for one feeding
  thread; the finding `gateway_race` shows that two break it.
- `MachineHolds` (`MachineEndsOnce`): the edge that a thread is about to commit was
  legal from the state its CAS compares.
- `RiskHolds` (`RiskAccounts`, from `RiskGate`'s `GateHolds`): both halves of the
  word are the sums over the reservations in force. The assumption `Sized` is that
  all tickets together fit the halves (otherwise the position wraps) and that the
  limit is below `Half`; `TicketsFit` states it and TLC evaluates it. Sums over
  finite sets are related to `SumFunctionOnSet` by lemmas of the module.
- `LimitsHold` (`LimitsKept`): for the chain, that handlers linked by `append` are
  those that a walk from the head meets, and that `used_` covers what is booked;
  for the bucket, that over every span the tokens acquired and those still in the
  bucket are at most the burst and the refill (`Filled`).
- `UndoHolds` (`UndoRestores`): each command in the log led from the repository
  before it to the one after it (`Applied`), so it has what its undo needs.

### Ownership and collection (`LibraryProofs`, `MCLibrary`)

- `BorrowsHold` (`BorrowsExclude`; finitely many references, and of the caller of
  `SBox` what `Disciplined` says): each box's count is the number of its guards,
  through moves onto a guard that holds something, and for an `SBox` what was
  carried along besides (`Counted` ties a reader to the box that counts it). Of
  the tokens: a record is there exactly while its token is issued and not repaid,
  and a record of a writer is alone, whatever is presented.
- `OwnersKept` (`OwnersHold`; finitely many guards and addresses): one handle per
  object, with the deleter made for it; what a guard holds is allocated, because
  `roots_` counts the guards of each object exactly, in the arena those made
  since the last `reset()`, in slots that no older guard took a registration of
  (`RootsCounted`). Nothing is assumed of when `reset()` is called.
- `CollectorsExact` (`CollectsExactly`): from the registered roots, whoever
  registered them, the marking is the set of the reachable objects
  (`MarkIsReachable`), the sweep removes the rest, the arena the tail after `Kept`;
  the destructor of the pool destroys the slots not on its list.
- `FreeListWhole`: the free list of `PoolAllocator` is a chain that has every slot
  not handed out, once (`FreeListExact`, a part of `ContainersExact`). The lemmas
  about chains are those of `ObjectPool`.

### Callbacks (`ContainerProofs`, `MCLibrary`)

`CallbacksHold` (`CallbacksOnce`; any publishers and symbols, any bound on observers,
events, timers and ticks).

- The feed: `slots_` and every publisher's copy of it are in the order of their ids
  (`SlotsOk`, `CopyOk`), and what is left of a copy comes after what was called; so an
  observer is called once and in order although others unsubscribe it meanwhile.
  That nobody is missed is `Owed`: a slot that was there when the publish began is
  called or still in the copy. `Filtered` adds that everybody who was called wants
  the symbol. `FanOut` alone speaks only of the publish that ends.
- The timers: `Waiting` says where a timer is. It is in the queue, in the snapshot that
  `tick()` walks, or done; a timer in the queue that is due was scheduled by a callback
  of this very `tick()`. `Settled` counts the firings: one, unless cancelled.

### Market data and books (`MarketProofs`, `MCLibrary`)

`MarketHolds` (`MarketViewsExact`; finitely many prices, which are integers, natural
quantities, times that are not negative, buckets of positive length; any ids, and any
number of orders, trades and rolls).

- `OrderBook`: index and queues hold the same orders at the same price (`Agree`), each
  queue in the order of the stamps. `market_order` walks the best level while it shrinks.
- `MatchingEngine`: `Accounts` gives of every order that came the sum of what was
  filled, taken back, what rests and what the match loop still works on; `Queues` ties
  queues, index and arrival; the book is `Uncrossed` also between two fills, since the
  aggressor is not in it before it has met the last order it crosses.
- `OhlcvAggregator`: `OpenExact` says that the open bar and every completed one are
  the reference bar over the tape of trades (`Done`), with the rolls that moved bars
  on, and that no trade on the tape is later than the open bucket (`Within`), so that a
  completed bar does not change any more. The reference volume is a running sum over
  the tape (`Volumes`), a recursive function whose existence is a lemma.
- `L2Book`: `InStep` is inductive.

### Containers (`ContainerProofs`, `LibraryProofs`, `MCLibrary`)

- `ContainersHold` (`ContainersExact`; keys are naturals, and so their own hash; the
  marks of empty and erased slots differ and are no pairs). The hash map's invariant is
  `Good`: a key is in one slot (`Once`), and the walk from its bucket to that slot
  passes no empty one (`Chained`). Erasing leaves a tombstone and keeps it; growth
  places the pairs one after the other, and each round of that (`place`) keeps it too,
  because a table with room has an empty slot on every walk. The theorem is about tables that are
  copied without tombstones in them; the finding `hash_map_copy` shows the others. The LRU
  list is the end of the order in which keys were used (`Aligned`), and the map leads to
  its nodes (`Mapped`).
- `MapRefines` (`HashMapIsMap`): from `Good`, what `find()` tells of all keys changes by
  one key set or dropped, or by all dropped.

Facts about recursively defined data (a walk along links, the rounds of a marking, a
rehash, a sum) are proved by minimal counterexample: the least n for which the fact
fails exists by `WFMin` over the naturals, and the step from n - 1 refutes it. The
induction theorems themselves take an operator as parameter and cannot be used.

Every safety property that a passing run checks is stated by a theorem. Only
model-checked: the liveness properties, since liveness under fairness and ENABLED are
beyond the prover.

## Not modelled

- `tick_statistics`, `twap_vwap_slicer`, `position_tracker`, `strategy_execution`:
  the questions are about rounding in `double`, which TLA+'s integers do not have.
- `dynamic_vector`: the questions are about C++ value semantics (throwing copies
  and moves), not about state a model would keep.
- `priority_queue`, `varint_codec` and the algorithms: pure functions of a whole
  input, without state between calls; what a recursion computes for every input
  is an induction the prover cannot do, and bounded inputs are what the tests
  compare with brute force already.
- `factory_orders`: creates a value by its tag. Build files, tests, benchmarks.

Abstracted everywhere: values of template parameters, exceptions and futures
(kept by `std::packaged_task`), formatting, the timing of backoff, memory orders
except in `RwSpinLock` and `Seqlock`. Functions that only read (`size()`,
`count()`, `pending()`) are actions only where two of their loads can disagree.

What is left of the plan: `RefcountGc` and `ArenaAllocator` appear in runs that show
a finding only, so nothing is proved of the use that is left when one keeps clear of
it; and the exercises named above.
