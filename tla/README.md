# Formal model of nsqueue's SPSC queue

TLA+ modules, TLC models and TLAPS proofs for `nsqueue::spsc_queue<T, N>`
(`src/include/spsc_queue.h`). This is a header-only lock-free ring buffer for
one producer thread and one consumer thread.

## The system

| part | code | state | operations |
|---|---|---|---|
| producer side | `emplace` 40-54, `force_emplace` 56-67, `push`/`force_push` 69-71 | `writer_.writeIndex_` (atomic), `writer_.readIndexCache_` (plain, producer-private) | load own index, test cached read index, reload `readIndex_` (acquire), placement-new the slot, store `writeIndex_` (relaxed) |
| consumer side | `pop(T&)` 99-115, `pop()` 117-131, `force_pop(T&)` 73-85, `force_pop()` 87-97, `consume_one` 133-150, `consume_all` 152-158, `consume_n` 160-168 | `reader_.readIndex_` (atomic), `reader_.writeIndexCache_` (plain, consumer-private) | load own index, test cached write index, reload `writeIndex_` (acquire), move the value out (not for `pop()`/`force_pop()`), store `readIndex_` (relaxed; release in `consume_one`) |
| reset | `reset` 202-207 | all four indices | zero the caches, then the two atomics |
| observers | `full`, `size`, `empty`, `read_available`, `front`, `capacity` 170-200 | none | two acquire loads, or `mask_`; callable from any thread |
| storage | `storage_bytes`, `use_heap` 26-27, `queue_storage` 215-232 | the slot array `items_` | compile-time choice of inline or heap storage |
| baseline | `mutex_queue` (`src/unnamed/part_001`) | `std::queue` + mutex + condvar | benchmark baseline, not part of the library |

The two threads share the slot array and the two atomic indices. Each thread
writes only its own index and its own cache. The ring holds N slots and at most
N-1 values; the indices advance by `& mask_`.

What makes the queue hard to get right:

- the interleaving of the two threads' steps;
- cached indices that may be old when they are used;
- wraparound;
- the spinning `force_` operations;
- the memory orderings of the two index stores, which are relaxed except in
  `consume_one`.

## Modules

- **`SPSCQueue`** is the queue itself.
  - Each thread has a program counter. Each operation is split at its
    accesses to shared memory:
    - producer: `PCall`, `PRefresh`, `PConstruct`, `PPublish`;
    - consumer: `CCall`/`CConsumeN`, `CCheck`, `CRefresh`, `CMove`,
      `CPublish`.
  - `pOp`/`cOp` record which operation is running, which decides what a
    failed test does (`OnFull`, `OnEmpty`) and whether a value is moved out
    (`Takers`).
  - The locals `writeIdx`/`nextWriteIdx`/`readIdx` of the code are `pNext`
    and `cIdx`.
  - `consume_all`/`consume_n` reuse the `consume_one` steps with a counter
    `cnt` and a limit `cLimit` (`AfterPublish`).
  - `Reset` zeroes the indices while both threads are idle.
  - Two constants model what a build may do with the relaxed stores:
    - `ProducerReorder`: the constructed value sits in `pending` and reaches
      its slot only by a later `Propagate` step, possibly after `writeIndex_`
      has been published.
    - `ConsumerReorder`: `pop(T&)`/`force_pop(T&)` may store `readIndex_`
      (`CPublishEarly`) before moving the value out (`CLateMove`).
  - Data is abstracted: the producer pushes 1, 2, ..., MaxPush (as the
    stress test does) and an empty slot holds `Nil`.
- **`BoundedFIFO`** is the contract: a FIFO of capacity `Cap` with
  `Enqueue`, `Take` (a value handed to the consumer), `Discard` (`pop()`) and
  `Clear` (`reset`).
- **`StorageSelection`** is the compile-time storage choice as a function of
  N.
- **`SPSCObserver`** adds the observers `full`, `size` and `empty` to
  `SPSCQueue`:
  - `OCall` is the call and the first acquire load. `OSecond` is the second
    load. `OReturn` is the return.
  - `full`/`size` load `writeIndex_` first. The two operands of `==` in
    `empty` are unsequenced, so either order is allowed (`LoadOrders`).
  - The constant `Callers` says which threads call observers. A producer or
    consumer inside an observer takes no queue step (`Busy`).
  - The history variable `oSeen` collects the FIFO lengths seen since the
    first load.
  - `capacity()` is `mask_`, the definition `capacity` of `SPSCQueue`.
- **`MutexQueue`** is the `mutex_queue` baseline (`src/unnamed/part_001`).
  - Its state: `q` is `q_`, and `m` is the holder of `m_`. `waitSet` is the
    set of threads blocked in `cv_.wait`.
  - `Push` is the critical section of `push`, and `Notify` is the
    `notify_one` after the unlock.
  - A consumer runs `Lock`, then `Test`, which tests the predicate under
    `m_`. A true test takes the front and pops it. A false one blocks:
    `cv_.wait` releases `m_` atomically.
  - `Spurious` is a wakeup without a notify. `Reacquire` takes `m_` back
    before the next test.
  - The stored `capacity_` is never read, so the model has no capacity.
  - `QueueRefinement` maps it to `BoundedFIFO`, with `Cap` = MaxPush.
- **`MCSPSCQueue`** and **`MCSPSCObserver`** instantiate `SPSCQueue` for TLC: it supplies the sets of
  consumer operations.
- **`SPSCQueueProofs`**, **`ObserverProofs`**, **`MutexQueueProofs`**,
  **`QueueRefinementProofs`** and **`OrderProofs`** hold the TLAPS proofs.

## Runs

| run | bounds | checks | result |
|---|---|---|---|
| `core_sc` | N=4, 5 pushes, all consumer ops, `consume_n` with 0 and 2, late move-out allowed | `TypeOK`, `QueueRefinement`, `NoSpuriousFailure` | pass |
| `core_weak` | N=4, 4 pushes, both reorderings | `CachedIndicesConservative` | pass |
| `liveness` | N=2, 3 pushes, `consume_n` with 0 and 2 | `Drains` | pass |
| `stale_read` | N=4, 4 pushes, producer reordering | `InOrder` | **violated** |
| `in_order` | N=4, 4 pushes, consumer reordering only | `InOrder` | pass |
| `slot_lifetime` | N=4, 6 pushes, `pop()`/`force_pop()` only | `SlotLifetime` | **violated** |
| `storage_placement` | N in {2, 1024, 4096, 8192} | `HeapExactlyWhenLarge` | **violated** |
| `static_assert` | N in 0..9 | `PowerOfTwoEnforced` | **violated** |
| `observer_own` | N=4, 4 pushes, producer reordering, observers called by the producer and the consumer | `ObserverLinearizable` | pass |
| `observer_other` | N=4, 4 pushes, observers called by a third thread | `ObserverLinearizable` | **violated** |
| `mutex_queue` | 2 consumers, 3 pushes, all three consumer ops | `QueueRefinement`, `Drains` (of `MutexQueue`) | pass |

The properties:

- `QueueRefinement`: the queue implements `BoundedFIFO` with capacity N-1.
  - The mapping reads the FIFO from the live slots between `readIndex` and
    `writeIndex`.
  - The value a late move-out has not yet taken counts as already taken.
- `NoSpuriousFailure`: a try-operation (`emplace`, `pop`, `consume_one`)
  returns false only when the queue, at its reload, was really full (N-1
  values) or really empty.
- `CachedIndicesConservative`: in the ring order, the producer's cached read
  index never runs ahead of `readIndex_`, and the consumer's cached write
  index never runs ahead of `writeIndex_`.
- `Drains`: eventually the producer has pushed all MaxPush values and the
  ring stays empty (`readIndex_ = writeIndex_`) from then on. It says nothing
  about the threads' program counters. The run includes `consume_n(f, 0)`,
  which returns at once and must not stall the drain.
- `InOrder`: the consumer receives pushed values, each once, in order. This
  is the stress test's check.
- `ObserverLinearizable`: the answer of `size`/`full`/`empty` is the
  answer for a length the FIFO had at some moment between the observer's
  first load and its return.
- `PowerOfTwoEnforced`: the `static_assert` of line 25 admits exactly the
  powers of two. `mask` is `N - 1` in a `size_t` of `SizeWidth` bits.
- For `mutex_queue`:
  - `QueueRefinement` says it implements the FIFO.
  - `Drains` says every pushed value is eventually dequeued. This holds even
    though `notify_one` runs after the unlock and may find no waiter, a
    waiter may wake spuriously, and there are several consumers.
- `SlotLifetime`: a slot holds a live object only while it is between
  `readIndex_` and `writeIndex_`.

Bounds:

- N=4 wraps the ring several times within 4-6 pushes, and reaches full,
  empty and every cached-index lag.
- Two values in flight are enough for every interleaving of a thread's steps
  with the other thread's.
- `liveness` uses N=2 to keep the fairness check small. With N=2 the
  capacity is 1, so every push meets the full queue.
- `observer_own` needs producer reordering: without it no `Propagate` step
  happens during an observer. Four pushes let both loads of an observer
  straddle a wraparound.
- `mutex_queue`: two consumers can both be in the wait set when one
  notification arrives. Three pushes give a notify that finds no waiter,
  one that finds two, and a spurious wakeup to an empty queue.

Fairness:

- Weak fairness on each thread's next-state action. Each thread is an OS
  thread that keeps being scheduled.
- Weak fairness on `Propagate`: a store eventually becomes visible.
- `mutex_queue`: strong fairness on the producer and on each consumer.
  Taking `m_` is enabled only while nobody holds it, so weak fairness would
  allow a thread to starve at the mutex. The model assumes the OS mutex
  eventually grants a thread that keeps asking for it. Spurious wakeups are
  not fair. A waiter leaves the wait set only through a notify.
- Nothing else is fair. In particular, `Reset` and starting a new operation
  are not forced.

## Findings

1. **Relaxed publication** (`stale_read`). `writeIndex_` is stored relaxed
   (lines 51, 66), so nothing orders the slot's construction before it. On a
   build that reorders them, the consumer reads a slot that has not been
   constructed yet. The fix is a release store.
2. **Objects never destroyed** (`slot_lifetime`). `pop()`/`force_pop()` only
   advance `readIndex_`, and `reset()` abandons the queue's contents. The next
   `emplace` placement-news over a live `T` (line 50), leaking what it owns.
3. **Inverted storage choice** (`storage_placement`). The specialisation for
   `heap == true` is the inline `std::array`. A queue over 512 KiB is placed
   inline (on the stack for a local queue), and small queues on the heap. This
   is the opposite of what the README says.

4. **Observers from a third thread** (`observer_other`). `size()` loads
   `writeIndex_` and later `readIndex_` (lines 178-179). Between the two
   loads the producer pushes and the consumer pops. From an empty queue
   (w=0, r=1), `size()` then returns N-1: the queue never held that many.
   Spec section 4.7 calls the answer a momentary snapshot, and section 5
   says the queue has exactly two participant threads, so a third caller is
   outside the contract the spec states (a spec gap, not a code bug). That holds only
   when the producer or the consumer calls it (`observer_own`, and the
   theorem below).
5. **`static_assert` admits N=0** (`static_assert`). `0 & (0 - 1)` is 0. With
   N=0, `mask_` is `SIZE_MAX` and the ring has no slots. N=1 passes too. It
   is a power of two, but its capacity is 0, so every `emplace` fails.

Also noted:

- `front()` uses `reader_.readIdx_`, which does not exist, so it does not
  compile when it is used.
- Line 15 tests `_cpp_lib_hardware_interference_size`, one underscore short
  of the feature macro. So the cache line size is always 64.
- `mutex_queue`'s constructor takes a capacity and ignores it. The baseline
  is unbounded.

## Proofs (TLAPS)

### `SPSCQueueProofs`

These hold for every positive power of two N and every MaxPush, and for both
reordering constants:

- `TypeCorrect`: `Spec => []TypeOK`.
- `CachesConservative`: `Spec => []CachedIndicesConservative`.
- `FailuresGenuine`: `Spec => NoSpuriousFailure`, an action property.

None of these invariants is inductive as it stands. The proofs rest on a
strengthening `IInv` (lemma `IInvariant`). During development TLC was run with `IInv` as an
invariant of the `core_weak` constants; no kept run repeats that check, and
the proof is what establishes it:

- `TypeInv`: `TypeOK`, plus the fact that a busy producer has a value left
  to push.
- `ProducerLocals`: inside an operation, `pNext` is the successor of
  `writeIndex`. After the room test passed, `pNext` differs from the cached
  read index.
- `ConsumerLocals`: `cIdx` is `readIndex` until the publication, and differs
  from the cached write index after the data test. After an early
  publication, `readIndex` is `cIdx`'s successor.
- `CachedIndicesConservative` itself.

The argument for the caches runs through the ring distance `Size(w, r)`:

- A reload makes a cache equal to the index.
- The owner's own step moves its index (`PPublish`, `CPublish`) by one
  towards the cached value. The local facts show that this step does not pass
  it.
- The other thread's step moves the real index away from the cache.

Lemmas `SizeAdvanceNear`/`SizeAdvanceFar` (and their users `ProducerAdvance`
and `ConsumerAdvance`) are these distance facts over plain integers.
`FailuresGenuine` follows because the failing steps happen only in
`PRefresh`/`CRefresh`, right after a reload: the local facts then give
`Size = N-1`, or `readIndex = writeIndex`.

### `ObserverProofs`

`OwnThreadObserversLinearizable` proves that
`ObsSpec => []ObserverLinearizable` when `Callers` is within
{producer, consumer}. It holds for every power-of-two N, in both load
orders, and with both reorderings.

- The caller's own index cannot move during the call, because the caller is
  inside the observer. So the pair `(oW, oR)` is the pair of indices of some
  state within the call.
- The inductive invariant `OInv` says which state that is. It is split by
  caller and by the index loaded first:
  - if the caller's own index was loaded first, it still equals the live
    index;
  - otherwise, the length of the pair of the first load and the live other
    index is in `oSeen`.
- Lemma `AnswerMeaning` turns a length into an answer. Its `full` case is
  `(w + 1) % N = r <=> Size(w, r) = N - 1`.

### `MutexQueueProofs`

These hold for every set of consumers and every MaxPush. They rest on
`Inv == TypeOK /\ Len(q) <= nextVal - 1`:

- `TypeCorrect`: `Spec => []TypeOK`. No run checks this `TypeOK`; the
  theorem covers it.
- `Refinement`: `Spec => QueueRefinement`. Every step maps to an `Enqueue`,
  a `Take`, a `Discard` or a stutter of the FIFO.

### `QueueRefinementProofs`

`QueueImplementsFIFO` proves `Spec => QueueRefinement` for `SPSCQueue`, for
every power-of-two N, every MaxPush and every set of consumer operations,
under one hypothesis: `~ProducerReorder`. `ConsumerReorder` stays free.
The hypothesis is the program-order build, in which the value's
construction (line 50) is visible before the `writeIndex_` store (line 51).
It cannot be dropped: with `ProducerReorder` the `stale_read` run finds
the consumer reading a slot whose value has not arrived, which is not a
FIFO step.

- The refinement mapping `Contents` reads the slots from `readIndex` up to
  `writeIndex`. The proof uses it in the form `Ring(w, r, f)`, the
  sequence of `f` at `r, r+1, ...` (mod N) of length `Size(w, r)`.
- The `Ring` lemmas give the effect of each kind of step on that sequence:
  - `RingAppend`: advancing `w` appends `f[w]`;
  - `RingTail`: advancing `r` drops the head, which is `f[r]`;
  - `RingFrame`: changing `f` at a slot outside the ring leaves it alone.
- The inductive invariant is `RInv == IInv /\ DataInv`. `DataInv` says:
  - no store is pending;
  - while the producer is about to publish, the slot at `writeIndex`
    holds the next value;
  - a consumer in the move step took a value (not a discard).

  `IndexFacts` draws from `IInv` the facts that the slot written is
  outside the ring, and that the slot read is inside it. `RInv` was checked
  with TLC on the `core_sc` constants during development; no kept run
  repeats it, and `RInvariant` proves it.
- Lemma `MapStep` shows that each action is an `Enqueue`, a `Take`, a
  `Discard`, a `Clear` or a stutter of `BoundedFIFO`.

### `OrderProofs`

`ReceivesInOrder` proves `Spec => []InOrder` under the same hypothesis: the
consumer receives the producer's values in increasing order. This is the
property the stress test checks. The inductive invariant `OrderInv` is
stated on the refinement mapping:

- `Contents` and `Taken` are increasing and below `nextVal`;
- the last value taken is below the first value queued.

`MapStep` then reduces each step to a FIFO step. `stale_read` shows the
theorem fails without the hypothesis.

Left to TLC:

- the case `ProducerReorder`. There `InOrder` is violated (`stale_read`),
  and so is the refinement: the consumer takes a value that was never the
  head of the FIFO;
- both `Drains`, because liveness and `ENABLED` are beyond TLAPS's
  backends;
- `StorageSelection`, which uses `Bitwise`, a module the provers cannot
  use;
- the violated properties.

## Not modelled, and the plan

- `front()`, which does not compile.
- `reset()` concurrent with the threads or with an observer. Its contract
  forbids this.
- The consumer's reordering window covers one operation only: `CLateMove`
  completes before the consumer starts its next operation. A build in which
  a later `pop`'s store of `readIndex_` overtakes an earlier move-out (spec
  section 4.4) is not modelled. The freed slot becomes writable to the
  producer as soon as the consumer publishes, not a lap later.
- A happens-before model of the C++ memory orderings, able to show a data
  race on a slot rather than its consequence.
- `cache_utils.h`, which no file includes, and the benchmarks and tests,
  which are timing and drivers.
