------------------------------ MODULE SPSCQueue ------------------------------
(***************************************************************************)
(* nsqueue::spsc_queue<T, N> (src/include/spsc_queue.h): a ring of N slots *)
(* shared by one producer thread and one consumer thread.                  *)
(*                                                                         *)
(*   writer_ = { writeIndex_ (atomic), readIndexCache_ (producer only) }   *)
(*   reader_ = { readIndex_  (atomic), writeIndexCache_ (consumer only) }  *)
(*   items_[i].mObj                     the slots                          *)
(*                                                                         *)
(* Every access one thread makes to state the other thread can see is a    *)
(* step of its own; reads of a thread's own index and of its private cache *)
(* are folded into the step that follows them.  Each thread's program is   *)
(* a loop that calls one operation of the queue at a time, so the locals   *)
(* of the operation in progress are variables of the model.                *)
(*                                                                         *)
(* Values.  The producer enqueues 1, 2, ..., MaxPush in this order (as the *)
(* stress test and the benchmark do), so the order of what the consumer    *)
(* receives shows loss, duplication and reordering.  T is an owning,       *)
(* move-only type like the std::unique_ptr<int> of the unit test: a slot   *)
(* that was default-constructed or moved from holds Nil, and a slot that   *)
(* holds a value owns it.                                                  *)
(*                                                                         *)
(* Memory ordering.  The producer publishes writeIndex_ with a relaxed     *)
(* store (lines 51, 66), and pop/force_pop publish readIndex_ with a       *)
(* relaxed store (lines 84, 96, 112, 128); only consume_one uses release   *)
(* (line 147).  A relaxed store does not order the slot accesses before it *)
(* (a data race: undefined behaviour), so what the build may do is a       *)
(* nondeterministic choice:                                                *)
(*   ProducerReorder  the construction of a slot becomes visible to the    *)
(*                    consumer only later, after the index store (held in  *)
(*                    `pending` until the step Propagate);                 *)
(*   ConsumerReorder  pop/force_pop move the value out of the slot after   *)
(*                    the store of readIndex_ (the step CPublishEarly).    *)
(* With both FALSE the model is a build that keeps program order (x86-TSO  *)
(* without compiler reordering), which is what the design assumes.         *)
(* Accesses to the atomic indices themselves are sequentially consistent.  *)
(***************************************************************************)
EXTENDS Integers, Sequences

CONSTANTS
  N,                \* template parameter N: the number of slots
  MaxPush,          \* the producer enqueues the values 1..MaxPush
  ConsumerOps,      \* the operations the consumer's program calls
  Limits,           \* the values of consume_n's argument n
  ProducerReorder,  \* the build may publish writeIndex_ before the slot
  ConsumerReorder   \* the build may move out of a slot after readIndex_

\* static_assert((N & (N - 1)) == 0) at line 25; that assertion also admits
\* N = 0, which this model leaves out.
ASSUME NAssumption == N \in Nat \ {0} /\ \E k \in 0..N : 2^k = N

ASSUME MaxPushAssumption == MaxPush \in Nat

ProducerOps == {"emplace", "force_emplace"}

AllConsumerOps == {"pop", "pop_discard", "force_pop", "force_pop_discard",
                   "consume_one", "consume_all", "consume_n"}

ASSUME ConsumerAssumption ==
  /\ ConsumerOps \subseteq AllConsumerOps
  /\ Limits \subseteq Nat
  /\ ProducerReorder \in BOOLEAN
  /\ ConsumerReorder \in BOOLEAN

Idx  == 0..N-1
Vals == 1..MaxPush
Nil  == 0      \* the content of a default-constructed or moved-from T
None == -1     \* no construction waiting to become visible

\* The operations that move the value out of the slot to the caller; pop()
\* and force_pop() (pop_discard, force_pop_discard) never touch the slot.
Takers == AllConsumerOps \ {"pop_discard", "force_pop_discard"}

\* The operations that spin instead of returning false.
Spinners == {"force_pop", "force_pop_discard"}

VARIABLES
  writeIndex,       \* writer_.writeIndex_
  readIndexCache,   \* writer_.readIndexCache_
  readIndex,        \* reader_.readIndex_
  writeIndexCache,  \* reader_.writeIndexCache_
  slot,             \* items_[i].mObj as the consumer sees it
  pending,          \* constructions of the producer not yet visible
  pcP,              \* producer: "idle", "refresh", "construct", "publish"
  pOp,              \* producer: the operation in progress
  pNext,            \* producer: local nextWriteIdx
  nextVal,          \* producer: the value it enqueues next
  pcC,              \* consumer: "idle", "check", "refresh", "move",
                    \*           "publish", "lateMove"
  cOp,              \* consumer: the operation in progress
  cIdx,             \* consumer: local readIdx
  item,             \* consumer: the value moved out of the slot
  cnt,              \* consumer: consume_all's n, consume_n's m
  cLimit,           \* consumer: consume_n's argument n
  got               \* history: the values the consumer received

vars == <<writeIndex, readIndexCache, readIndex, writeIndexCache, slot,
          pending, pcP, pOp, pNext, nextVal, pcC, cOp, cIdx, item, cnt,
          cLimit, got>>

producerVars == <<pcP, pOp, pNext, nextVal>>
consumerVars == <<pcC, cOp, cIdx, item, cnt, cLimit, got>>

\* size(): (w >= r) ? w - r : (N - r) + w, the number of slots from r to w.
Size(w, r) == IF w >= r THEN w - r ELSE (N - r) + w

\* capacity(): mask_, the N - 1 values the ring can hold.
capacity == N - 1

-----------------------------------------------------------------------------
(* The initial state: spsc_queue() = default.                              *)

Init ==
  /\ writeIndex = 0
  /\ readIndexCache = 0
  /\ readIndex = 0
  /\ writeIndexCache = 0
  /\ slot = [i \in Idx |-> Nil]
  /\ pending = [i \in Idx |-> None]
  /\ pcP = "idle"
  /\ pOp = "emplace"
  /\ pNext = 0
  /\ nextVal = 1
  /\ pcC = "idle"
  /\ cOp = "pop"
  /\ cIdx = 0
  /\ item = Nil
  /\ cnt = 0
  /\ cLimit = 0
  /\ got = << >>

-----------------------------------------------------------------------------
(* Producer: emplace/push (lines 40-54, 69) and                            *)
(* force_emplace/force_push (lines 56-67, 71).                             *)

\* Mutant: the full test compares the current write index, not the next one.
PCallCurrentIdx(op) ==
  /\ pcP = "idle"
  /\ nextVal <= MaxPush
  /\ pOp' = op
  /\ pNext' = (writeIndex + 1) % N
  /\ pcP' = IF writeIndex = readIndexCache THEN "refresh" ELSE "construct"
  /\ UNCHANGED <<nextVal, writeIndex, readIndexCache, readIndex,
                 writeIndexCache, slot, pending>>
  /\ UNCHANGED consumerVars

\* Mutant: nextWriteIdx computed without the mask.
PCallNoMask(op) ==
  /\ pcP = "idle"
  /\ nextVal <= MaxPush
  /\ pOp' = op
  /\ pNext' = writeIndex + 1
  /\ pcP' = IF writeIndex + 1 = readIndexCache THEN "refresh" ELSE "construct"
  /\ UNCHANGED <<nextVal, writeIndex, readIndexCache, readIndex,
                 writeIndexCache, slot, pending>>
  /\ UNCHANGED consumerVars

\* The call: load the own index, nextWriteIdx = (writeIdx + 1) & mask_, and
\* compare it with the cached read index.
PCall(op) ==
  /\ pcP = "idle"
  /\ nextVal <= MaxPush
  /\ pOp' = op
  /\ pNext' = (writeIndex + 1) % N
  /\ pcP' = IF (writeIndex + 1) % N = readIndexCache THEN "refresh" ELSE "construct"
  /\ UNCHANGED <<nextVal, writeIndex, readIndexCache, readIndex,
                 writeIndexCache, slot, pending>>
  /\ UNCHANGED consumerVars

\* Where the producer goes when the queue is still full after a refresh:
\* emplace returns false (line 47), force_emplace spins (line 61).
OnFull == [emplace |-> "idle", force_emplace |-> "refresh"]

\* Mutant: the refresh does not reload readIndex_.
PRefreshNoReload ==
  /\ pcP = "refresh"
  /\ pcP' = IF pNext # readIndexCache THEN "construct" ELSE OnFull[pOp]
  /\ UNCHANGED <<pOp, pNext, nextVal, writeIndex, readIndexCache, readIndex,
                 writeIndexCache, slot, pending>>
  /\ UNCHANGED consumerVars

\* The cache looks full: readIndexCache_ = readIndex_.load(acquire).  Still
\* full: emplace returns false, force_emplace loads again.
PRefresh ==
  /\ pcP = "refresh"
  /\ readIndexCache' = readIndex
  /\ pcP' = IF pNext # readIndex THEN "construct" ELSE OnFull[pOp]
  /\ UNCHANGED <<pOp, pNext, nextVal, writeIndex, readIndex, writeIndexCache,
                 slot, pending>>
  /\ UNCHANGED consumerVars

\* Mutant: the value is constructed in items_[nextWriteIdx].
PConstructNextIdx ==
  /\ pcP = "construct"
  /\ IF ProducerReorder
       THEN /\ pending' = [pending EXCEPT ![pNext] = nextVal]
            /\ UNCHANGED slot
       ELSE /\ slot' = [slot EXCEPT ![pNext] = nextVal]
            /\ UNCHANGED pending
  /\ pcP' = "publish"
  /\ UNCHANGED <<pOp, pNext, nextVal, writeIndex, readIndexCache, readIndex,
                 writeIndexCache>>
  /\ UNCHANGED consumerVars

\* new (&items_[writeIdx].mObj) T(...): placement new, with no destructor
\* call for what the slot held.
PConstruct ==
  /\ pcP = "construct"
  /\ IF ProducerReorder
       THEN /\ pending' = [pending EXCEPT ![writeIndex] = nextVal]
            /\ UNCHANGED slot
       ELSE /\ slot' = [slot EXCEPT ![writeIndex] = nextVal]
            /\ UNCHANGED pending
  /\ pcP' = "publish"
  /\ UNCHANGED <<pOp, pNext, nextVal, writeIndex, readIndexCache, readIndex,
                 writeIndexCache>>
  /\ UNCHANGED consumerVars

\* writer_.writeIndex_.store(nextWriteIdx, relaxed); return true.
PPublish ==
  /\ pcP = "publish"
  /\ writeIndex' = pNext
  /\ nextVal' = nextVal + 1
  /\ pcP' = "idle"
  /\ UNCHANGED <<pOp, pNext, readIndexCache, readIndex, writeIndexCache,
                 slot, pending>>
  /\ UNCHANGED consumerVars

Producer ==
  \/ \E op \in ProducerOps : PCall(op)
  \/ PRefresh
  \/ PConstruct
  \/ PPublish

-----------------------------------------------------------------------------
(* Consumer: pop(T&) (99-115), pop() (117-131), force_pop(T&) (73-85),     *)
(* force_pop() (87-97), consume_one (133-150), and the loops consume_all   *)
(* (152-158) and consume_n (160-168), which call consume_one.              *)

\* The store of readIndex_ after a move-out is relaxed in pop and force_pop
\* (lines 84, 112) and release in consume_one (line 147).
RelaxedTakers == {"pop", "force_pop"}

\* Where the consumer goes once it has found an element: the operations that
\* take the value move it out first; pop() and force_pop() publish at once.
AfterCheck(op) == IF op \in Takers THEN "move" ELSE "publish"

\* Still empty after a refresh: force_pop spins (lines 76, 90), every other
\* operation returns false (lines 106, 124, 141) and ends its loop.
OnEmpty(op) == IF op \in Spinners THEN "refresh" ELSE "idle"

\* The call of an operation other than consume_n; consume_all starts n at 0.
CCall(op) ==
  /\ pcC = "idle"
  /\ op # "consume_n"
  /\ cOp' = op
  /\ cnt' = 0
  /\ pcC' = "check"
  /\ UNCHANGED <<cIdx, item, cLimit, got>>
  /\ UNCHANGED <<writeIndex, readIndexCache, readIndex, writeIndexCache,
                 slot, pending>>
  /\ UNCHANGED producerVars

\* consume_n(func, n): m = 0, and the loop runs while m < n.
CConsumeN(n) ==
  /\ pcC = "idle"
  /\ cOp' = "consume_n"
  /\ cnt' = 0
  /\ cLimit' = n
  /\ pcC' = IF 0 < n THEN "check" ELSE "idle"
  /\ UNCHANGED <<cIdx, item, got>>
  /\ UNCHANGED <<writeIndex, readIndexCache, readIndex, writeIndexCache,
                 slot, pending>>
  /\ UNCHANGED producerVars

\* One dequeue attempt: load the own index and compare it with the cached
\* write index.
CCheck ==
  /\ pcC = "check"
  /\ cIdx' = readIndex
  /\ pcC' = IF readIndex = writeIndexCache THEN "refresh" ELSE AfterCheck(cOp)
  /\ UNCHANGED <<cOp, item, cnt, cLimit, got>>
  /\ UNCHANGED <<writeIndex, readIndexCache, readIndex, writeIndexCache,
                 slot, pending>>
  /\ UNCHANGED producerVars

\* Mutant: the refresh does not reload writeIndex_.
CRefreshNoReload ==
  /\ pcC = "refresh"
  /\ pcC' = IF cIdx # writeIndexCache THEN AfterCheck(cOp) ELSE OnEmpty(cOp)
  /\ UNCHANGED <<cOp, cIdx, item, cnt, cLimit, got>>
  /\ UNCHANGED <<writeIndex, readIndexCache, readIndex, writeIndexCache,
                 slot, pending>>
  /\ UNCHANGED producerVars

\* writeIdx = reader_.writeIndexCache_ = writer_.writeIndex_.load(acquire).
CRefresh ==
  /\ pcC = "refresh"
  /\ writeIndexCache' = writeIndex
  /\ pcC' = IF cIdx # writeIndex THEN AfterCheck(cOp) ELSE OnEmpty(cOp)
  /\ UNCHANGED <<cOp, cIdx, item, cnt, cLimit, got>>
  /\ UNCHANGED <<writeIndex, readIndexCache, readIndex, slot, pending>>
  /\ UNCHANGED producerVars

\* item = std::move(items_[readIdx].mObj), or func(std::move(...)): the slot
\* is left moved-from.
CMove ==
  /\ pcC = "move"
  /\ item' = slot[cIdx]
  /\ slot' = [slot EXCEPT ![cIdx] = Nil]
  /\ pcC' = "publish"
  /\ UNCHANGED <<cOp, cIdx, cnt, cLimit, got>>
  /\ UNCHANGED <<writeIndex, readIndexCache, readIndex, writeIndexCache,
                 pending>>
  /\ UNCHANGED producerVars

\* Where the consumer goes after a successful consume_one: consume_all calls
\* it again, consume_n calls it again while ++m < n, the rest return true.
AfterPublish ==
  CASE cOp = "consume_all"                    -> "check"
    [] cOp = "consume_n" /\ cnt + 1 < cLimit  -> "check"
    [] OTHER                                  -> "idle"

\* reader_.readIndex_.store((readIdx + 1) & mask_, ...); the value moved out
\* is the caller's from here on.
CPublish ==
  /\ pcC = "publish"
  /\ readIndex' = (cIdx + 1) % N
  /\ got' = IF cOp \in Takers THEN Append(got, item) ELSE got
  /\ cnt' = cnt + 1
  /\ pcC' = AfterPublish
  /\ UNCHANGED <<cOp, cIdx, item, cLimit>>
  /\ UNCHANGED <<writeIndex, readIndexCache, writeIndexCache, slot, pending>>
  /\ UNCHANGED producerVars

\* A build that reorders: the relaxed store of readIndex_ in pop/force_pop
\* takes effect before the move-out that precedes it in the code.
CPublishEarly ==
  /\ ConsumerReorder
  /\ pcC = "move"
  /\ cOp \in RelaxedTakers
  /\ readIndex' = (cIdx + 1) % N
  /\ pcC' = "lateMove"
  /\ UNCHANGED <<cOp, cIdx, item, cnt, cLimit, got>>
  /\ UNCHANGED <<writeIndex, readIndexCache, writeIndexCache, slot, pending>>
  /\ UNCHANGED producerVars

\* The move-out of a reordered pop/force_pop, which then returns.
CLateMove ==
  /\ pcC = "lateMove"
  /\ item' = slot[cIdx]
  /\ slot' = [slot EXCEPT ![cIdx] = Nil]
  /\ got' = Append(got, slot[cIdx])
  /\ pcC' = "idle"
  /\ UNCHANGED <<cOp, cIdx, cnt, cLimit>>
  /\ UNCHANGED <<writeIndex, readIndexCache, readIndex, writeIndexCache,
                 pending>>
  /\ UNCHANGED producerVars

Consumer ==
  \/ \E op \in ConsumerOps : CCall(op)
  \/ "consume_n" \in ConsumerOps /\ \E n \in Limits : CConsumeN(n)
  \/ CCheck
  \/ CRefresh
  \/ CMove
  \/ CPublish
  \/ CPublishEarly
  \/ CLateMove

-----------------------------------------------------------------------------
(* A construction the build has delayed becomes visible to the consumer.   *)
Propagate(i) ==
  /\ pending[i] # None
  /\ slot' = [slot EXCEPT ![i] = pending[i]]
  /\ pending' = [pending EXCEPT ![i] = None]
  /\ UNCHANGED <<writeIndex, readIndexCache, readIndex, writeIndexCache>>
  /\ UNCHANGED producerVars
  /\ UNCHANGED consumerVars

(* reset() (lines 202-207), called while neither thread is inside an       *)
(* operation and every earlier store is visible, as its contract requires. *)
(* The slots are left as they are.                                         *)
\* Mutant: reset() does not clear reader_.writeIndexCache_.
ResetKeepsCache ==
  /\ pcP = "idle"
  /\ pcC = "idle"
  /\ \A i \in Idx : pending[i] = None
  /\ readIndexCache' = 0
  /\ readIndex' = 0
  /\ writeIndex' = 0
  /\ UNCHANGED <<writeIndexCache, slot, pending>>
  /\ UNCHANGED producerVars
  /\ UNCHANGED consumerVars

Reset ==
  /\ pcP = "idle"
  /\ pcC = "idle"
  /\ \A i \in Idx : pending[i] = None
  /\ readIndexCache' = 0
  /\ writeIndexCache' = 0
  /\ readIndex' = 0
  /\ writeIndex' = 0
  /\ UNCHANGED <<slot, pending>>
  /\ UNCHANGED producerVars
  /\ UNCHANGED consumerVars

Next ==
  \/ Producer
  \/ Consumer
  \/ \E i \in Idx : Propagate(i)
  \/ Reset

\* Both threads are OS threads that keep running (spec section 5), and a
\* store becomes visible to the other thread in finite time.
Spec ==
  /\ Init
  /\ [][Next]_vars
  /\ WF_vars(Producer)
  /\ WF_vars(Consumer)
  /\ WF_vars(\E i \in Idx : Propagate(i))

-----------------------------------------------------------------------------
(***************************************************************************)
(* Properties.                                                             *)
(***************************************************************************)

TypeOK ==
  /\ writeIndex \in Idx
  /\ readIndexCache \in Idx
  /\ readIndex \in Idx
  /\ writeIndexCache \in Idx
  /\ slot \in [Idx -> Vals \cup {Nil}]
  /\ pending \in [Idx -> Vals \cup {None}]
  /\ pcP \in {"idle", "refresh", "construct", "publish"}
  /\ pOp \in ProducerOps
  /\ pNext \in Idx
  /\ nextVal \in 1..MaxPush+1
  /\ pcC \in {"idle", "check", "refresh", "move", "publish", "lateMove"}
  /\ cOp \in AllConsumerOps
  /\ cIdx \in Idx
  /\ item \in Vals \cup {Nil}
  /\ cnt \in Nat
  /\ cLimit \in Nat
  /\ got \in Seq(Vals \cup {Nil})

(* The cached indices never claim more than there is.  Going round the     *)
(* ring from the producer's readIndexCache_, the consumer's readIndex_     *)
(* comes no later than writeIndex_ (the consumer cannot have passed the    *)
(* producer), and going round from readIndex_, the consumer's              *)
(* writeIndexCache_ comes no later than writeIndex_.  This is what lets    *)
(* emplace and pop trust a stale cache on the fast path (lines 44, 102)    *)
(* without a load of the other thread's index; it must survive wraparound  *)
(* and reset() (lines 202-207), which rewrites all four at once.           *)
CachedIndicesConservative ==
  /\ Size(readIndex, readIndexCache) <= Size(writeIndex, readIndexCache)
  /\ Size(writeIndexCache, readIndex) <= Size(writeIndex, readIndex)

(* A non-blocking operation fails only when it must (spec section 7): an   *)
(* emplace returns false (line 47) only if the queue held N - 1 values at  *)
(* the load that decided it, and a pop, pop() or consume_one returns false *)
(* (lines 106, 124, 141) only if the queue was empty at that load.  A      *)
(* stale cache must never turn into a spurious failure.                    *)
NoSpuriousFailure ==
  [][ /\ (pcP = "refresh" /\ pcP' = "idle") => Size(writeIndex, readIndex) = N - 1
      /\ (pcC = "refresh" /\ pcC' = "idle") => readIndex = writeIndex ]_vars

\* The value slot i holds for the abstract queue: the one the consumer has
\* moved out but not yet dequeued is still the head.
SlotVal(i) ==
  IF pcC = "publish" /\ cOp \in Takers /\ i = cIdx THEN item ELSE slot[i]

\* The ring from readIndex_ up to writeIndex_.
Contents ==
  [k \in 1..Size(writeIndex, readIndex) |-> SlotVal((readIndex + k - 1) % N)]

\* The values received, counting the move-out a reordered pop has yet to do
\* as received at the store of readIndex_ that dequeued it.
Taken == IF pcC = "lateMove" THEN Append(got, slot[cIdx]) ELSE got

Fifo == INSTANCE BoundedFIFO
          WITH Cap <- capacity, Values <- Vals, queue <- Contents, taken <- Taken

(* The queue implements a FIFO of capacity N - 1 (spec sections 3 and 8):  *)
(* every interleaving of the producer's and the consumer's steps, with     *)
(* wraparound and reset(), is a behaviour of BoundedFIFO in which an       *)
(* index store is the step that enqueues or dequeues, and each value the   *)
(* consumer receives is the head of the queue at that moment, even when a  *)
(* pop's move-out is overtaken by its relaxed store of readIndex_.         *)
QueueRefinement == Fifo!Spec

(* The consumer receives values in strictly increasing order and never a   *)
(* moved-from or default-constructed one: what the stress test (test file  *)
(* lines 376-380) and the benchmark's bench_force check of the values      *)
(* 0, 1, 2, ... that the producer enqueues in order.                       *)
InOrder ==
  \A i \in DOMAIN got : got[i] \in Vals /\ (i > 1 => got[i - 1] < got[i])

\* The slots whose value has been enqueued and not yet dequeued, and the one
\* the producer has constructed and is about to publish.
LiveSlots ==
  {(readIndex + k) % N : k \in 0..Size(writeIndex, readIndex) - 1}
    \cup (IF pcP = "publish" THEN {writeIndex} ELSE {})

(* A slot's value is alive only between a successful enqueue and the       *)
(* matching dequeue (spec section 3): a slot outside the queue owns        *)
(* nothing, so that the placement new of emplace (line 50), which runs no  *)
(* destructor, never overwrites a live value.                              *)
SlotLifetime == \A i \in Idx : slot[i] # Nil => i \in LiveSlots

(* Every value is eventually enqueued and the queue eventually stays       *)
(* empty: the producer's force_emplace spin (lines 61-63) ends because the *)
(* consumer makes room, and the consumer's loads eventually see what the   *)
(* producer published.                                                     *)
Drains == <>[](nextVal > MaxPush /\ readIndex = writeIndex)

=============================================================================
