------------------------------ MODULE MutexQueue ------------------------------
(***************************************************************************)
(* mutex_queue<T> (src/unnamed/part_001), the benchmark's baseline: a      *)
(* std::queue q_ guarded by std::mutex m_, with std::condition_variable    *)
(* cv_ on which consumers wait for an element.                             *)
(*                                                                         *)
(*   push(item)       lock_guard; q_.push(item); unlock; cv_.notify_one()  *)
(*   consume_one(f)   unique_lock; cv_.wait(lock, !q_.empty());            *)
(*                    f(q_.front()); q_.pop()                              *)
(*   pop(item)        the same, item = q_.front()                          *)
(*   pop()            the same, discarding the front                       *)
(*                                                                         *)
(* A critical section that makes no call that can block is one step.      *)
(* cv_.wait(lock, pred) is `while (!pred()) cv_.wait(lock);`: the wait     *)
(* releases m_ and joins the wait set atomically, and a woken thread must  *)
(* take m_ again before it re-tests the predicate.  A waiter may also wake *)
(* spuriously.  The constructor's capacity is stored in capacity_ and      *)
(* never read, so the model has none.                                      *)
(***************************************************************************)
EXTENDS Naturals, Sequences

CONSTANTS
  Consumers,     \* the consumer threads
  MaxPush,       \* the producer pushes 1..MaxPush
  ConsumerOps    \* the operations the consumers call

MutexOps == {"consume_one", "pop", "pop_discard"}

ASSUME MutexQueueAssumption ==
  /\ MaxPush \in Nat
  /\ ConsumerOps \subseteq MutexOps
  /\ "producer" \notin Consumers

NoThread == "none"

VARIABLES
  q,        \* q_
  m,        \* the thread holding m_, or NoThread
  waitSet,  \* the threads blocked in cv_.wait
  pcP,      \* producer: "idle" or "notify"
  nextVal,  \* producer: the value it pushes next
  pc,       \* pc[c]: "idle", "test" (holds m_), "waiting" (in cv_.wait)
  op,       \* op[c]: the operation consumer c is in
  got       \* history: the values handed to the consumers

mqVars == <<q, m, waitSet, pcP, nextVal, pc, op, got>>

Init ==
  /\ q = << >>
  /\ m = NoThread
  /\ waitSet = {}
  /\ pcP = "idle"
  /\ nextVal = 1
  /\ pc = [c \in Consumers |-> "idle"]
  /\ op = [c \in Consumers |-> "pop"]
  /\ got = << >>

-----------------------------------------------------------------------------
(* push(item), lines 6-13.                                                 *)

\* The lock_guard's critical section: q_.push(item) (lines 7-10).
Push ==
  /\ pcP = "idle"
  /\ nextVal <= MaxPush
  /\ m = NoThread
  /\ q' = Append(q, nextVal)
  /\ nextVal' = nextVal + 1
  /\ pcP' = "notify"
  /\ UNCHANGED <<m, waitSet, pc, op, got>>

\* Mutant: push returns without cv_.notify_one().
NotifyNone ==
  /\ pcP = "notify"
  /\ pcP' = "idle"
  /\ UNCHANGED <<q, m, waitSet, nextVal, pc, op, got>>

\* cv_.notify_one() after the lock is released (line 11): it unblocks one
\* waiting thread, if there is one.
Notify ==
  /\ pcP = "notify"
  /\ \/ waitSet = {} /\ UNCHANGED waitSet
     \/ \E c \in waitSet : waitSet' = waitSet \ {c}
  /\ pcP' = "idle"
  /\ UNCHANGED <<q, m, nextVal, pc, op, got>>

-----------------------------------------------------------------------------
(* consume_one (15-22), pop(T&) (23-29), pop() (30-35).                    *)

\* std::unique_lock<std::mutex> lock(m_).
Lock(c, o) ==
  /\ pc[c] = "idle"
  /\ m = NoThread
  /\ m' = c
  /\ op' = [op EXCEPT ![c] = o]
  /\ pc' = [pc EXCEPT ![c] = "test"]
  /\ UNCHANGED <<q, waitSet, pcP, nextVal, got>>

\* Mutant: the front is handed over but never q_.pop()ped.
TestNoPop(c) ==
  /\ pc[c] = "test"
  /\ m' = NoThread
  /\ \/ /\ q # << >>
        /\ got' = IF op[c] = "pop_discard" THEN got ELSE Append(got, Head(q))
        /\ pc' = [pc EXCEPT ![c] = "idle"]
        /\ UNCHANGED <<q, waitSet>>
     \/ /\ q = << >>
        /\ waitSet' = waitSet \cup {c}
        /\ pc' = [pc EXCEPT ![c] = "waiting"]
        /\ UNCHANGED <<q, got>>
  /\ UNCHANGED <<pcP, nextVal, op>>

\* With m_ held, the predicate !q_.empty() is tested.  True: the front is
\* handed to func or item (or dropped by pop()), q_.pop(), and the lock is
\* released on return.  False: cv_.wait releases m_ and blocks.
Test(c) ==
  /\ pc[c] = "test"
  /\ m' = NoThread
  /\ \/ /\ q # << >>
        /\ q' = Tail(q)
        /\ got' = IF op[c] = "pop_discard" THEN got ELSE Append(got, Head(q))
        /\ pc' = [pc EXCEPT ![c] = "idle"]
        /\ UNCHANGED waitSet
     \/ /\ q = << >>
        /\ waitSet' = waitSet \cup {c}
        /\ pc' = [pc EXCEPT ![c] = "waiting"]
        /\ UNCHANGED <<q, got>>
  /\ UNCHANGED <<pcP, nextVal, op>>

\* A spurious wakeup: the waiter leaves the wait set unnotified.
Spurious(c) ==
  /\ pc[c] = "waiting"
  /\ c \in waitSet
  /\ waitSet' = waitSet \ {c}
  /\ UNCHANGED <<q, m, pcP, nextVal, pc, op, got>>

\* A waiter that is no longer in the wait set takes m_ again and returns to
\* the test of the predicate.
Reacquire(c) ==
  /\ pc[c] = "waiting"
  /\ c \notin waitSet
  /\ m = NoThread
  /\ m' = c
  /\ pc' = [pc EXCEPT ![c] = "test"]
  /\ UNCHANGED <<q, waitSet, pcP, nextVal, op, got>>

Producer == Push \/ Notify

Consumer(c) ==
  \/ \E o \in ConsumerOps : Lock(c, o)
  \/ Test(c)
  \/ Reacquire(c)

Next ==
  \/ Producer
  \/ \E c \in Consumers : Consumer(c) \/ Spurious(c)

(* Each thread keeps running.  Taking m_ is enabled only while no other    *)
(* thread holds it, so a thread that keeps asking for it is assumed to get *)
(* it eventually (strong fairness).  Spurious wakeups are not fair.        *)
Spec ==
  /\ Init
  /\ [][Next]_mqVars
  /\ SF_mqVars(Producer)
  /\ \A c \in Consumers : SF_mqVars(Consumer(c))

-----------------------------------------------------------------------------
(***************************************************************************)
(* Properties.                                                             *)
(***************************************************************************)

TypeOK ==
  /\ q \in Seq(1..MaxPush)
  /\ m \in Consumers \cup {NoThread}
  /\ waitSet \subseteq Consumers
  /\ pcP \in {"idle", "notify"}
  /\ nextVal \in 1..MaxPush + 1
  /\ pc \in [Consumers -> {"idle", "test", "waiting"}]
  /\ op \in [Consumers -> MutexOps]
  /\ got \in Seq(1..MaxPush)

Fifo == INSTANCE BoundedFIFO
          WITH Cap <- MaxPush, Values <- 1..MaxPush, queue <- q, taken <- got

(* mutex_queue is a FIFO: every value the consumers receive is the oldest  *)
(* one not yet received, each value is received or dropped once, and       *)
(* consumers never see a value that was not pushed (lines 18-20, 26-27,    *)
(* 33), however the threads interleave on m_.                              *)
QueueRefinement == Fifo!Spec

(* No wakeup is lost: every value pushed is eventually dequeued, although  *)
(* push notifies after releasing m_ (line 11), so that its notification    *)
(* may find no waiter or the wrong one, notify_one wakes only one of       *)
(* several waiters, and a waiter may wake spuriously to an empty queue.    *)
Drains == <>[](nextVal > MaxPush /\ q = << >>)
=============================================================================
