--------------------------- MODULE MutexQueueProofs ---------------------------
(***************************************************************************)
(* Proofs about MutexQueue for every set of consumers and every MaxPush:   *)
(* the type invariant, and that mutex_queue implements the FIFO.           *)
(***************************************************************************)
EXTENDS MutexQueue, SequenceTheorems, TLAPS

\* The queue never holds more values than the producer has pushed.
Inv ==
  /\ TypeOK
  /\ Len(q) <= nextVal - 1

LEMMA InvInit == Init => Inv
  BY MutexQueueAssumption DEF Init, Inv, TypeOK, NoThread, MutexOps

LEMMA InvStep == Inv /\ [Next]_mqVars => Inv'
<1> SUFFICES ASSUME Inv, [Next]_mqVars PROVE Inv'
  OBVIOUS
<1>. USE MutexQueueAssumption DEF Inv, TypeOK
<1>1. CASE Push
  BY <1>1 DEF Push, NoThread
<1>2. CASE Notify
  BY <1>2 DEF Notify
<1>3. ASSUME NEW c \in Consumers, NEW o \in ConsumerOps, Lock(c, o)
      PROVE  Inv'
  BY <1>3 DEF Lock, MutexOps
<1>4. ASSUME NEW c \in Consumers, Test(c)
      PROVE  Inv'
  <2>1. CASE q # << >>
    <3>1. /\ q' = Tail(q)
          /\ got' = IF op[c] = "pop_discard" THEN got ELSE Append(got, Head(q))
          /\ m' = NoThread
          /\ pc' = [pc EXCEPT ![c] = "idle"]
          /\ UNCHANGED <<waitSet, pcP, nextVal, op>>
      BY <1>4, <2>1 DEF Test
    <3>2. Head(q) \in 1..MaxPush /\ Tail(q) \in Seq(1..MaxPush)
          /\ Len(Tail(q)) = Len(q) - 1
      BY <2>1
    <3>3. got' \in Seq(1..MaxPush)
      <4>1. CASE op[c] = "pop_discard"
        BY <3>1, <4>1
      <4>2. CASE op[c] # "pop_discard"
        <5>1. got' = Append(got, Head(q))
          BY <3>1, <4>2
        <5>2. QED
          BY <5>1, <3>2, AppendProperties
      <4>3. QED
        BY <4>1, <4>2
    <3>4. QED
      BY <3>1, <3>2, <3>3 DEF NoThread
  <2>2. CASE q = << >>
    BY <1>4, <2>2 DEF Test, NoThread
  <2>3. QED
    BY <2>1, <2>2
<1>5. ASSUME NEW c \in Consumers, Reacquire(c)
      PROVE  Inv'
  BY <1>5 DEF Reacquire
<1>6. ASSUME NEW c \in Consumers, Spurious(c)
      PROVE  Inv'
  BY <1>6 DEF Spurious
<1>7. CASE UNCHANGED mqVars
  BY <1>7 DEF mqVars
<1>8. QED
  BY <1>1, <1>2, <1>3, <1>4, <1>5, <1>6, <1>7 DEF Next, Producer, Consumer

(* Every state of mutex_queue is well typed, whatever the interleaving of  *)
(* push, consume_one, pop and spurious wakeups.                            *)
THEOREM TypeCorrect == Spec => []TypeOK
<1>1. Spec => []Inv
  BY InvInit, InvStep, PTL DEF Spec
<1>2. QED
  BY <1>1, PTL DEF Inv

-----------------------------------------------------------------------------
(* The refinement.                                                         *)

LEMMA RefinementStep ==
  Inv /\ [Next]_mqVars => [Fifo!Next]_<<q, got>>
<1> SUFFICES ASSUME Inv, [Next]_mqVars PROVE [Fifo!Next]_<<q, got>>
  OBVIOUS
<1>. USE MutexQueueAssumption DEF Inv, TypeOK
<1>1. CASE Push
  <2>1. nextVal \in 1..MaxPush /\ Len(q) < MaxPush
    BY <1>1 DEF Push
  <2>2. Fifo!Enqueue(nextVal)
    BY <1>1, <2>1 DEF Push, Fifo!Enqueue
  <2>3. QED
    BY <2>1, <2>2 DEF Fifo!Next
<1>2. ASSUME NEW c \in Consumers, Test(c)
      PROVE  [Fifo!Next]_<<q, got>>
  <2>1. CASE q # << >> /\ op[c] = "pop_discard"
    <3>1. Fifo!Discard
      BY <1>2, <2>1 DEF Test, Fifo!Discard
    <3>2. QED
      BY <3>1 DEF Fifo!Next
  <2>2. CASE q # << >> /\ op[c] # "pop_discard"
    <3>1. Fifo!Take
      BY <1>2, <2>2 DEF Test, Fifo!Take
    <3>2. QED
      BY <3>1 DEF Fifo!Next
  <2>3. CASE q = << >>
    BY <1>2, <2>3 DEF Test
  <2>4. QED
    BY <2>1, <2>2, <2>3
<1>3. CASE Notify \/ (\E c \in Consumers : \E o \in ConsumerOps : Lock(c, o))
           \/ (\E c \in Consumers : Reacquire(c) \/ Spurious(c))
           \/ UNCHANGED mqVars
  BY <1>3 DEF Notify, Lock, Reacquire, Spurious, mqVars
<1>4. QED
  BY <1>1, <1>2, <1>3 DEF Next, Producer, Consumer

(* mutex_queue implements the FIFO, for every number of consumers: each    *)
(* push (lines 7-10) appends to the queue, each consume_one or pop(T&)     *)
(* hands the consumer the oldest value and removes it (lines 18-20,        *)
(* 26-27), pop() removes it (line 33), and every other step, the waits,    *)
(* notifications and wakeups included, leaves the queue alone.            *)
THEOREM Refinement == Spec => QueueRefinement
<1>1. Init => Fifo!Init
  BY DEF Init, Fifo!Init
<1>2. Spec => []Inv
  BY InvInit, InvStep, PTL DEF Spec
<1>3. QED
  BY <1>1, <1>2, RefinementStep, PTL
     DEF Spec, QueueRefinement, Fifo!Spec, Fifo!fifoVars
=============================================================================
