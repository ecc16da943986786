----------------------------- MODULE ObserverProofs -----------------------------
(***************************************************************************)
(* Proof that size(), full() and empty() are linearisable when the         *)
(* producer or the consumer calls them, for every N.                       *)
(*                                                                         *)
(* The calling thread's own index cannot move during the call, because the *)
(* thread is inside the observer.  So one of the two loads always sees the *)
(* same value as at the other load, and the pair (w, r) the observer       *)
(* computes from is the pair of indices of a real state within the call.   *)
(* The inductive invariant OInv records which pair that is, by the caller  *)
(* and by the index loaded first.                                          *)
(***************************************************************************)
EXTENDS SPSCObserver, SPSCQueueProofs

OwnThreads == {"producer", "consumer"}

OTypeOK ==
  /\ oPc \in {"idle", "second", "done"}
  /\ oOp \in ObserverOps
  /\ oFirst \in {"w", "r"}
  /\ oW \in Idx
  /\ oR \in Idx

\* The queue's length at the moment the answer describes is in oSeen.
OInv ==
  /\ TypeInv
  /\ OTypeOK
  /\ oPc # "idle" => oBy \in OwnThreads
  /\ oPc = "second" =>
       /\ Size(writeIndex, readIndex) \in oSeen
       /\ oFirst = "w" /\ oBy = "producer" => oW = writeIndex
       /\ oFirst = "w" /\ oBy = "consumer" => Size(oW, readIndex) \in oSeen
       /\ oFirst = "r" /\ oBy = "producer" => Size(writeIndex, oR) \in oSeen
       /\ oFirst = "r" /\ oBy = "consumer" => oR = readIndex
  /\ oPc = "done" => Size(oW, oR) \in oSeen

-----------------------------------------------------------------------------
(* Lemmas.                                                                 *)

LEMMA ContentsLen ==
  ASSUME writeIndex \in Idx, readIndex \in Idx
  PROVE  Len(Contents) = Size(writeIndex, readIndex)
<1>1. Size(writeIndex, readIndex) \in Nat
  BY SizeRange, NAssume DEF Idx
<1>2. QED
  BY <1>1 DEF Contents

LEMMA ContentsLenPrime ==
  ASSUME writeIndex' \in Idx, readIndex' \in Idx
  PROVE  Len(Contents') = Size(writeIndex', readIndex')
<1>1. Size(writeIndex', readIndex') \in Nat
  BY SizeRange, NAssume DEF Idx
<1>2. QED
  BY <1>1 DEF Contents

\* What each observer computes from a pair of indices is what it means for
\* a queue of Size(w, r) values.
LEMMA AnswerMeaning ==
  ASSUME NEW op \in ObserverOps, NEW w \in Idx, NEW r \in Idx
  PROVE  Answer(op, w, r) = Meaning(op, Size(w, r))
<1>1. CASE op = "full"
  <2>1. (w + 1) % N = IF w = N - 1 THEN 0 ELSE w + 1
    BY NextIdx
  <2>2. ((w + 1) % N = r) <=> (Size(w, r) = N - 1)
    BY <2>1, NAssume DEF Size, Idx
  <2>3. QED
    BY <1>1, <2>2 DEF Answer, Meaning, capacity
<1>2. CASE op = "size"
  BY <1>2 DEF Answer, Meaning
<1>3. CASE op = "empty"
  BY <1>3, SizeRange DEF Answer, Meaning
<1>4. QED
  BY <1>1, <1>2, <1>3 DEF ObserverOps

\* Which thread's steps move which index.
LEMMA ProducerKeepsRead == Producer => readIndex' = readIndex
  BY DEF Producer, PCall, PRefresh, PConstruct, PPublish

LEMMA ConsumerKeepsWrite == Consumer => writeIndex' = writeIndex
  BY DEF Consumer, CCall, CConsumeN, CCheck, CRefresh, CMove, CPublish,
         CPublishEarly, CLateMove

LEMMA PropagateKeepsIndices ==
  (\E i \in Idx : Propagate(i)) => UNCHANGED <<writeIndex, readIndex>>
  BY DEF Propagate

-----------------------------------------------------------------------------
(* The invariant.                                                          *)

LEMMA OInit == ObsInit => OInv
  BY TypeInit, NAssume DEF ObsInit, OInv, OTypeOK, ObserverOps, Idx

\* A step of the queue, by a thread that is not inside the observer.
LEMMA QueueStepKeeps ==
  ASSUME OInv, TypeInv', NEW A,
         QueueStep(A),
         oPc = "second" /\ oBy = "producer" => writeIndex' = writeIndex,
         oPc = "second" /\ oBy = "consumer" => readIndex' = readIndex
  PROVE  OInv'
<1>. USE DEF OInv, OTypeOK, QueueStep
<1>1. oSeen \subseteq oSeen'
  OBVIOUS
<1>2. writeIndex' \in Idx /\ readIndex' \in Idx
  BY DEF TypeInv, TypeOK
<1>3. oPc' = "second" => Size(writeIndex', readIndex') \in oSeen'
  BY <1>2, ContentsLenPrime
<1>4. QED
  BY <1>1, <1>3

LEMMA OStep ==
  ASSUME OInv, Callers \subseteq OwnThreads, [ObsNext]_allVars
  PROVE  OInv'
<1>. USE DEF OInv
<1>1. CASE ~Busy("producer") /\ QueueStep(Producer)
  <2>1. TypeInv'
    BY <1>1, TypeStep DEF QueueStep, Next
  <2>2. QED
    BY <1>1, <2>1, QueueStepKeeps, ProducerKeepsRead DEF Busy, QueueStep
<1>2. CASE ~Busy("consumer") /\ QueueStep(Consumer)
  <2>1. TypeInv'
    BY <1>2, TypeStep DEF QueueStep, Next
  <2>2. QED
    BY <1>2, <2>1, QueueStepKeeps, ConsumerKeepsWrite DEF Busy, QueueStep
<1>3. CASE QueueStep(\E i \in Idx : Propagate(i))
  <2>1. TypeInv'
    BY <1>3, TypeStep DEF QueueStep, Next
  <2>2. QED
    BY <1>3, <2>1, QueueStepKeeps, PropagateKeepsIndices DEF QueueStep
<1>4. CASE oPc = "idle" /\ QueueStep(Reset)
  <2>1. TypeInv'
    BY <1>4, TypeStep DEF QueueStep, Next
  <2>2. QED
    BY <1>4, <2>1 DEF QueueStep, OTypeOK
<1>5. ASSUME NEW op \in ObserverOps, NEW t \in Callers,
             NEW first \in LoadOrders(op), OCall(op, t, first)
      PROVE  OInv'
  <2>1. Len(Contents) = Size(writeIndex, readIndex)
    BY ContentsLen DEF TypeInv, TypeOK
  <2>2. first \in {"w", "r"} /\ t \in OwnThreads
    BY DEF LoadOrders
  <2>3. TypeInv'
    BY <1>5, TypeStep DEF OCall
  <2>4. writeIndex' = writeIndex /\ readIndex' = readIndex
    BY <1>5 DEF OCall, vars
  <2>5. OTypeOK'
    BY <1>5, <2>2 DEF OCall, OTypeOK, TypeInv, TypeOK
  <2>6. oSeen' = {Size(writeIndex', readIndex')} /\ oPc' = "second"
        /\ oBy' \in OwnThreads
    BY <1>5, <2>1, <2>2, <2>4 DEF OCall
  <2>7. /\ oFirst' = "w" => oW' = writeIndex'
        /\ oFirst' = "r" => oR' = readIndex'
    BY <1>5, <2>4 DEF OCall
  <2>8. QED
    BY <2>3, <2>5, <2>6, <2>7
<1>6. CASE OSecond
  <2>1. TypeInv'
    BY <1>6, TypeStep DEF OSecond
  <2>2. OTypeOK'
    BY <1>6 DEF OSecond, OTypeOK, TypeInv, TypeOK
  <2>3. oBy \in OwnThreads /\ oFirst \in {"w", "r"}
    BY <1>6 DEF OSecond, OTypeOK
  <2>4. Size(oW', oR') \in oSeen'
    <3>1. CASE oFirst = "w" /\ oBy = "producer"
      BY <1>6, <3>1 DEF OSecond
    <3>2. CASE oFirst = "w" /\ oBy = "consumer"
      BY <1>6, <3>2 DEF OSecond
    <3>3. CASE oFirst = "r" /\ oBy = "producer"
      BY <1>6, <3>3 DEF OSecond
    <3>4. CASE oFirst = "r" /\ oBy = "consumer"
      BY <1>6, <3>4 DEF OSecond
    <3>5. QED
      BY <2>3, <3>1, <3>2, <3>3, <3>4 DEF OwnThreads
  <2>5. QED
    BY <1>6, <2>1, <2>2, <2>4 DEF OSecond
<1>7. CASE OReturn
  <2>1. TypeInv'
    BY <1>7, TypeStep DEF OReturn
  <2>2. QED
    BY <1>7, <2>1, NAssume DEF OReturn, OTypeOK, ObserverOps, Idx
<1>8. CASE UNCHANGED allVars
  <2>1. TypeInv'
    BY <1>8, TypeStep DEF allVars
  <2>2. QED
    BY <1>8, <2>1 DEF allVars, vars, obsVars, OTypeOK
<1>9. QED
  BY <1>1, <1>2, <1>3, <1>4, <1>5, <1>6, <1>7, <1>8 DEF ObsNext, Observer

(* size(), full() and empty() called by the producer or the consumer are   *)
(* linearisable for every N: the answer computed from the two separate     *)
(* loads (lines 171-173, 178-179, 184-185, in either order for empty())    *)
(* is the answer for a length the FIFO had during the call.                *)
THEOREM OwnThreadObserversLinearizable ==
  ASSUME Callers \subseteq OwnThreads
  PROVE  ObsSpec => []ObserverLinearizable
<1>1. OInv => ObserverLinearizable
  BY AnswerMeaning DEF OInv, OTypeOK, ObserverLinearizable
<1>2. QED
  BY <1>1, OInit, OStep, PTL DEF ObsSpec
=============================================================================
