--------------------------- MODULE SPSCQueueProofs ---------------------------
(***************************************************************************)
(* Proofs about SPSCQueue for every N, MaxPush, set of consumer operations *)
(* and memory-ordering build.                                              *)
(***************************************************************************)
EXTENDS SPSCQueue, TLAPS

(* TypeOK with the one fact about locals it needs: the producer is inside  *)
(* an operation only with a value left to enqueue.                         *)
TypeInv ==
  /\ TypeOK
  /\ pcP # "idle" => nextVal <= MaxPush

(* The locals of the two operations in progress, as they relate to the     *)
(* shared indices.                                                         *)
ProducerLocals ==
  /\ pcP \in {"refresh", "construct", "publish"} => pNext = (writeIndex + 1) % N
  /\ pcP \in {"construct", "publish"} => pNext # readIndexCache

ConsumerLocals ==
  /\ pcC \in {"refresh", "move", "publish"} => cIdx = readIndex
  /\ pcC \in {"move", "publish"} => cIdx # writeIndexCache
  /\ pcC = "lateMove" => readIndex = (cIdx + 1) % N

(* The inductive strengthening of CachedIndicesConservative.               *)
IInv ==
  /\ TypeInv
  /\ ProducerLocals
  /\ ConsumerLocals
  /\ CachedIndicesConservative
-----------------------------------------------------------------------------
(* Index arithmetic: (i + 1) & mask_ for N a power of two.                 *)

LEMMA NAssume == N \in Nat \ {0}
  BY NAssumption

LEMMA NextIdx ==
  ASSUME NEW i \in Idx
  PROVE  /\ (i + 1) % N = IF i = N - 1 THEN 0 ELSE i + 1
         /\ (i + 1) % N \in Idx
  BY NAssume DEF Idx

-----------------------------------------------------------------------------
(* Type correctness.                                                       *)

LEMMA TypeInit == Init => TypeInv
  BY NAssume, MaxPushAssumption
  DEF Init, TypeInv, TypeOK, Idx, Vals, Nil, None, ProducerOps, AllConsumerOps

LEMMA TypeStep == TypeInv /\ [Next]_vars => TypeInv'
<1> SUFFICES ASSUME TypeInv, [Next]_vars PROVE TypeInv'
  OBVIOUS
<1>. USE NAssume, MaxPushAssumption, ConsumerAssumption
     DEF TypeInv, TypeOK, Idx, Vals, Nil, None, producerVars, consumerVars
<1>1. ASSUME NEW op \in ProducerOps, PCall(op) PROVE TypeInv'
  BY <1>1, NextIdx DEF PCall, ProducerOps
<1>2. CASE PRefresh
  BY <1>2 DEF PRefresh, OnFull, ProducerOps
<1>3. CASE PConstruct
  <2>1. nextVal \in Vals
    BY <1>3 DEF PConstruct
  <2>2. CASE ProducerReorder
    BY <1>3, <2>1, <2>2 DEF PConstruct
  <2>3. CASE ~ProducerReorder
    BY <1>3, <2>1, <2>3 DEF PConstruct
  <2>4. QED
    BY <2>2, <2>3
<1>4. CASE PPublish
  BY <1>4 DEF PPublish
<1>5. ASSUME NEW op \in ConsumerOps, CCall(op) PROVE TypeInv'
  BY <1>5 DEF CCall
<1>6. ASSUME NEW n \in Limits, CConsumeN(n) PROVE TypeInv'
  BY <1>6 DEF CConsumeN, AllConsumerOps
<1>7. CASE CCheck
  BY <1>7 DEF CCheck, AfterCheck
<1>8. CASE CRefresh
  BY <1>8 DEF CRefresh, AfterCheck, OnEmpty
<1>9. CASE CMove
  BY <1>9 DEF CMove
<1>10. CASE CPublish
  <2>1. AfterPublish \in {"idle", "check"}
    BY DEF AfterPublish
  <2>2. got' \in Seq(Vals \cup {Nil})
    <3>1. CASE cOp \in Takers
      BY <1>10, <3>1 DEF CPublish
    <3>2. CASE cOp \notin Takers
      BY <1>10, <3>2 DEF CPublish
    <3>3. QED
      BY <3>1, <3>2
  <2>3. QED
    BY <1>10, <2>1, <2>2, NextIdx DEF CPublish
<1>11. CASE CPublishEarly
  BY <1>11, NextIdx DEF CPublishEarly
<1>12. CASE CLateMove
  BY <1>12 DEF CLateMove
<1>13. ASSUME NEW i \in Idx, Propagate(i) PROVE TypeInv'
  BY <1>13 DEF Propagate
<1>14. CASE Reset
  BY <1>14 DEF Reset
<1>15. CASE UNCHANGED vars
  BY <1>15 DEF vars
<1>16. QED
  BY <1>1, <1>2, <1>3, <1>4, <1>5, <1>6, <1>7, <1>8, <1>9, <1>10, <1>11,
     <1>12, <1>13, <1>14, <1>15
  DEF Next, Producer, Consumer

(* Every reachable state has its type: the indices stay in 0..N-1 through  *)
(* every masked increment and reset, and the slots, pending constructions  *)
(* and received values are all values of 1..MaxPush or Nil.               *)
THEOREM TypeCorrect == Spec => []TypeOK
<1>1. Init => TypeInv
  BY TypeInit
<1>2. TypeInv /\ [Next]_vars => TypeInv'
  BY TypeStep
<1>3. TypeInv => TypeOK
  BY DEF TypeInv
<1>4. QED
  BY <1>1, <1>2, <1>3, PTL DEF Spec
-----------------------------------------------------------------------------
(* size() as the distance from r to w round the ring.                      *)

LEMMA SizeRange ==
  ASSUME NEW a \in Idx, NEW b \in Idx
  PROVE  /\ Size(a, b) \in 0..N-1
         /\ Size(a, b) = 0 <=> a = b
  BY NAssume DEF Size, Idx

\* Two indices at the same distance from a third are equal.
LEMMA SizeInjective ==
  ASSUME NEW a \in Idx, NEW b \in Idx, NEW c \in Idx, Size(a, c) = Size(b, c)
  PROVE  a = b
  BY NAssume DEF Size, Idx

\* Advancing the far end by one slot, short of the near end, adds one.
LEMMA SizeAdvanceFar ==
  ASSUME NEW a \in Idx, NEW c \in Idx, (a + 1) % N # c
  PROVE  Size((a + 1) % N, c) = Size(a, c) + 1
<1>1. (a + 1) % N = IF a = N - 1 THEN 0 ELSE a + 1
  BY NextIdx
<1>2. CASE a = N - 1
  BY <1>1, <1>2, NAssume DEF Size, Idx
<1>3. CASE a # N - 1
  BY <1>1, <1>3, NAssume DEF Size, Idx
<1>4. QED
  BY <1>2, <1>3

\* Advancing the near end by one slot, short of the far end, takes one off.
LEMMA SizeAdvanceNear ==
  ASSUME NEW a \in Idx, NEW r \in Idx, a # r
  PROVE  Size(a, (r + 1) % N) = Size(a, r) - 1
<1>1. (r + 1) % N = IF r = N - 1 THEN 0 ELSE r + 1
  BY NextIdx
<1>2. CASE r = N - 1
  BY <1>1, <1>2, NAssume DEF Size, Idx
<1>3. CASE r # N - 1
  BY <1>1, <1>3, NAssume DEF Size, Idx
<1>4. QED
  BY <1>2, <1>3
-----------------------------------------------------------------------------
(* The cached indices are conservative.                                    *)

\* The index part of IInv, which each step below re-establishes.
IndexInv == ProducerLocals /\ ConsumerLocals /\ CachedIndicesConservative

LEMMA IndexInit == Init => IInv
  BY TypeInit, NAssume
  DEF Init, IInv, ProducerLocals, ConsumerLocals, CachedIndicesConservative, Size

\* A dequeue: the read index r moves from a slot the consumer saw as filled
\* (its cached write index d is not r) to the next one, and both
\* inequalities of CachedIndicesConservative survive it.
LEMMA ConsumerAdvance ==
  ASSUME NEW r \in Idx, NEW w \in Idx, NEW c \in Idx, NEW d \in Idx,
         d # r,
         Size(r, c) <= Size(w, c),
         Size(d, r) <= Size(w, r)
  PROVE  /\ Size((r + 1) % N, c) <= Size(w, c)
         /\ Size(d, (r + 1) % N) <= Size(w, (r + 1) % N)
<1>1. Size(d, r) \in 0..N-1 /\ Size(w, r) \in 0..N-1 /\ Size(d, r) # 0
  BY SizeRange
<1>2. r # w
  BY <1>1, SizeRange
<1>3. Size((r + 1) % N, c) <= Size(w, c)
  <2>1. CASE (r + 1) % N = c
    <3>1. Size((r + 1) % N, c) = 0
      BY <2>1, NextIdx, SizeRange
    <3>2. QED
      BY <3>1, SizeRange
  <2>2. CASE (r + 1) % N # c
    <3>1. Size((r + 1) % N, c) = Size(r, c) + 1
      BY <2>2, SizeAdvanceFar
    <3>2. Size(r, c) # Size(w, c)
      BY <1>2, SizeInjective
    <3>3. Size(r, c) \in 0..N-1 /\ Size(w, c) \in 0..N-1
      BY SizeRange
    <3>4. QED
      BY <3>1, <3>2, <3>3
  <2>3. QED
    BY <2>1, <2>2
<1>4. Size(d, (r + 1) % N) <= Size(w, (r + 1) % N)
  <2>1. Size(d, (r + 1) % N) = Size(d, r) - 1
    BY SizeAdvanceNear
  <2>2. Size(w, (r + 1) % N) = Size(w, r) - 1
    BY <1>2, SizeAdvanceNear
  <2>3. QED
    BY <1>1, <2>1, <2>2
<1>5. QED
  BY <1>3, <1>4

\* An enqueue: the write index w moves to the next slot, which is not the
\* producer's cached read index c.
LEMMA ProducerAdvance ==
  ASSUME NEW r \in Idx, NEW w \in Idx, NEW c \in Idx, NEW d \in Idx,
         (w + 1) % N # c,
         Size(r, c) <= Size(w, c),
         Size(d, r) <= Size(w, r)
  PROVE  /\ Size(r, c) <= Size((w + 1) % N, c)
         /\ Size(d, r) <= Size((w + 1) % N, r)
<1>1. Size((w + 1) % N, c) = Size(w, c) + 1
  BY SizeAdvanceFar
<1>2. (w + 1) % N # r
  <2>1. SUFFICES ASSUME (w + 1) % N = r PROVE FALSE
    OBVIOUS
  <2>2. Size(r, c) = Size(w, c) + 1
    BY <1>1, <2>1
  <2>3. Size(w, c) \in 0..N-1
    BY SizeRange
  <2>4. QED
    BY <2>2, <2>3
<1>3. Size((w + 1) % N, r) = Size(w, r) + 1
  BY <1>2, SizeAdvanceFar
<1>4. /\ Size(w, c) \in 0..N-1 /\ Size(w, r) \in 0..N-1
      /\ Size(r, c) \in 0..N-1 /\ Size(d, r) \in 0..N-1
  BY SizeRange
<1>5. QED
  BY <1>1, <1>3, <1>4, NAssume

LEMMA IndexStep == IInv /\ [Next]_vars => IndexInv'
<1> SUFFICES ASSUME IInv, [Next]_vars PROVE IndexInv'
  OBVIOUS
<1>. USE DEF IInv, TypeInv, IndexInv, producerVars, consumerVars
<1>0. /\ writeIndex \in Idx /\ readIndex \in Idx
      /\ readIndexCache \in Idx /\ writeIndexCache \in Idx
      /\ cIdx \in Idx /\ pNext \in Idx
      /\ pOp \in ProducerOps /\ cOp \in AllConsumerOps
  BY DEF TypeOK
<1>1. ASSUME NEW op \in ProducerOps, PCall(op) PROVE IndexInv'
  BY <1>1 DEF PCall, ProducerLocals, ConsumerLocals, CachedIndicesConservative
<1>2. CASE PRefresh
  <2>1. OnFull[pOp] \in {"idle", "refresh"}
    BY <1>0 DEF OnFull, ProducerOps
  <2>2. Size(readIndex, readIndex) = 0
    BY <1>0, SizeRange
  <2>3. Size(writeIndex, readIndex) \in 0..N-1
    BY <1>0, SizeRange
  <2>4. QED
    BY <1>2, <2>1, <2>2, <2>3
    DEF PRefresh, ProducerLocals, ConsumerLocals, CachedIndicesConservative
<1>3. CASE PConstruct
  BY <1>3 DEF PConstruct, ProducerLocals, ConsumerLocals, CachedIndicesConservative
<1>4. CASE PPublish
  <2>1. CachedIndicesConservative'
    BY <1>0, <1>4, ProducerAdvance
    DEF PPublish, ProducerLocals, CachedIndicesConservative
  <2>2. QED
    BY <1>4, <2>1 DEF PPublish, ProducerLocals, ConsumerLocals
<1>5. ASSUME NEW op \in ConsumerOps, CCall(op) PROVE IndexInv'
  BY <1>5 DEF CCall, ProducerLocals, ConsumerLocals, CachedIndicesConservative
<1>6. ASSUME NEW n \in Limits, CConsumeN(n) PROVE IndexInv'
  BY <1>6 DEF CConsumeN, ProducerLocals, ConsumerLocals, CachedIndicesConservative
<1>7. CASE CCheck
  <2>1. AfterCheck(cOp) \in {"move", "publish"}
    BY DEF AfterCheck
  <2>2. QED
    BY <1>7, <2>1
    DEF CCheck, ProducerLocals, ConsumerLocals, CachedIndicesConservative
<1>8. CASE CRefresh
  <2>1. AfterCheck(cOp) \in {"move", "publish"}
    BY DEF AfterCheck
  <2>2. OnEmpty(cOp) \in {"refresh", "idle"}
    BY DEF OnEmpty
  <2>3. Size(writeIndex, readIndex) \in 0..N-1
    BY <1>0, SizeRange
  <2>4. QED
    BY <1>8, <2>1, <2>2, <2>3
    DEF CRefresh, ProducerLocals, ConsumerLocals, CachedIndicesConservative
<1>9. CASE CMove
  BY <1>9 DEF CMove, ProducerLocals, ConsumerLocals, CachedIndicesConservative
<1>10. CASE CPublish
  <2>1. AfterPublish \in {"idle", "check"}
    BY DEF AfterPublish
  <2>2. cIdx = readIndex /\ writeIndexCache # readIndex
    BY <1>10 DEF CPublish, ConsumerLocals
  <2>3. CachedIndicesConservative'
    BY <1>0, <1>10, <2>2, ConsumerAdvance DEF CPublish, CachedIndicesConservative
  <2>4. QED
    BY <1>10, <2>1, <2>3 DEF CPublish, ProducerLocals, ConsumerLocals
<1>11. CASE CPublishEarly
  <2>1. cIdx = readIndex /\ writeIndexCache # readIndex
    BY <1>11 DEF CPublishEarly, ConsumerLocals
  <2>2. CachedIndicesConservative'
    BY <1>0, <1>11, <2>1, ConsumerAdvance
    DEF CPublishEarly, CachedIndicesConservative
  <2>3. QED
    BY <1>11, <2>1, <2>2 DEF CPublishEarly, ProducerLocals, ConsumerLocals
<1>12. CASE CLateMove
  BY <1>12 DEF CLateMove, ProducerLocals, ConsumerLocals, CachedIndicesConservative
<1>13. ASSUME NEW i \in Idx, Propagate(i) PROVE IndexInv'
  BY <1>13 DEF Propagate, ProducerLocals, ConsumerLocals, CachedIndicesConservative
<1>14. CASE Reset
  BY <1>14 DEF Reset, ProducerLocals, ConsumerLocals, CachedIndicesConservative,
               Size
<1>15. CASE UNCHANGED vars
  BY <1>15 DEF vars, ProducerLocals, ConsumerLocals, CachedIndicesConservative
<1>16. QED
  BY <1>1, <1>2, <1>3, <1>4, <1>5, <1>6, <1>7, <1>8, <1>9, <1>10, <1>11,
     <1>12, <1>13, <1>14, <1>15
  DEF Next, Producer, Consumer

LEMMA IInvariant == Spec => []IInv
<1>1. Init => IInv
  BY IndexInit
<1>2. IInv /\ [Next]_vars => IInv'
  BY TypeStep, IndexStep DEF IInv, IndexInv
<1>3. QED
  BY <1>1, <1>2, PTL DEF Spec

(* The caches are conservative in every reachable state, for every N: the  *)
(* consumer never runs past the producer's cached view of it, and the      *)
(* consumer's cached write index never runs past writeIndex_, across       *)
(* wraparound, every operation and reset().  So the fast paths of emplace  *)
(* (line 44) and pop (line 102) never see room or data that is not there.  *)
THEOREM CachesConservative == Spec => []CachedIndicesConservative
  BY IInvariant, PTL DEF IInv

-----------------------------------------------------------------------------
(* Failures are genuine.                                                   *)

\* The slot after w is r exactly when the ring from r to w is full.
LEMMA SizeFull ==
  ASSUME NEW w \in Idx
  PROVE  Size(w, (w + 1) % N) = N - 1
<1>1. (w + 1) % N = IF w = N - 1 THEN 0 ELSE w + 1
  BY NextIdx
<1>2. QED
  BY <1>1, NAssume DEF Size, Idx

\* The failing step of each thread, from any state of IInv.
LEMMA FailureStep ==
  ASSUME IInv, [Next]_vars
  PROVE  /\ (pcP = "refresh" /\ pcP' = "idle") => Size(writeIndex, readIndex) = N - 1
         /\ (pcC = "refresh" /\ pcC' = "idle") => readIndex = writeIndex
<1>. USE DEF IInv, TypeInv, producerVars, consumerVars
<1>1. ASSUME pcP = "refresh", pcP' = "idle"
      PROVE  Size(writeIndex, readIndex) = N - 1
  <2>1. PRefresh
    BY <1>1 DEF Next, Producer, Consumer, PCall, PConstruct, PPublish, CCall,
                CConsumeN, CCheck, CRefresh, CMove, CPublish, CPublishEarly,
                CLateMove, Propagate, Reset, vars
  <2>2. pNext = readIndex
    BY <1>1, <2>1 DEF PRefresh
  <2>3. pNext = (writeIndex + 1) % N /\ writeIndex \in Idx
    BY <1>1 DEF ProducerLocals, TypeOK
  <2>4. QED
    BY <2>2, <2>3, SizeFull
<1>2. ASSUME pcC = "refresh", pcC' = "idle"
      PROVE  readIndex = writeIndex
  <2>1. CRefresh
    BY <1>2 DEF Next, Producer, Consumer, PCall, PRefresh, PConstruct, PPublish,
                CCall, CConsumeN, CCheck, CMove, CPublish, CPublishEarly,
                CLateMove, Propagate, Reset, vars
  <2>2. cIdx = writeIndex
    BY <1>2, <2>1 DEF CRefresh, AfterCheck
  <2>3. QED
    BY <1>2, <2>2 DEF ConsumerLocals
<1>3. QED
  BY <1>1, <1>2

(* A non-blocking operation fails only when it must, for every N: an       *)
(* emplace that returns false saw a queue of N - 1 values at its load of   *)
(* readIndex_, and a pop, pop() or consume_one that returns false saw an   *)
(* empty queue at its load of writeIndex_.                                 *)
THEOREM FailuresGenuine == Spec => NoSpuriousFailure
<1>1. IInv /\ [Next]_vars =>
        [ /\ (pcP = "refresh" /\ pcP' = "idle") => Size(writeIndex, readIndex) = N - 1
          /\ (pcC = "refresh" /\ pcC' = "idle") => readIndex = writeIndex ]_vars
  BY FailureStep
<1>2. QED
  BY <1>1, IInvariant, PTL DEF Spec, NoSpuriousFailure
=============================================================================
