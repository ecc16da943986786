------------------------ MODULE QueueRefinementProofs ------------------------
(***************************************************************************)
(* Proof that spsc_queue implements BoundedFIFO (QueueRefinement) for      *)
(* every N, MaxPush and set of consumer operations, on a build that keeps  *)
(* the producer's program order (ProducerReorder = FALSE); the consumer's  *)
(* early store of readIndex_ (ConsumerReorder) is allowed.  On a build     *)
(* that reorders the producer's relaxed store the refinement fails (run    *)
(* stale_read), so that hypothesis is the one the code needs.              *)
(*                                                                         *)
(* The abstract queue is read from the ring between readIndex_ and         *)
(* writeIndex_ (Contents), so the argument is about Ring(w, r, f), the     *)
(* sequence of f's values from slot r up to slot w.  A step of the         *)
(* producer or the consumer either leaves every slot of that stretch and   *)
(* both ends alone (a stutter), or moves one end by one slot: Append or    *)
(* Tail of the sequence.                                                   *)
(***************************************************************************)
EXTENDS SPSCQueueProofs, SequenceTheorems

\* The facts about the slots the mapping needs, beyond the index invariant.
DataInv ==
  /\ \A i \in Idx : pending[i] = None
  /\ pcP = "publish" => slot[writeIndex] = nextVal
  /\ pcC \in {"move", "lateMove"} => cOp \in Takers

RInv == IInv /\ DataInv

\* The values of f in the slots from r up to, not including, w.
Ring(w, r, f) == [k \in 1..Size(w, r) |-> f[(r + k - 1) % N]]

\* What each slot holds for the abstract queue.
SV == [i \in Idx |-> SlotVal(i)]

-----------------------------------------------------------------------------
(* The ring as a sequence.                                                 *)

\* The slot k places after r is at distance k from r.
LEMMA RingPos ==
  ASSUME NEW r \in Idx, NEW k \in 0..N-1
  PROVE  /\ (r + k) % N \in Idx
         /\ Size((r + k) % N, r) = k
<1>1. (r + k) % N = IF r + k < N THEN r + k ELSE r + k - N
  BY NAssume DEF Idx
<1>2. QED
  BY <1>1, NAssume DEF Idx, Size

\* Going Size(w, r) slots on from r reaches w.
LEMMA RingEnd ==
  ASSUME NEW w \in Idx, NEW r \in Idx
  PROVE  (r + Size(w, r)) % N = w
  BY NAssume DEF Idx, Size

LEMMA RingEmpty ==
  ASSUME NEW w \in Idx, NEW f
  PROVE  Ring(w, w, f) = << >>
<1>1. Size(w, w) = 0
  BY SizeRange
<1>2. Ring(w, w, f) = [k \in {} |-> f[(w + k - 1) % N]]
  BY <1>1 DEF Ring
<1>3. QED
  BY <1>2

\* The stretch is unchanged when f changes only at a slot j outside it.
LEMMA RingFrame ==
  ASSUME NEW w \in Idx, NEW r \in Idx, NEW j \in Idx, NEW f, NEW g,
         Size(w, r) <= Size(j, r),
         \A i \in Idx \ {j} : g[i] = f[i]
  PROVE  Ring(w, r, g) = Ring(w, r, f)
<1>1. ASSUME NEW k \in 1..Size(w, r)
      PROVE  g[(r + k - 1) % N] = f[(r + k - 1) % N]
  <2>1. Size(w, r) \in 0..N-1 /\ Size(j, r) \in 0..N-1
    BY SizeRange
  <2>2. k - 1 \in 0..N-1
    BY <2>1, NAssume
  <2>3. (r + (k - 1)) % N \in Idx /\ Size((r + (k - 1)) % N, r) = k - 1
    BY <2>2, RingPos
  <2>4. (r + (k - 1)) % N # j
    BY <2>1, <2>3
  <2>5. r + k - 1 = r + (k - 1)
    BY DEF Idx
  <2>6. QED
    BY <2>3, <2>4, <2>5
<1>2. QED
  BY <1>1 DEF Ring

\* Slot indices are taken modulo N.
LEMMA ModIdx ==
  ASSUME NEW x \in Nat
  PROVE  x % N \in Idx
  BY NAssume DEF Idx

\* The k-th slot of a stretch that starts at r.
LEMMA RingIdx ==
  ASSUME NEW r \in Idx, NEW k \in Nat \ {0}
  PROVE  (r + k - 1) % N \in Idx
  BY NAssume DEF Idx

\* The stretch is a sequence of the values f takes.
LEMMA RingSeq ==
  ASSUME NEW w \in Idx, NEW r \in Idx, NEW f, NEW T,
         \A i \in Idx : f[i] \in T
  PROVE  /\ Ring(w, r, f) \in Seq(T)
         /\ Len(Ring(w, r, f)) = Size(w, r)
<1>1. Size(w, r) \in Nat
  BY SizeRange, NAssume DEF Idx
<1>2. \A k \in 1..Size(w, r) : f[(r + k - 1) % N] \in T
  BY ModIdx DEF Idx
<1>3. Ring(w, r, f) \in Seq(T)
  BY <1>1, <1>2, IsASeq DEF Ring
<1>4. QED
  BY <1>1, <1>3, LenProperties DEF Ring

\* An enqueue: w moves on by one, and the slot it leaves joins the stretch.
LEMMA RingAppend ==
  ASSUME NEW w \in Idx, NEW r \in Idx, NEW f, NEW g,
         (w + 1) % N # r,
         \A i \in Idx \ {w} : g[i] = f[i]
  PROVE  Ring((w + 1) % N, r, g) = Append(Ring(w, r, f), g[w])
<1> DEFINE S == Size(w, r)
           T == {f[i] : i \in Idx} \cup {g[i] : i \in Idx}
<1>1. Size((w + 1) % N, r) = S + 1 /\ S \in 0..N-1
  BY SizeAdvanceFar, SizeRange
<1>2. Ring(w, r, g) = Ring(w, r, f)
  <2>1. Size(w, r) <= Size(w, r)
    BY <1>1
  <2>2. QED
    BY <2>1, RingFrame
<1>3. /\ Ring(w, r, g) \in Seq(T) /\ Len(Ring(w, r, g)) = S
      /\ Ring((w + 1) % N, r, g) \in Seq(T)
      /\ Len(Ring((w + 1) % N, r, g)) = S + 1
  <2>1. \A i \in Idx : g[i] \in T
    OBVIOUS
  <2>2. (w + 1) % N \in Idx
    BY NextIdx
  <2>3. Ring(w, r, g) \in Seq(T) /\ Len(Ring(w, r, g)) = S
    BY <2>1, RingSeq
  <2>4. Ring((w + 1) % N, r, g) \in Seq(T)
        /\ Len(Ring((w + 1) % N, r, g)) = Size((w + 1) % N, r)
    BY <2>1, <2>2, RingSeq
  <2>5. QED
    BY <1>1, <2>3, <2>4
<1>4. g[w] \in T
  OBVIOUS
<1>5. /\ Append(Ring(w, r, g), g[w]) \in Seq(T)
      /\ Len(Append(Ring(w, r, g), g[w])) = S + 1
      /\ \A k \in 1..S : Append(Ring(w, r, g), g[w])[k] = Ring(w, r, g)[k]
      /\ Append(Ring(w, r, g), g[w])[S + 1] = g[w]
  BY <1>3, <1>4, AppendProperties
<1>6. ASSUME NEW k \in 1..S + 1
      PROVE  Ring((w + 1) % N, r, g)[k] = Append(Ring(w, r, g), g[w])[k]
  <2>1. CASE k <= S
    BY <1>1, <1>5, <2>1 DEF Ring
  <2>2. CASE k = S + 1
    <3>0. r + k - 1 = r + Size(w, r)
      BY <1>1, <2>2 DEF Idx
    <3>1. (r + k - 1) % N = w
      BY <3>0, RingEnd
    <3>2. QED
      BY <1>1, <1>5, <2>2, <3>1 DEF Ring
  <2>3. k <= S \/ k = S + 1
    BY <1>1
  <2>4. QED
    BY <2>1, <2>2, <2>3
<1>7. QED
  BY <1>2, <1>3, <1>5, <1>6, SeqEqual

\* A dequeue: r moves on by one, and the slot it leaves, the head, drops out.
LEMMA RingTail ==
  ASSUME NEW w \in Idx, NEW r \in Idx, NEW f, NEW g,
         w # r,
         \A i \in Idx \ {r} : g[i] = f[i]
  PROVE  /\ Ring(w, r, f) # << >>
         /\ Head(Ring(w, r, f)) = f[r]
         /\ Ring(w, (r + 1) % N, g) = Tail(Ring(w, r, f))
<1> DEFINE S == Size(w, r)
           T == {f[i] : i \in Idx} \cup {g[i] : i \in Idx}
<1>1. S \in 1..N-1 /\ Size(w, (r + 1) % N) = S - 1
  BY SizeRange, SizeAdvanceNear
<1>2. /\ Ring(w, r, f) \in Seq(T) /\ Len(Ring(w, r, f)) = S
      /\ Ring(w, (r + 1) % N, g) \in Seq(T)
      /\ Len(Ring(w, (r + 1) % N, g)) = S - 1
  <2>1. \A i \in Idx : g[i] \in T /\ f[i] \in T
    OBVIOUS
  <2>2. (r + 1) % N \in Idx
    BY NextIdx
  <2>3. Ring(w, r, f) \in Seq(T) /\ Len(Ring(w, r, f)) = S
    BY <2>1, RingSeq
  <2>4. Ring(w, (r + 1) % N, g) \in Seq(T)
        /\ Len(Ring(w, (r + 1) % N, g)) = Size(w, (r + 1) % N)
    BY <2>1, <2>2, RingSeq
  <2>5. QED
    BY <1>1, <2>3, <2>4
<1>3. Ring(w, r, f) # << >>
  BY <1>1, <1>2
<1>4. Head(Ring(w, r, f)) = f[r]
  <2>1. r % N = r
    BY NAssume DEF Idx
  <2>2. Ring(w, r, f)[1] = f[(r + 1 - 1) % N]
    BY <1>1 DEF Ring
  <2>3. r + 1 - 1 = r
    BY DEF Idx
  <2>4. Head(Ring(w, r, f)) = Ring(w, r, f)[1]
    BY <1>2, <1>3
  <2>5. QED
    BY <2>1, <2>2, <2>3, <2>4
<1>5. /\ Tail(Ring(w, r, f)) \in Seq(T)
      /\ Len(Tail(Ring(w, r, f))) = S - 1
      /\ \A i \in 1..S - 1 : Tail(Ring(w, r, f))[i] = Ring(w, r, f)[i + 1]
  BY <1>2, <1>3, HeadTailProperties
<1>6. ASSUME NEW i \in 1..S - 1
      PROVE  Ring(w, (r + 1) % N, g)[i] = Tail(Ring(w, r, f))[i]
  <2>1. (((r + 1) % N) + i - 1) % N = (r + i) % N
    <3>1. (r + 1) % N = IF r = N - 1 THEN 0 ELSE r + 1
      BY NextIdx
    <3>2. QED
      BY <3>1, <1>1, NAssume DEF Idx
  <2>2. i \in 0..N-1
    BY <1>1, NAssume
  <2>3. (r + i) % N \in Idx /\ Size((r + i) % N, r) = i
    BY <2>2, RingPos
  <2>4. (r + i) % N # r
    BY <2>3, SizeRange
  <2>5. Ring(w, (r + 1) % N, g)[i] = g[(r + i) % N]
    BY <1>1, <2>1 DEF Ring
  <2>6. Ring(w, r, f)[i + 1] = f[(r + i) % N]
    BY <1>1 DEF Ring
  <2>7. QED
    BY <1>5, <2>3, <2>4, <2>5, <2>6
<1>7. QED
  BY <1>2, <1>3, <1>4, <1>5, <1>6, SeqEqual
-----------------------------------------------------------------------------
(* Consequences of the index invariant.                                    *)

\* The consumer works on a slot in the stretch, the producer's slot lies
\* beyond it, and after an early store of readIndex_ the slot still to be
\* moved out of is not the producer's.
LEMMA IndexFacts ==
  ASSUME IInv
  PROVE  /\ pcC \in {"move", "publish"} => readIndex # writeIndex
         /\ pcP \in {"construct", "publish"} => (writeIndex + 1) % N # readIndex
         /\ pcC = "lateMove" /\ pcP \in {"construct", "publish"} =>
              writeIndex # cIdx
<1>. USE DEF IInv, TypeInv, TypeOK
<1>1. ASSUME pcC \in {"move", "publish"} PROVE readIndex # writeIndex
  <2>1. cIdx = readIndex /\ cIdx # writeIndexCache
    BY <1>1 DEF ConsumerLocals
  <2>2. Size(writeIndexCache, readIndex) <= Size(writeIndex, readIndex)
    BY DEF CachedIndicesConservative
  <2>3. /\ Size(writeIndexCache, readIndex) \in 0..N-1
        /\ Size(writeIndexCache, readIndex) = 0 <=> writeIndexCache = readIndex
    BY SizeRange
  <2>4. Size(writeIndex, readIndex) # 0
    BY <2>1, <2>2, <2>3
  <2>5. QED
    BY <2>4, SizeRange
<1>2. ASSUME pcP \in {"construct", "publish"}
      PROVE  (writeIndex + 1) % N # readIndex
  <2>1. pNext = (writeIndex + 1) % N /\ pNext # readIndexCache
    BY <1>2 DEF ProducerLocals
  <2>2. Size(readIndex, readIndexCache) <= Size(writeIndex, readIndexCache)
    BY DEF CachedIndicesConservative
  <2>3. Size((writeIndex + 1) % N, readIndexCache)
          = Size(writeIndex, readIndexCache) + 1
    BY <2>1, SizeAdvanceFar
  <2>4. Size(writeIndex, readIndexCache) \in 0..N-1
    BY SizeRange
  <2>5. QED
    BY <2>2, <2>3, <2>4
<1>3. ASSUME pcC = "lateMove", pcP \in {"construct", "publish"}
      PROVE  writeIndex # cIdx
  <2>1. readIndex = (cIdx + 1) % N
    BY <1>3 DEF ConsumerLocals
  <2>2. QED
    BY <1>2, <1>3, <2>1
<1>4. QED
  BY <1>1, <1>2, <1>3

-----------------------------------------------------------------------------
(* DataInv is invariant on a build that keeps the producer's order.        *)

LEMMA DataInit == Init => DataInv
  BY DEF Init, DataInv

LEMMA DataStep ==
  ASSUME ~ProducerReorder, RInv, [Next]_vars
  PROVE  DataInv'
<1>. USE DEF RInv, DataInv, producerVars, consumerVars
<1>0. /\ writeIndex \in Idx /\ cIdx \in Idx
      /\ slot \in [Idx -> Vals \cup {Nil}]
      /\ pending \in [Idx -> Vals \cup {None}]
  BY DEF IInv, TypeInv, TypeOK
<1>1. ASSUME NEW op \in ProducerOps, PCall(op) PROVE DataInv'
  BY <1>1 DEF PCall
<1>2. CASE PRefresh
  BY <1>2 DEF PRefresh, OnFull, IInv, TypeInv, TypeOK, ProducerOps
<1>3. CASE PConstruct
  BY <1>0, <1>3 DEF PConstruct
<1>4. CASE PPublish
  BY <1>4 DEF PPublish
<1>5. ASSUME NEW op \in ConsumerOps, CCall(op) PROVE DataInv'
  BY <1>5 DEF CCall
<1>6. ASSUME NEW n \in Limits, CConsumeN(n) PROVE DataInv'
  BY <1>6 DEF CConsumeN
<1>7. CASE CCheck
  BY <1>7 DEF CCheck, AfterCheck
<1>8. CASE CRefresh
  BY <1>8 DEF CRefresh, AfterCheck, OnEmpty
<1>9. CASE CMove
  <2>1. pcP = "publish" => cIdx # writeIndex
    BY <1>9, IndexFacts DEF CMove, IInv, ConsumerLocals
  <2>2. QED
    BY <1>0, <1>9, <2>1 DEF CMove
<1>10. CASE CPublish
  BY <1>10 DEF CPublish, AfterPublish
<1>11. CASE CPublishEarly
  BY <1>11 DEF CPublishEarly, RelaxedTakers, Takers
<1>12. CASE CLateMove
  <2>1. pcP = "publish" => cIdx # writeIndex
    BY <1>12, IndexFacts DEF CLateMove
  <2>2. QED
    BY <1>0, <1>12, <2>1 DEF CLateMove
<1>13. ASSUME NEW i \in Idx, Propagate(i) PROVE DataInv'
  BY <1>13 DEF Propagate
<1>14. CASE Reset
  BY <1>14 DEF Reset
<1>15. CASE UNCHANGED vars
  BY <1>15 DEF vars
<1>16. QED
  BY <1>1, <1>2, <1>3, <1>4, <1>5, <1>6, <1>7, <1>8, <1>9, <1>10, <1>11,
     <1>12, <1>13, <1>14, <1>15
  DEF Next, Producer, Consumer
-----------------------------------------------------------------------------
(* The refinement mapping, step by step.                                   *)

LEMMA ContentsRing ==
  ASSUME TypeOK
  PROVE  Contents = Ring(writeIndex, readIndex, SV)
<1>1. ASSUME NEW k \in 1..Size(writeIndex, readIndex)
      PROVE  (readIndex + k - 1) % N \in Idx
  <2>1. readIndex + k - 1 \in Nat
    BY DEF TypeOK, Idx
  <2>2. QED
    BY <2>1, ModIdx
<1>2. QED
  BY <1>1 DEF Contents, Ring, SV

LEMMA ContentsRingPrime ==
  ASSUME TypeOK'
  PROVE  Contents' = Ring(writeIndex', readIndex', SV')
<1>1. \A k \in Nat \ {0} : (readIndex' + k - 1) % N \in Idx
  <2>1. SUFFICES ASSUME NEW k \in Nat \ {0}
                 PROVE  (readIndex' + k - 1) % N \in Idx
    OBVIOUS
  <2>2. readIndex' \in Idx
    BY DEF TypeOK
  <2>3. QED
    BY <2>2, RingIdx
<1>2. writeIndex' \in Idx /\ readIndex' \in Idx
  BY DEF TypeOK
<1>3. Size(writeIndex', readIndex') \in Nat
  BY <1>2, SizeRange, NAssume DEF Idx
<1>4. QED
  BY <1>1, <1>3 DEF Contents, Ring, SV

\* Every slot holds a value or Nil for the abstract queue.
LEMMA SVType ==
  ASSUME TypeOK
  PROVE  \A i \in Idx : SV[i] \in Vals \cup {Nil}
  BY DEF TypeOK, SV, SlotVal

LEMMA ContentsLenRing ==
  ASSUME TypeOK
  PROVE  /\ Contents \in Seq(Vals \cup {Nil})
         /\ Len(Contents) = Size(writeIndex, readIndex)
<1>1. writeIndex \in Idx /\ readIndex \in Idx
  BY DEF TypeOK
<1>2. \A i \in Idx : SV[i] \in Vals \cup {Nil}
  BY SVType
<1>3. /\ Ring(writeIndex, readIndex, SV) \in Seq(Vals \cup {Nil})
      /\ Len(Ring(writeIndex, readIndex, SV)) = Size(writeIndex, readIndex)
  BY <1>1, <1>2, RingSeq
<1>4. QED
  BY <1>3, ContentsRing

\* A step that moves neither index and no value of the stretch.
LEMMA MapStutter ==
  ASSUME TypeOK, TypeOK',
         writeIndex' = writeIndex, readIndex' = readIndex, SV' = SV
  PROVE  Contents' = Contents
  BY ContentsRing, ContentsRingPrime

\* A step that moves readIndex on by one and changes at most its slot.
LEMMA ContentsTail ==
  ASSUME TypeOK, TypeOK', writeIndex # readIndex,
         writeIndex' = writeIndex, readIndex' = (readIndex + 1) % N,
         \A i \in Idx \ {readIndex} : SV'[i] = SV[i]
  PROVE  /\ Contents # << >>
         /\ Head(Contents) = SV[readIndex]
         /\ Contents' = Tail(Contents)
<1>1. writeIndex \in Idx /\ readIndex \in Idx
  BY DEF TypeOK
<1>2. /\ Ring(writeIndex, readIndex, SV) # << >>
      /\ Head(Ring(writeIndex, readIndex, SV)) = SV[readIndex]
      /\ Ring(writeIndex, (readIndex + 1) % N, SV')
           = Tail(Ring(writeIndex, readIndex, SV))
  BY <1>1, RingTail
<1>3. Contents = Ring(writeIndex, readIndex, SV)
  BY ContentsRing
<1>4. Contents' = Ring(writeIndex, (readIndex + 1) % N, SV')
  BY ContentsRingPrime
<1>5. QED
  BY <1>2, <1>3, <1>4

\* Each step is an enqueue of nextVal, the producer's next value, or a
\* take, discard, clear or stutter that leaves nextVal alone.
LEMMA MapStep ==
  ASSUME ~ProducerReorder, RInv, [Next]_vars
  PROVE  \/ /\ Fifo!Enqueue(nextVal) /\ nextVal \in Vals
            /\ nextVal' = nextVal + 1
         \/ /\ Fifo!Take \/ Fifo!Discard \/ Fifo!Clear
               \/ UNCHANGED <<Contents, Taken>>
            /\ nextVal' = nextVal
<1>. USE DEF RInv
<1>0. /\ TypeOK /\ TypeOK'
      /\ writeIndex \in Idx /\ readIndex \in Idx /\ cIdx \in Idx
      /\ slot \in [Idx -> Vals \cup {Nil}]
      /\ pcP # "idle" => nextVal \in Vals
  <2>1. TypeInv'
    BY TypeStep DEF IInv
  <2>2. QED
    BY <2>1 DEF IInv, TypeInv, TypeOK, Vals
<1>f. /\ pcC \in {"move", "publish"} => readIndex # writeIndex
      /\ pcP \in {"construct", "publish"} => (writeIndex + 1) % N # readIndex
      /\ pcC = "lateMove" /\ pcP \in {"construct", "publish"} =>
           writeIndex # cIdx
      /\ pcC \in {"refresh", "move", "publish"} => cIdx = readIndex
      /\ pcC = "lateMove" => readIndex = (cIdx + 1) % N
  BY IndexFacts DEF IInv, ConsumerLocals
<1>1. CASE (\E op \in ProducerOps : PCall(op)) \/ PRefresh
  <2>1. UNCHANGED <<writeIndex, readIndex, slot, pcC, cOp, cIdx, item, got>>
    BY <1>1 DEF PCall, PRefresh, consumerVars
  <2>2. SV' = SV /\ Taken' = Taken
    BY <2>1 DEF SV, SlotVal, Taken
  <2>n. nextVal' = nextVal
    BY <1>1 DEF PCall, PRefresh
  <2>3. QED
    BY <1>0, <2>1, <2>2, MapStutter, <2>n
<1>2. CASE \/ \E op \in ConsumerOps : CCall(op)
           \/ \E n \in Limits : CConsumeN(n)
           \/ CCheck
           \/ CRefresh
  <2>1. /\ UNCHANGED <<writeIndex, readIndex, slot, got>>
        /\ pcC \in {"idle", "check", "refresh"}
        /\ pcC' # "lateMove"
        /\ pcC' = "publish" => cOp' \notin Takers
    <3>1. CASE \E op \in ConsumerOps : CCall(op)
      BY <3>1 DEF CCall
    <3>2. CASE \E n \in Limits : CConsumeN(n)
      BY <3>2 DEF CConsumeN
    <3>3. CASE CCheck
      BY <3>3 DEF CCheck, AfterCheck
    <3>4. CASE CRefresh
      BY <3>4 DEF CRefresh, AfterCheck, OnEmpty
    <3>5. QED
      BY <1>2, <3>1, <3>2, <3>3, <3>4
  <2>2. SV' = SV
    BY <2>1 DEF SV, SlotVal
  <2>3. Taken' = Taken
    BY <2>1 DEF Taken
  <2>n. nextVal' = nextVal
    BY <1>2 DEF CCall, CConsumeN, CCheck, CRefresh, producerVars
  <2>4. QED
    BY <1>0, <2>1, <2>2, <2>3, MapStutter, <2>n
<1>3. CASE PConstruct
  <2>1. /\ slot' = [slot EXCEPT ![writeIndex] = nextVal]
        /\ pcP = "construct"
        /\ UNCHANGED <<writeIndex, readIndex, pcC, cOp, cIdx, item, got>>
    BY <1>3 DEF PConstruct, consumerVars
  <2>2. \A i \in Idx \ {writeIndex} : SV'[i] = SV[i]
    BY <1>0, <2>1 DEF SV, SlotVal
  <2>3. Size(writeIndex, readIndex) <= Size(writeIndex, readIndex)
    BY <1>0, SizeRange
  <2>4. Ring(writeIndex, readIndex, SV') = Ring(writeIndex, readIndex, SV)
    BY <1>0, <2>2, <2>3, RingFrame
  <2>5. Contents' = Contents
    BY <1>0, <2>1, <2>4, ContentsRing, ContentsRingPrime
  <2>6. Taken' = Taken
    BY <1>0, <1>f, <2>1 DEF Taken
  <2>n. nextVal' = nextVal
    BY <1>3 DEF PConstruct
  <2>7. QED
    BY <2>5, <2>6, <2>n
<1>4. CASE PPublish
  <2>1. /\ writeIndex' = (writeIndex + 1) % N
        /\ pcP = "publish"
        /\ UNCHANGED <<readIndex, slot, pcC, cOp, cIdx, item, got>>
    BY <1>4 DEF PPublish, consumerVars, IInv, ProducerLocals
  <2>2. SV' = SV /\ Taken' = Taken
    BY <2>1 DEF SV, SlotVal, Taken
  <2>3. (writeIndex + 1) % N # readIndex
    BY <1>f, <2>1
  <2>4. Contents' = Append(Contents, SV[writeIndex])
    BY <1>0, <2>1, <2>2, <2>3, RingAppend, ContentsRing, ContentsRingPrime
  <2>5. SV[writeIndex] = nextVal /\ nextVal \in Vals
    <3>1. pcC = "publish" => cIdx # writeIndex
      BY <1>f
    <3>2. QED
      BY <1>0, <2>1, <3>1 DEF SV, SlotVal, DataInv
  <2>6. Len(Contents) < capacity
    <3>1. Size((writeIndex + 1) % N, readIndex) = Size(writeIndex, readIndex) + 1
      BY <1>0, <2>3, SizeAdvanceFar
    <3>2. Size((writeIndex + 1) % N, readIndex) \in 0..N-1
      BY <1>0, NextIdx, SizeRange
    <3>3. Len(Contents) = Size(writeIndex, readIndex)
      BY <1>0, ContentsLenRing
    <3>4. Size(writeIndex, readIndex) \in 0..N-1
      BY <1>0, SizeRange
    <3>6. Size(writeIndex, readIndex) < N - 1
      BY <3>1, <3>2, <3>4, NAssume
    <3>5. QED
      BY <3>3, <3>6 DEF capacity
  <2>7. Fifo!Enqueue(nextVal)
    BY <2>2, <2>4, <2>5, <2>6 DEF Fifo!Enqueue
  <2>n. nextVal' = nextVal + 1
    BY <1>4 DEF PPublish
  <2>8. QED
    BY <2>5, <2>7, <2>n
<1>5. CASE CMove
  <2>1. /\ pcC = "move" /\ pcC' = "publish" /\ cOp \in Takers
        /\ item' = slot[cIdx] /\ slot' = [slot EXCEPT ![cIdx] = Nil]
        /\ UNCHANGED <<writeIndex, readIndex, cOp, cIdx, got>>
    BY <1>5 DEF CMove, DataInv
  <2>2. SV' = SV
    BY <1>0, <2>1 DEF SV, SlotVal
  <2>3. Taken' = Taken
    BY <2>1 DEF Taken
  <2>n. nextVal' = nextVal
    BY <1>5 DEF CMove, producerVars
  <2>4. QED
    BY <1>0, <2>1, <2>2, <2>3, MapStutter, <2>n
<1>6. CASE CPublish
  <2>1. /\ pcC = "publish" /\ cIdx = readIndex
        /\ readIndex' = (readIndex + 1) % N
        /\ pcC' \in {"idle", "check"}
        /\ got' = IF cOp \in Takers THEN Append(got, item) ELSE got
        /\ UNCHANGED <<writeIndex, slot, cOp, cIdx, item>>
    BY <1>6, <1>f DEF CPublish, AfterPublish
  <2>2. \A i \in Idx \ {readIndex} : SV'[i] = SV[i]
    BY <2>1 DEF SV, SlotVal
  <2>3. readIndex # writeIndex
    BY <1>f, <2>1
  <2>4. /\ Contents # << >>
        /\ Head(Contents) = SV[readIndex]
        /\ Contents' = Tail(Contents)
    BY <1>0, <2>1, <2>2, <2>3, ContentsTail
  <2>5. SV[readIndex] = IF cOp \in Takers THEN item ELSE slot[readIndex]
    BY <1>0, <2>1 DEF SV, SlotVal
  <2>6. Taken = got /\ Taken' = got'
    BY <2>1 DEF Taken
  <2>n. nextVal' = nextVal
    BY <1>6 DEF CPublish, producerVars
  <2>7. CASE cOp \in Takers
    BY <2>1, <2>4, <2>5, <2>6, <2>7, <2>n DEF Fifo!Take
  <2>8. CASE cOp \notin Takers
    BY <2>1, <2>4, <2>6, <2>8, <2>n DEF Fifo!Discard
  <2>9. QED
    BY <2>7, <2>8
<1>7. CASE CPublishEarly
  <2>1. /\ pcC = "move" /\ cIdx = readIndex /\ pcC' = "lateMove"
        /\ readIndex' = (readIndex + 1) % N
        /\ UNCHANGED <<writeIndex, slot, cOp, cIdx, item, got>>
    BY <1>7, <1>f DEF CPublishEarly
  <2>2. SV' = SV
    BY <2>1 DEF SV, SlotVal
  <2>3. readIndex # writeIndex
    BY <1>f, <2>1
  <2>4. /\ Contents # << >>
        /\ Head(Contents) = SV[readIndex]
        /\ Contents' = Tail(Contents)
    BY <1>0, <2>1, <2>2, <2>3, ContentsTail
  <2>5. SV[readIndex] = slot[cIdx]
    BY <1>0, <2>1 DEF SV, SlotVal
  <2>6. Taken = got /\ Taken' = Append(got, slot[cIdx])
    BY <2>1 DEF Taken
  <2>n. nextVal' = nextVal
    BY <1>7 DEF CPublishEarly, producerVars
  <2>7. QED
    BY <2>4, <2>5, <2>6, <2>n DEF Fifo!Take
<1>8. CASE CLateMove
  <2>1. /\ pcC = "lateMove" /\ pcC' = "idle"
        /\ readIndex = (cIdx + 1) % N
        /\ slot' = [slot EXCEPT ![cIdx] = Nil]
        /\ got' = Append(got, slot[cIdx])
        /\ UNCHANGED <<writeIndex, readIndex, cIdx>>
    BY <1>8, <1>f DEF CLateMove
  <2>2. \A i \in Idx \ {cIdx} : SV'[i] = SV[i]
    BY <1>0, <2>1 DEF SV, SlotVal
  <2>3. Size(writeIndex, readIndex) <= Size(cIdx, readIndex)
    <3>1. Size(cIdx, readIndex) = N - 1
      BY <1>0, <2>1, SizeFull
    <3>2. QED
      BY <1>0, <3>1, SizeRange
  <2>4. Ring(writeIndex, readIndex, SV') = Ring(writeIndex, readIndex, SV)
    BY <1>0, <2>2, <2>3, RingFrame
  <2>5. Contents' = Contents
    BY <1>0, <2>1, <2>4, ContentsRing, ContentsRingPrime
  <2>6. Taken' = Taken
    BY <2>1 DEF Taken
  <2>n. nextVal' = nextVal
    BY <1>8 DEF CLateMove, producerVars
  <2>7. QED
    BY <2>5, <2>6, <2>n
<1>9. ASSUME NEW i \in Idx, Propagate(i) PROVE FALSE
  BY <1>9 DEF Propagate, DataInv
<1>10. CASE Reset
  <2>1. /\ writeIndex' = 0 /\ readIndex' = 0
        /\ pcC = "idle" /\ UNCHANGED <<pcC, got>>
    BY <1>10 DEF Reset, consumerVars
  <2>2. Contents' = << >>
    <3>1. 0 \in Idx
      BY NAssume DEF Idx
    <3>2. Contents' = Ring(0, 0, SV')
      BY <1>0, <2>1, ContentsRingPrime
    <3>3. QED
      BY <3>1, <3>2, RingEmpty
  <2>3. Taken' = Taken
    BY <2>1 DEF Taken
  <2>n. nextVal' = nextVal
    BY <1>10 DEF Reset, producerVars
  <2>4. QED
    BY <2>2, <2>3, <2>n DEF Fifo!Clear
<1>11. CASE UNCHANGED vars
  BY <1>11 DEF vars, Contents, SlotVal, Taken
<1>12. QED
  BY <1>1, <1>2, <1>3, <1>4, <1>5, <1>6, <1>7, <1>8, <1>9, <1>10, <1>11
  DEF Next, Producer, Consumer
-----------------------------------------------------------------------------
(* The theorem.                                                            *)

LEMMA RInvariant ==
  ASSUME ~ProducerReorder
  PROVE  Spec => []RInv
<1>1. Init => RInv
  BY IndexInit, DataInit DEF RInv
<1>2. RInv /\ [Next]_vars => RInv'
  BY TypeStep, IndexStep, DataStep DEF RInv, IInv, IndexInv
<1>3. QED
  BY <1>1, <1>2, PTL DEF Spec

LEMMA MapInit == Init => Fifo!Init
<1> SUFFICES ASSUME Init PROVE Fifo!Init
  OBVIOUS
<1>1. TypeOK
  BY TypeInit DEF TypeInv
<1>2. Contents = << >>
  <2>1. 0 \in Idx
    BY NAssume DEF Idx
  <2>2. Contents = Ring(0, 0, SV)
    BY <1>1, ContentsRing DEF Init
  <2>3. QED
    BY <2>1, <2>2, RingEmpty
<1>3. Taken = << >>
  BY DEF Init, Taken
<1>4. QED
  BY <1>2, <1>3 DEF Fifo!Init

(* spsc_queue implements a FIFO of capacity N - 1, for every N, MaxPush    *)
(* and set of consumer operations, on a build that keeps the producer's    *)
(* program order (construction of the slot, line 50, before the relaxed    *)
(* store of writeIndex_, lines 51 and 66): each store of writeIndex_ is an *)
(* enqueue, each store of readIndex_ (lines 84, 96, 112, 128, 147) a take  *)
(* of the head or, for pop() and force_pop(), its discard, reset() on an   *)
(* idle queue a clear, and every other step leaves the FIFO alone; this    *)
(* includes a pop that moves out after its own relaxed store of readIndex_ *)
(* (ConsumerReorder).                                                      *)
THEOREM QueueImplementsFIFO ==
  ASSUME ~ProducerReorder
  PROVE  Spec => QueueRefinement
<1>1. Spec => []RInv
  BY RInvariant
<1>2. RInv /\ [Next]_vars => [Fifo!Next]_<<Contents, Taken>>
  BY MapStep DEF Fifo!Next
<1>3. QED
  BY <1>1, <1>2, MapInit, PTL
  DEF Spec, QueueRefinement, Fifo!Spec, Fifo!fifoVars
=============================================================================
