------------------------------ MODULE OrderProofs ------------------------------
(***************************************************************************)
(* Proof that the consumer receives the producer's values in order, each   *)
(* once (InOrder, the stress test's check), for every N, on a build that   *)
(* keeps the producer's program order.  The argument runs on the abstract  *)
(* FIFO that QueueRefinementProofs maps the queue to: what was taken,      *)
(* followed by what is queued, is strictly increasing and below nextVal,   *)
(* and each step of the queue is an enqueue of nextVal or a take, discard, *)
(* clear or stutter of the FIFO (lemma MapStep).                           *)
(***************************************************************************)
EXTENDS QueueRefinementProofs

\* s is strictly increasing.
Increasing(s) == \A i, j \in 1..Len(s) : i < j => s[i] < s[j]

\* Every value in s is below v.
Below(s, v) == \A i \in 1..Len(s) : s[i] < v

OrderInv ==
  /\ Contents \in Seq(Vals) /\ Taken \in Seq(Vals)
  /\ Increasing(Contents) /\ Increasing(Taken)
  /\ Below(Contents, nextVal) /\ Below(Taken, nextVal)
  /\ Taken # << >> /\ Contents # << >> => Taken[Len(Taken)] < Contents[1]
-----------------------------------------------------------------------------
(* Increasing sequences.                                                   *)

\* Appending a value above all of an increasing sequence keeps it increasing.
LEMMA AppendIncreasing ==
  ASSUME NEW S \in SUBSET Int, NEW s \in Seq(S), NEW x \in S,
         Increasing(s), Below(s, x)
  PROVE  /\ Append(s, x) \in Seq(S)
         /\ Increasing(Append(s, x))
<1>1. /\ Append(s, x) \in Seq(S)
      /\ Len(Append(s, x)) = Len(s) + 1
      /\ \A i \in 1..Len(s) : Append(s, x)[i] = s[i]
      /\ Append(s, x)[Len(s) + 1] = x
  BY AppendProperties
<1>2. Len(s) \in Nat
  BY LenProperties
<1>3. QED
  BY <1>1, <1>2 DEF Increasing, Below

\* The tail of an increasing sequence is increasing, and above its head.
LEMMA TailIncreasing ==
  ASSUME NEW S \in SUBSET Int, NEW s \in Seq(S), s # << >>, Increasing(s)
  PROVE  /\ Tail(s) \in Seq(S)
         /\ Increasing(Tail(s))
         /\ Head(s) \in S
         /\ Head(s) = s[1]
         /\ Tail(s) # << >> => Head(s) < Tail(s)[1]
         /\ \A v \in Int : Below(s, v) => Below(Tail(s), v)
<1>1. /\ Head(s) \in S
      /\ Tail(s) \in Seq(S)
      /\ Len(Tail(s)) = Len(s) - 1
      /\ \A i \in 1..Len(Tail(s)) : Tail(s)[i] = s[i + 1]
  BY HeadTailProperties
<1>2. Len(s) \in Nat \ {0} /\ Head(s) = s[1]
  BY EmptySeq, LenProperties
<1>3. Tail(s) # << >> => Len(Tail(s)) \in Nat \ {0}
  BY <1>1, EmptySeq
<1>4. QED
  BY <1>1, <1>2, <1>3 DEF Increasing, Below
\* The elements of a sequence of values are integers.
LEMMA ValsElem ==
  ASSUME NEW s \in Seq(Vals), NEW i \in 1..Len(s)
  PROVE  s[i] \in Int
<1>1. s[i] \in Vals
  BY ElementOfSeq
<1>2. QED
  BY <1>1 DEF Vals
-----------------------------------------------------------------------------
(* OrderInv is invariant.                                                  *)

LEMMA OrderInit == Init => OrderInv
<1> SUFFICES ASSUME Init PROVE OrderInv
  OBVIOUS
<1>1. Contents = << >> /\ Taken = << >>
  BY MapInit DEF Fifo!Init
<1>2. QED
  BY <1>1, EmptySeq DEF OrderInv, Increasing, Below

LEMMA OrderStep ==
  ASSUME ~ProducerReorder, RInv, OrderInv, [Next]_vars
  PROVE  OrderInv'
<1>. DEFINE C == Contents  T == Taken  v == nextVal
<1>. USE DEF OrderInv
<1>0. Vals \subseteq Int /\ v \in Int
  BY DEF RInv, IInv, TypeInv, TypeOK, Vals
<1>a. /\ C \in Seq(Vals) /\ T \in Seq(Vals)
      /\ Increasing(C) /\ Increasing(T) /\ Below(C, v) /\ Below(T, v)
      /\ T # << >> /\ C # << >> => T[Len(T)] < C[1]
      /\ Len(C) \in Nat /\ Len(T) \in Nat
  BY LenProperties
<1>1. CASE Fifo!Enqueue(v) /\ v \in Vals /\ v' = v + 1
  <2>1. C' = Append(C, v) /\ T' = T
    BY <1>1 DEF Fifo!Enqueue
  <2>2. Append(C, v) \in Seq(Vals) /\ Increasing(Append(C, v))
    BY <1>0, <1>1, <1>a, AppendIncreasing
  <2>3. /\ Len(C') = Len(C) + 1
        /\ \A i \in 1..Len(C) : C'[i] = C[i]
        /\ C'[Len(C) + 1] = v
    BY <1>1, <1>a, <2>1, AppendProperties
  <2>4. Below(C', v')
    <3>1. SUFFICES ASSUME NEW i \in 1..Len(C) + 1 PROVE C'[i] < v'
      BY <2>3 DEF Below
    <3>2. CASE i \in 1..Len(C)
      <4>1. C[i] < v /\ C[i] \in Int
        BY <1>a, <3>2, ValsElem DEF Below
      <4>2. QED
        BY <1>0, <1>1, <2>3, <3>2, <4>1
    <3>3. CASE i = Len(C) + 1
      BY <1>0, <1>1, <2>3, <3>3
    <3>4. QED
      BY <1>a, <3>2, <3>3
  <2>5. Below(T', v')
    <3>1. SUFFICES ASSUME NEW i \in 1..Len(T) PROVE T[i] < v + 1
      BY <1>1, <2>1 DEF Below
    <3>2. T[i] < v /\ T[i] \in Int
      BY <1>a, ValsElem DEF Below
    <3>3. QED
      BY <1>0, <3>2
  <2>6. T' # << >> /\ C' # << >> => T'[Len(T')] < C'[1]
    <3>1. SUFFICES ASSUME T # << >> PROVE T[Len(T)] < C'[1]
      BY <2>1
    <3>2. Len(T) \in 1..Len(T)
      BY <1>a, <3>1, EmptySeq
    <3>3. CASE C = << >>
      <4>1. Len(C) = 0
        BY <1>a, <3>3, EmptySeq
      <4>2. QED
        BY <1>a, <2>3, <3>2, <4>1 DEF Below
    <3>4. CASE C # << >>
      <4>1. 1 \in 1..Len(C)
        BY <1>a, <3>4, EmptySeq
      <4>2. QED
        BY <1>a, <2>3, <3>1, <3>4, <4>1
    <3>5. QED
      BY <3>3, <3>4
  <2>7. QED
    BY <1>a, <2>1, <2>2, <2>4, <2>5, <2>6
<1>2. CASE Fifo!Take /\ v' = v
  <2>1. C # << >> /\ C' = Tail(C) /\ T' = Append(T, Head(C))
    BY <1>2 DEF Fifo!Take
  <2>2. /\ Tail(C) \in Seq(Vals) /\ Increasing(Tail(C))
        /\ Head(C) \in Vals /\ Head(C) = C[1]
        /\ Tail(C) # << >> => Head(C) < Tail(C)[1]
        /\ Below(Tail(C), v)
    BY <1>0, <1>a, <2>1, TailIncreasing
  <2>3. Below(T, Head(C))
    <3>1. SUFFICES ASSUME NEW i \in 1..Len(T) PROVE T[i] < Head(C)
      BY DEF Below
    <3>2. T # << >> /\ Len(T) \in 1..Len(T)
      BY <1>a, <3>1, EmptySeq
    <3>3. T[Len(T)] < C[1]
      BY <1>a, <2>1, <3>2
    <3>4. i = Len(T) \/ T[i] < T[Len(T)]
      BY <1>a, <3>2 DEF Increasing
    <3>5. T[i] \in Int /\ T[Len(T)] \in Int /\ C[1] \in Int
      <4>1. 1 \in 1..Len(C)
        BY <1>a, <2>1, EmptySeq
      <4>2. QED
        BY <1>a, <3>2, <4>1, ValsElem
    <3>6. QED
      BY <2>2, <3>3, <3>4, <3>5
  <2>4. T' \in Seq(Vals) /\ Increasing(T')
    BY <1>0, <1>a, <2>1, <2>2, <2>3, AppendIncreasing
  <2>5. /\ Len(T') = Len(T) + 1
        /\ \A i \in 1..Len(T) : T'[i] = T[i]
        /\ T'[Len(T) + 1] = Head(C)
    BY <1>a, <2>1, <2>2, AppendProperties
  <2>6. Below(T', v')
    <3>1. SUFFICES ASSUME NEW i \in 1..Len(T) + 1 PROVE T'[i] < v
      BY <1>2, <2>5 DEF Below
    <3>2. C[1] < v /\ C[1] \in Int
      <4>1. 1 \in 1..Len(C)
        BY <1>a, <2>1, EmptySeq
      <4>2. QED
        BY <1>a, <4>1, ValsElem DEF Below
    <3>3. CASE i \in 1..Len(T)
      BY <1>a, <2>5, <3>3 DEF Below
    <3>4. CASE i = Len(T) + 1
      BY <2>2, <2>5, <3>2, <3>4
    <3>5. QED
      BY <1>a, <3>3, <3>4
  <2>7. T' # << >> /\ C' # << >> => T'[Len(T')] < C'[1]
    BY <1>a, <2>1, <2>2, <2>5
  <2>8. QED
    BY <1>2, <2>1, <2>2, <2>4, <2>6, <2>7
<1>3. CASE Fifo!Discard /\ v' = v
  <2>1. C # << >> /\ C' = Tail(C) /\ T' = T
    BY <1>3 DEF Fifo!Discard
  <2>2. /\ Tail(C) \in Seq(Vals) /\ Increasing(Tail(C))
        /\ Head(C) = C[1]
        /\ Tail(C) # << >> => Head(C) < Tail(C)[1]
        /\ Below(Tail(C), v)
    BY <1>0, <1>a, <2>1, TailIncreasing
  <2>3. T # << >> /\ Tail(C) # << >> => T[Len(T)] < Tail(C)[1]
    <3>1. SUFFICES ASSUME T # << >>, Tail(C) # << >>
                   PROVE  T[Len(T)] < Tail(C)[1]
      OBVIOUS
    <3>2. T[Len(T)] < C[1]
      BY <1>a, <2>1, <3>1
    <3>3. /\ T[Len(T)] \in Int /\ C[1] \in Int
          /\ Tail(C)[1] \in Int
      <4>1. Len(T) \in 1..Len(T) /\ 1 \in 1..Len(C)
        BY <1>a, <2>1, <3>1, EmptySeq
      <4>2. 1 \in 1..Len(Tail(C))
        BY <2>2, <3>1, EmptySeq
      <4>3. QED
        BY <1>a, <2>2, <4>1, <4>2, ValsElem
    <3>4. QED
      BY <2>2, <3>1, <3>2, <3>3
  <2>4. QED
    BY <1>3, <1>a, <2>1, <2>2, <2>3
<1>4. CASE Fifo!Clear /\ v' = v
  BY <1>4, EmptySeq DEF Fifo!Clear, Increasing, Below
<1>5. CASE UNCHANGED <<C, T>> /\ v' = v
  BY <1>5 DEF Increasing, Below
<1>6. QED
  BY <1>1, <1>2, <1>3, <1>4, <1>5, MapStep

(* The consumer receives the values 1, 2, ... the producer enqueues in     *)
(* strictly increasing order, never a moved-from or default-constructed    *)
(* one, for every N, MaxPush and set of consumer operations, on a build    *)
(* that keeps the producer's program order: the stress test's check (test  *)
(* file lines 376-380), which the build that reorders the relaxed store of *)
(* writeIndex_ (lines 51, 66) violates (run stale_read).                   *)
THEOREM ReceivesInOrder ==
  ASSUME ~ProducerReorder
  PROVE  Spec => []InOrder
<1>1. Init => RInv /\ OrderInv
  BY IndexInit, DataInit, OrderInit DEF RInv
<1>2. RInv /\ OrderInv /\ [Next]_vars => RInv' /\ OrderInv'
  BY TypeStep, IndexStep, DataStep, OrderStep DEF RInv, IInv, IndexInv
<1>3. RInv /\ OrderInv => InOrder
  <2> SUFFICES ASSUME RInv, OrderInv PROVE InOrder
    OBVIOUS
  <2>1. got \in Seq(Vals \cup {Nil}) /\ Taken \in Seq(Vals) /\ Increasing(Taken)
    BY DEF RInv, IInv, TypeInv, TypeOK, OrderInv
  <2>2. Len(got) <= Len(Taken) /\ \A i \in 1..Len(got) : got[i] = Taken[i]
    BY <2>1, AppendProperties, LenProperties DEF Taken
  <2>3. QED
    BY <2>1, <2>2, LenProperties DEF InOrder, Increasing
<1>4. QED
  BY <1>1, <1>2, <1>3, PTL DEF Spec
=============================================================================
