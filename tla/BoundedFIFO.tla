----------------------------- MODULE BoundedFIFO -----------------------------
(***************************************************************************)
(* What nsqueue::spsc_queue<T, N> promises its two callers, with no        *)
(* indices, caches or memory orderings: a FIFO of at most Cap values.      *)
(*                                                                         *)
(*   Enqueue(v)  a successful emplace/push/force_emplace/force_push        *)
(*   Take        a successful pop(T&)/force_pop(T&)/consume_*: the value   *)
(*               at the head is handed to the consumer                     *)
(*   Discard     a successful pop()/force_pop(): the head is dropped       *)
(*   Clear       reset() on an idle queue                                  *)
(*                                                                         *)
(* A failed try operation changes nothing and is a stuttering step.  The   *)
(* history `taken` is the sequence of values the consumer has received.    *)
(***************************************************************************)
EXTENDS Naturals, Sequences

CONSTANTS
  Cap,      \* usable capacity (N - 1 for the ring of N slots)
  Values    \* the values the producer may enqueue

VARIABLES
  queue,    \* the values enqueued and not yet dequeued, oldest first
  taken     \* every value handed to the consumer, in the order received

fifoVars == <<queue, taken>>

Init ==
  /\ queue = << >>
  /\ taken = << >>

Enqueue(v) ==
  /\ Len(queue) < Cap
  /\ queue' = Append(queue, v)
  /\ UNCHANGED taken

Take ==
  /\ queue # << >>
  /\ queue' = Tail(queue)
  /\ taken' = Append(taken, Head(queue))

Discard ==
  /\ queue # << >>
  /\ queue' = Tail(queue)
  /\ UNCHANGED taken

Clear ==
  /\ queue' = << >>
  /\ UNCHANGED taken

Next ==
  \/ \E v \in Values : Enqueue(v)
  \/ Take
  \/ Discard
  \/ Clear

Spec == Init /\ [][Next]_fifoVars
=============================================================================
