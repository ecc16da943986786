----------------------------- MODULE SPSCObserver -----------------------------
(***************************************************************************)
(* The observers of spsc_queue (src/include/spsc_queue.h lines 170-188):   *)
(* full(), size() (and read_available(), which returns size()) and         *)
(* empty(), called by the producer thread, by the consumer thread, or by a *)
(* third thread, while the two threads of SPSCQueue run.                   *)
(*                                                                         *)
(* Each observer makes two acquire loads, one of writer_.writeIndex_ and   *)
(* one of reader_.readIndex_, and computes its answer from the pair.       *)
(* full() and size() load writeIndex_ first (lines 171-173, 178-179); the  *)
(* two operands of == in empty() (lines 184-185) are unsequenced, so a     *)
(* build may load them in either order.  An observer called by the         *)
(* producer or the consumer runs between two operations of that thread,    *)
(* which waits for it.  reset() is not called during an observer, as its   *)
(* contract requires.                                                      *)
(*                                                                         *)
(* oSeen is a history variable: the lengths the abstract FIFO (the         *)
(* refinement mapping of SPSCQueue) has had since the observer's first     *)
(* load.                                                                   *)
(***************************************************************************)
EXTENDS SPSCQueue

CONSTANT Callers   \* the threads that call observers

Threads == {"producer", "consumer", "other"}

ObserverOps == {"full", "size", "empty"}

ASSUME CallersAssumption == Callers \subseteq Threads

VARIABLES
  oPc,     \* "idle", "second" (one index loaded), "done" (answer computed)
  oOp,     \* the observer in progress
  oBy,     \* the thread that called it
  oFirst,  \* the index it loaded first: "w" or "r"
  oW,      \* local w / writeIdx
  oR,      \* local r / readIdx
  oSeen    \* history: the FIFO's lengths during the call

obsVars == <<oPc, oOp, oBy, oFirst, oW, oR, oSeen>>

allVars == <<vars, obsVars>>

\* The answer each observer returns from the two values it loaded:
\* full(): ((w + 1) & mask_) == r; size(): (w >= r) ? w - r : (N - r) + w;
\* empty(): w == r.
AnswerNoMask(op, w, r) ==
  CASE op = "full"  -> w + 1 = r
    [] op = "size"  -> Size(w, r)
    [] op = "empty" -> w = r

Answer(op, w, r) ==
  CASE op = "full"  -> (w + 1) % N = r
    [] op = "size"  -> Size(w, r)
    [] op = "empty" -> w = r

\* What the answer means for a queue holding len values (spec section 4.5).
Meaning(op, len) ==
  CASE op = "full"  -> len = capacity
    [] op = "size"  -> len
    [] op = "empty" -> len = 0

\* The order of the two loads each observer may make.
LoadOrders(op) == IF op = "empty" THEN {"w", "r"} ELSE {"w"}

\* The caller is between two operations and waits for the observer.
CallerIdle(t) ==
  CASE t = "producer" -> pcP = "idle"
    [] t = "consumer" -> pcC = "idle"
    [] t = "other"    -> TRUE

\* A thread that is inside an observer takes no step of its own.
Busy(t) == oPc # "idle" /\ oBy = t

ObsInit ==
  /\ Init
  /\ oPc = "idle"
  /\ oOp = "size"
  /\ oBy = "other"
  /\ oFirst = "w"
  /\ oW = 0
  /\ oR = 0
  /\ oSeen = {}

\* The call and the first acquire load.
OCall(op, t, first) ==
  /\ oPc = "idle"
  /\ CallerIdle(t)
  /\ oOp' = op
  /\ oBy' = t
  /\ oFirst' = first
  /\ oW' = IF first = "w" THEN writeIndex ELSE oW
  /\ oR' = IF first = "r" THEN readIndex ELSE oR
  /\ oSeen' = {Len(Contents)}
  /\ oPc' = "second"
  /\ UNCHANGED vars

\* The second acquire load; the answer is Answer(oOp, oW, oR) from here on.
OSecond ==
  /\ oPc = "second"
  /\ oW' = IF oFirst = "r" THEN writeIndex ELSE oW
  /\ oR' = IF oFirst = "w" THEN readIndex ELSE oR
  /\ oPc' = "done"
  /\ UNCHANGED <<oOp, oBy, oFirst, oSeen>>
  /\ UNCHANGED vars

\* The observer returns to its caller; its locals go out of scope.
OReturn ==
  /\ oPc = "done"
  /\ oPc' = "idle"
  /\ oOp' = "size"
  /\ oBy' = "other"
  /\ oFirst' = "w"
  /\ oW' = 0
  /\ oR' = 0
  /\ oSeen' = {}
  /\ UNCHANGED vars

Observer ==
  \/ \E op \in ObserverOps, t \in Callers :
       \E first \in LoadOrders(op) : OCall(op, t, first)
  \/ OSecond
  \/ OReturn

\* A step of the queue; an observer in progress records the new length.
QueueStep(A) ==
  /\ A
  /\ oSeen' = IF oPc = "second" THEN oSeen \cup {Len(Contents')} ELSE oSeen
  /\ UNCHANGED <<oPc, oOp, oBy, oFirst, oW, oR>>

ObsNext ==
  \/ ~Busy("producer") /\ QueueStep(Producer)
  \/ ~Busy("consumer") /\ QueueStep(Consumer)
  \/ QueueStep(\E i \in Idx : Propagate(i))
  \/ oPc = "idle" /\ QueueStep(Reset)
  \/ Observer

ObsSpec == ObsInit /\ [][ObsNext]_allVars

-----------------------------------------------------------------------------
(* An observer's answer is one the queue really had during the call: the   *)
(* value of size(), full() or empty() agrees with the FIFO's length at     *)
(* some moment between its first load and its return (linearisability, as *)
(* spec section 4.5 calls the answer "a momentary snapshot").  It must     *)
(* hold though the two loads of lines 171-173, 178-179 and 184-185 are not *)
(* one atomic read and the other thread keeps moving its index.            *)
ObserverLinearizable ==
  oPc = "done" => \E len \in oSeen : Answer(oOp, oW, oR) = Meaning(oOp, len)
=============================================================================
