----------------------------- MODULE MCSPSCQueue -----------------------------
(***************************************************************************)
(* Instances of SPSCQueue for TLC.  N = 4 is the ring of the wrap-around    *)
(* unit test; MaxPush = 6 > N makes the indices wrap and the queue fill.    *)
(***************************************************************************)
EXTENDS SPSCQueue

\* Every consumer operation.
MCAllOps == AllConsumerOps

\* The operations that discard the value.
MCDiscardOps == {"pop_discard", "force_pop_discard"}
=============================================================================
