---------------------------- MODULE MCSPSCObserver ----------------------------
(***************************************************************************)
(* Instances of SPSCObserver for TLC.                                      *)
(***************************************************************************)
EXTENDS SPSCObserver

\* A consumer that takes values one at a time and in a loop; the other
\* operations move readIndex_ the same way.
MCObsOps == {"pop", "consume_all"}

\* Observers called by the queue's own two threads.
MCOwnThreads == {"producer", "consumer"}

\* Observers called by a thread that is neither.
MCOtherThread == {"other"}
=============================================================================
