\* size(), full() and empty() called by a third thread
\* while both threads run, on a build that keeps program order.
CONSTANTS
  N = 4
  MaxPush = 4
  ConsumerOps <- MCObsOps
  Limits = {2}
  ProducerReorder = FALSE
  ConsumerReorder = FALSE
  Callers <- MCOtherThread
INIT ObsInit
NEXT ObsNext
INVARIANT ObserverLinearizable
