\* size(), full() and empty() called by the producer and by the consumer
\* between their operations, on a build that may publish writeIndex_
\* before the slot (the answers depend on the indices only).
CONSTANTS
  N = 4
  MaxPush = 4
  ConsumerOps <- MCObsOps
  Limits = {2}
  ProducerReorder = TRUE
  ConsumerReorder = FALSE
  Callers <- MCOwnThreads
INIT ObsInit
NEXT ObsNext
INVARIANT ObserverLinearizable
