\* The protocol on a build that keeps the producer's program order and may
\* let a pop move out after its relaxed store: every operation of both
\* threads, wraparound and reset.
CONSTANTS
  N = 4
  MaxPush = 5
  ConsumerOps <- MCAllOps
  Limits = {0, 2}
  ProducerReorder = FALSE
  ConsumerReorder = TRUE
SPECIFICATION Spec
INVARIANT TypeOK
PROPERTIES QueueRefinement NoSpuriousFailure
