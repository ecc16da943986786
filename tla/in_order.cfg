\* The stress test's order check on a build that keeps the producer's
\* program order; the consumer's stores may still be reordered.
CONSTANTS
  N = 4
  MaxPush = 4
  ConsumerOps <- MCAllOps
  Limits = {2}
  ProducerReorder = FALSE
  ConsumerReorder = TRUE
SPECIFICATION Spec
INVARIANT InOrder
