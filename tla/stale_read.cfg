\* The producer's relaxed store of writeIndex_ on a build that reorders it
\* with the construction of the slot.
CONSTANTS
  N = 4
  MaxPush = 4
  ConsumerOps <- MCAllOps
  Limits = {2}
  ProducerReorder = TRUE
  ConsumerReorder = FALSE
SPECIFICATION Spec
INVARIANT InOrder
