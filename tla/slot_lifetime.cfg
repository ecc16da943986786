\* pop() and force_pop() on a build that keeps program order.
CONSTANTS
  N = 4
  MaxPush = 6
  ConsumerOps <- MCDiscardOps
  Limits = {2}
  ProducerReorder = FALSE
  ConsumerReorder = FALSE
SPECIFICATION Spec
INVARIANT SlotLifetime
