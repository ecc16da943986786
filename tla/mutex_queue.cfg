\* The benchmark's baseline with two consumers, so that notify_one has a
\* choice of waiter, and every consumer operation.
CONSTANTS
  Consumers = {c1, c2}
  MaxPush = 3
  ConsumerOps = {"consume_one", "pop", "pop_discard"}
SPECIFICATION Spec
PROPERTIES QueueRefinement Drains
