\* Progress of both threads under weak fairness, with consume_n(f, 0) among
\* the consumer's calls: it returns at once and does not stop the drain.
CONSTANTS
  N = 2
  MaxPush = 3
  ConsumerOps <- MCAllOps
  Limits = {0, 2}
  ProducerReorder = FALSE
  ConsumerReorder = FALSE
SPECIFICATION Spec
PROPERTY Drains
