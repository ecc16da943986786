\* The index protocol on a build that may reorder both relaxed stores with
\* the slot accesses before them: the indices stay consistent even though
\* the data does not.
CONSTANTS
  N = 4
  MaxPush = 4
  ConsumerOps <- MCAllOps
  Limits = {0, 2}
  ProducerReorder = TRUE
  ConsumerReorder = TRUE
SPECIFICATION Spec
INVARIANT CachedIndicesConservative
