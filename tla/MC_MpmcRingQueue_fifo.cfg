\* Two producers and two consumers on a queue of capacity 2 with 8-bit
\* counters starting 2 below the wrap: 3 items fill the queue, find it full
\* and cross the wrap-around of put_pos, get_pos and the seq numbers.
\* queue_size_is_valid of queuedef.c is checked on every 8-bit q_size.
CONSTANTS
  p1 = p1
  p2 = p2
  c1 = c1
  c2 = c2
  Producers <- MCProducers
  Consumers <- MCConsumers
  Capacity = 2
  WordBits = 8
  StartPos = 254
  MaxItems = 3
SPECIFICATION Spec
SYMMETRY ThreadSymmetry
INVARIANT TypeOK
INVARIANT FifoByClaimOrder
INVARIANT DeleteFreesHeldItems
PROPERTY RefinesBoundedFifo
PROPERTY QueriesExactWhenQuiet
INVARIANT ValidSizesArePowersAbove1
