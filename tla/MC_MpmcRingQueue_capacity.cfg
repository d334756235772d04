\* Enqueues without dequeues: how many items the queue of q_size slots
\* holds at once.
CONSTANTS
  p1 = p1
  p2 = p2
  c1 = c1
  c2 = c2
  Producers <- MCProducers
  Consumers <- MCConsumers
  Capacity = 2
  WordBits = 8
  StartPos = 254
  MaxItems = 3
SPECIFICATION Spec
SYMMETRY ThreadSymmetry
INVARIANT HeaderCapacityBound
