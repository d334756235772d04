\* free_relaxed loads put_pos, then get_pos: two enqueues and two dequeues
\* in between leave get_pos ahead of the stale put_pos.
CONSTANTS
  p1 = p1
  p2 = p2
  c1 = c1
  c2 = c2
  Producers <- MCProducers
  Consumers <- MCConsumers
  Capacity = 2
  WordBits = 8
  StartPos = 254
  MaxItems = 3
SPECIFICATION Spec
SYMMETRY ThreadSymmetry
INVARIANT FreeRelaxedInRange
