\* Two producers push two items each through five nodes (the sentinel and
\* one per item), so popped nodes are freed and reused by later pushes.
\* Producers and the consumer are weakly fair; no symmetry (liveness).
\* As built for x86-64: the lock xchg of the exchange drains the store buffer.
CONSTANTS
  p1 = p1
  p2 = p2
  n1 = n1
  n2 = n2
  n3 = n3
  n4 = n4
  n5 = n5
  Null = Null
  Producers <- MCProducers
  Nodes <- MCNodes
  PerProducer = 2
  ExchangeDrainsStores = TRUE
SPECIFICATION FairSpec
INVARIANT TypeOK
INVARIANT PoppedInExchangeOrder
INVARIANT PendingLinkTargetsLiveTail
INVARIANT PeekedIsPopped
INVARIANT EachNodeHeldOnce
PROPERTY EventuallyAllFreed
