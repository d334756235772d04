\* The push of mpsc_fifo.h under the C11 memory model, as on a weakly
\* ordered build: the __ATOMIC_ACQUIRE exchange does not publish the earlier
\* stores of node->data and node->next, and the link is a plain store.
\* Two producers, two items each, five recycled nodes.
CONSTANTS
  p1 = p1
  p2 = p2
  n1 = n1
  n2 = n2
  n3 = n3
  n4 = n4
  n5 = n5
  Null = Null
  Producers <- MCProducers
  Nodes <- MCNodes
  PerProducer = 2
  ExchangeDrainsStores = FALSE
SPECIFICATION Spec
SYMMETRY ProducerSymmetry
INVARIANT PoppedInExchangeOrder
