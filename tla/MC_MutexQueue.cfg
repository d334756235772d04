\* Two threads make three calls each on a queue of two slots, with every
\* operation and argument: six calls fill, empty and wrap the ring, put a
\* payload back across index 0 and copy a vector across the wrap.
CONSTANTS
  t1 = t1
  t2 = t2
  m1 = m1
  m2 = m2
  Null = Null
  NoOwner = NoOwner
  Threads <- MCThreads
  Msgs <- MCMsgs
  Size = 2
  VecLens = {0, 2, 3}
  MaxCalls = 3
SPECIFICATION Spec
INVARIANT TypeOK
PROPERTY RefinesPutbackQueue
