\* Liveness: threads and store buffers weakly fair, no symmetry.
CONSTANTS
  t1 = t1
  t2 = t2
  n1 = n1
  n2 = n2
  n3 = n3
  n4 = n4
  Null = Null
  Threads <- MCThreads
  Nodes <- MCNodes
  K = 1
  MaxOps = 2
  PublishFence = TRUE
SPECIFICATION FairSpec
PROPERTY EventuallyAllReclaimed
