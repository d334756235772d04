\* As built for ARCH_x86_64: store_load_barrier() is empty, so the owner's
\* store of bottom in pop_bottom can still sit in its store buffer when it loads top.
CONSTANTS
  s1 = s1
  s2 = s2
  Stealers <- MCStealers
  MaxPush = 3
  LogSize = 1
  MaxArrays = 2
  BufSize = 4
  PushApi = {"push_bottom_autogrow"}
  StoreLoadFence = FALSE
SPECIFICATION Spec
SYMMETRY StealerSymmetry
INVARIANT DeliveredAtMostOnce
