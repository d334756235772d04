\* Two stealers race an owner that pushes 4 items, each with push_bottom
\* (growing explicitly with wsd_work_stealing_grow) or push_bottom_autogrow:
\* the first array has 2 slots (one usable), the second 4 (three usable),
\* and the allocation of a third fails, so every push outcome happens.
CONSTANTS
  s1 = s1
  s2 = s2
  Stealers <- MCStealers
  MaxPush = 4
  LogSize = 1
  MaxArrays = 2
  BufSize = 5
  PushApi = {"push_bottom", "push_bottom_autogrow"}
  StoreLoadFence = TRUE
SPECIFICATION Spec
SYMMETRY StealerSymmetry
INVARIANT TypeOK
INVARIANT DeliveredAtMostOnce
INVARIANT ExactlyOnce
