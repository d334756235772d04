\* Liveness of the owner's drain loop: enough arrays that no push fails,
\* fairness for the owner and the store buffer only. No symmetry (liveness).
CONSTANTS
  s1 = s1
  s2 = s2
  Stealers <- MCStealers
  MaxPush = 3
  LogSize = 1
  MaxArrays = 3
  BufSize = 4
  PushApi = {"push_bottom_autogrow"}
  StoreLoadFence = TRUE
SPECIFICATION FairSpec
PROPERTY EventuallyAllDelivered
