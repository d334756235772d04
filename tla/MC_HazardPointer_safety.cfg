\* Two threads register concurrently, then each performs three reads or
\* replacements of the shared pointer; four nodes, so get_node empties the
\* free pool and scans.  Hazard publication is followed by a fence.
CONSTANTS
  t1 = t1
  t2 = t2
  n1 = n1
  n2 = n2
  n3 = n3
  n4 = n4
  Null = Null
  Threads <- MCThreads
  Nodes <- MCNodes
  K = 1
  MaxOps = 3
  PublishFence = TRUE
SPECIFICATION Spec
SYMMETRY ThreadSymmetry
INVARIANT TypeOK
INVARIANT HeadThresholdCorrect
INVARIANT PlistWritesInBounds
INVARIANT ThresholdsAgreeWhenQuiet
INVARIANT NoReclaimWhileHazardous
INVARIANT EachNodeHeldOnce
INVARIANT NoScanOfFreedRecord
