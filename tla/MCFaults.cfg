\* Any use over a failing backend, for a client that is retired before a
\* bucket's counter can wrap.
SPECIFICATION FaultySpec
CONSTANTS
  Blocks = {b1, b2}
  Values = {v1}
  None = None
  Z = 1
  A = 2
  NLeaves = 2
  W = 8
  TreetopLevels = 1
  Buckets = {0, 1, 2}
  Path <- TwoLeaves
  Treetop = {0}
  CounterMod = 7
  LongLived = FALSE
  MaxPending = 1
INVARIANTS
  BucketCapacity
  NonceFresh
PROPERTIES
  OnlyEvictionLosesBlocks
SYMMETRY Symmetry
