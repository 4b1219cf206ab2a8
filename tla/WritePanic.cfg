\* The eviction inside a write may take the block out of the stash.
SPECIFICATION Spec
CONSTANTS
  Blocks = {b1, b2}
  Values = {v1}
  None = None
  Z = 1
  A = 2
  NLeaves = 2
  W = 8
  TreetopLevels = 1
  Buckets = {0, 1, 2}
  Path <- TwoLeaves
  Treetop = {0}
  CounterMod = 1
  LongLived = TRUE
  MaxPending = 1
INVARIANT
  WriteFindsItsBlock
