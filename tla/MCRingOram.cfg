\* A reliable backend: two blocks compete for one-slot buckets on a three-bucket
\* tree whose root is mirrored by the client.  No symmetry: a liveness property
\* is checked.
SPECIFICATION FairSpec
CONSTANTS
  Blocks = {b1, b2}
  Values = {v1, v2}
  None = None
  Z = 1
  A = 2
  NLeaves = 2
  W = 8
  TreetopLevels = 1
  Buckets = {0, 1, 2}
  Path <- TwoLeaves
  Treetop = {0}
  CounterMod = 1
  LongLived = TRUE
  MaxPending = 2
INVARIANTS
  TypeOK
  OneHome
  CacheMirrorsBackend
  ReadsCurrent
PROPERTIES
  ImplementsBlockStore
  CallsEnd
