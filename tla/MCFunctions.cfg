CONSTANTS
  RngBits = 2
  TileWidth = 2
  Depth = 6
  W = 6
  Fuel = 14
  Inputs <- MCInputs
SPECIFICATION Spec
INVARIANTS
  OffloadIsPlainProduct
  AttentionIsPlain
  BundleOpensToRanking
  EmbeddingsMatchReference
  EvidencePinsWhatRuns
  PathsFormTheTree
  ChunksCoverText
CHECK_DEADLOCK FALSE
