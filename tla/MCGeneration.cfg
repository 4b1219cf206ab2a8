SPECIFICATION FairSpec
CONSTANTS
  Jobs <- MCJobs
  Vocab = {1, 2, 3}
  Eos = {3}
  Pad = 3
  MaxPositions = 8
CHECK_DEADLOCK FALSE
INVARIANTS
  RowsMatchReference
  LayersInLockstep
  
PROPERTY
  Returns
