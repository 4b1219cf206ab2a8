SPECIFICATION FairSpec
CONSTANTS
  NumBuckets = 2
  VolumeBound = 1
  MaxKicks = 2
  ValueBytes = 64
  BatchSize = 2
  TopK = 1
  TopChunks = 2
  NameBytes <- MCNameBytes
  Within <- MCWithin
  Jobs <- MCJobs
  Docs <- MCDocs
  Orders <- MCOrders
  SuppliedKgs <- MCSuppliedKgs
  HashPairs <- MCHashPairs
INVARIANTS
  KgOfWholeDocument
  AnswerJoinsTheGraph
  QueryFailsOnlyOnStrayChunk
PROPERTY
  TasksEnd
