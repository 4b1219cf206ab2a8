\* Five nodes on eight angles and at zero, lists of two and of one, and two
\* configurations: a search wide enough to be exact, and a narrow one.
SPECIFICATION Spec
CONSTANTS
  Nodes <- MCNodes
  Layouts <- MCLayouts
  TieOrders <- MCTieOrders
  Circle = 8
  TopLevel = 1
  MaxNeighborsL0 = 2
  MaxNeighborsUpper = 1
  EfConstruction = 2
  Params <- MCParams
  EvictRate = 3
  Queries = {3, 6}
  MaxK = 2
  MaxSearches = 2
CHECK_DEADLOCK FALSE
INVARIANTS
  NoDeadEnd
  WideBeamIsExact
  EvictionsCatchUp
