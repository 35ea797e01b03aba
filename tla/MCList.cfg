SPECIFICATION HistorySpec
CONSTANTS
  l1 = l1
  l2 = l2
  e1 = e1
  e2 = e2
  e3 = e3
  e4 = e4
  Lists <- MCLists
  Elems <- MCElems
  Key <- MCKey
  MaxRemoved = 1
  NULL = NULL
INVARIANTS
  WellLinked
  QueriesAreExact
PROPERTIES
  ImplementsListSpec
  LoopsDoTheirJob
  CallsReturn
