CONSTANTS
  Width <- MCWidth
  Records <- MCRecords
  CountsLists <- MCCountsLists
  BadJson = BadJson
  NaN = NaN
  Inf = Inf
  NoResponse = NoResponse

SPECIFICATION Spec
INVARIANT TypeOK
INVARIANT ExpvalMatchesReference
PROPERTY AggregationRefinement
\* a request ends when the handler has returned
CHECK_DEADLOCK FALSE
