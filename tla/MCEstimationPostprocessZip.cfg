CONSTANTS
  Width <- MCWidth
  Records <- MCRecords
  CountsLists <- MCCountsLists
  BadJson = BadJson
  NaN = NaN
  Inf = Inf
  NoResponse = NoResponse

SPECIFICATION Spec
INVARIANT AllGroupsUsed
\* a request ends when the handler has returned
CHECK_DEADLOCK FALSE
