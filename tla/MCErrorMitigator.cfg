CONSTANTS
  Programs <- MCPrograms
  Topologies <- MCOrderedTopologies
  MaxShots = 2
  MeasuredLimit = 2
  R = 10
  BadProgram = BadProgram
  NoResponse = NoResponse
  ErrorResponse = ErrorResponse
  NoTruth = NoTruth

SPECIFICATION Spec
INVARIANT TypeOK
INVARIANT RecoversTrueCounts
INVARIANT NearestIsProjection
INVARIANT CountsWithinShots
INVARIANT AssignmentBySpec
\* a request ends with its response: the servicer method returns
CHECK_DEADLOCK FALSE
