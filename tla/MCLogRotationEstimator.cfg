CONSTANTS
  Services <- MCEstimator
  MaxDay = 3
  NoStream = NoStream

SPECIFICATION Spec
INVARIANT NoRecordLost
