CONSTANTS
  Services <- MCCombiner
  MaxDay = 3
  NoStream = NoStream

SPECIFICATION Spec
INVARIANT NoRecordLost
