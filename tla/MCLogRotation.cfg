CONSTANTS
  Services <- MCServices
  MaxDay = 3
  NoStream = NoStream

SPECIFICATION Spec
INVARIANT TypeOK
INVARIANT RecordsKept
INVARIANT DatedFile
