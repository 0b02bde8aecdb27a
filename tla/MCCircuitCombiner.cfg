CONSTANTS
  Programs <- MCPrograms
  MaxQubitsValues <- MCMaxQubitsValues
  MaxPrograms = 3
  BadQasm = BadQasm
  BadArray = BadArray
  NoResponse = NoResponse
  NoCircuit = NoCircuit

SPECIFICATION Spec
INVARIANT TypeOK
INVARIANT NoOverlap
PROPERTY CombineRefinement
\* a request ends with its response: the servicer method returns
CHECK_DEADLOCK FALSE
