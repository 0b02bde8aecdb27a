CONSTANTS
  Programs <- MCPrograms
  MaxQubitsValues <- MCMaxQubitsValues
  MaxPrograms = 3
  BadQasm = BadQasm
  BadArray = BadArray
  NoResponse = NoResponse
  NoCircuit = NoCircuit

SPECIFICATION Spec
INVARIANT Demultiplexable
\* a request ends with its response: the servicer method returns
CHECK_DEADLOCK FALSE
