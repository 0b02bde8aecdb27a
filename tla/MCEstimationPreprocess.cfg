CONSTANTS
  QubitCounts <- MCQubitCounts
  Operators <- MCOperators
  LayoutOperators <- MCLayoutOperators
  Layouts <- MCLayouts
  NoResponse = NoResponse
  BadLiteral = BadLiteral
  ValueErr = ValueErr
  QiskitErr = QiskitErr
  ParameterErr = ParameterErr
  None = None

SPECIFICATION Spec
INVARIANT TypeOK
INVARIANT RespectsClientLayout
INVARIANT ParseSound
\* a request ends when the handler has returned
CHECK_DEADLOCK FALSE
