CONSTANTS
  a = a
  b = b
  any = any
  AnySymbol = any
  Bytes <- MCBytes
  Automata <- MCAutomataSet
  Inputs <- MCInputs
SPECIFICATION FairSpec
CHECK_DEADLOCK FALSE
INVARIANTS TypeOK ActiveIsReached ShortestMatch
PROPERTY Returns
