CONSTANTS
  a = 0
  b = 1
  any = 2
  LastByte = 1
  AnySymbol = 2
  Bytes <- MCBytes
  Automata <- MCAutomataSet
  Inputs <- MCInputs
  Documents <- MCDocuments
SPECIFICATION FairSpec
CHECK_DEADLOCK FALSE
INVARIANTS TypeOK ExpandedOnce AnmlFaithful
PROPERTY ImplementsContract
