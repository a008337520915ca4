CONSTANTS
  a = a
  b = b
  any = any
  AnySymbol = any
  Bytes <- MCBytes
  Automata <- MCAutomataSet
  Inputs <- MCInputs
  NLanes = 2
  WordBits = 1
  Leftovers <- MCLeftovers
SPECIFICATION FairSpec
CHECK_DEADLOCK FALSE
INVARIANTS TypeOK NoDataRace FrontierCoversDebt
PROPERTY ImplementsContract
