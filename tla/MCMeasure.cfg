CONSTANTS
  Machines <- MCMachines
  Committed <- MCCommitted
  Backends = {"cuda", "warp"}
  NUnits = 2
  MaxRuns = 2
SPECIFICATION Spec
CHECK_DEADLOCK FALSE
INVARIANTS TypeOK RowsWereGated LossConfined OwnFileAllowed PoisonedSweepWritesNothing OnlyDfaSweepErases
PROPERTY ForeignResultKept
