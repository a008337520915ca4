CONSTANTS
  Machines <- MCSeries
  Committed <- MCCommitted
  Backends = {"cuda", "warp"}
  NUnits = 2
  MaxRuns = 1
SPECIFICATION Spec
CHECK_DEADLOCK FALSE
PROPERTY ForeignResultKept
