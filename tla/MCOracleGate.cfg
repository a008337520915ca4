CONSTANTS
  LoadOrder <- MCLoadOrder
  Publishes <- MCPublishes
  NeedsDevice = {"triton"}
  Markings <- MCMarkings
  RequireNames = {"triton", "cuda", "cuda12"}
SPECIFICATION Spec
CHECK_DEADLOCK FALSE
INVARIANTS TypeOK HalfRegisteredIsRecorded DefaultIsDeclared GreenIsEarned VerifyIsComplete GreenCoversRequired
