CONSTANTS
  LoadOrder <- MCLoadOrder
  Publishes <- MCPublishes
  NeedsDevice = {"triton"}
  Markings <- MCMarkings
SPECIFICATION RegistrySpec
INVARIANT FailedImportUnavailable
