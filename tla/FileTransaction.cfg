SPECIFICATION LiveSpec
CONSTANTS
  Retention = 1
  MaxBackups = 3
  Faults = {"io_error", "killed", "power_loss"}
INVARIANTS
  TargetWhole
  PreimageRecoverable
  HonestResult
PROPERTIES
  ReplacesInspected
  JobReturns
  ImplementsJob
