SPECIFICATION Spec
SYMMETRY Symmetry
CONSTANTS
  Patches = {p1}
  Tasks = {t1, t2}
  Requests = {"reconcile", "apply", "revert"}
  Sources = {s1}
  Retentions = {10}
  NotCreated = NotCreated
  Removed = Removed
  Faults = {"fsync_fails", "crash"}
INVARIANTS
  SerializedActions
  DebtRemembered
PROPERTIES
  RevertNotUndone
  ImplementsContract
