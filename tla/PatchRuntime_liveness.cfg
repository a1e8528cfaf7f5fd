SPECIFICATION QuietSpec
CONSTANTS
  Patches = {p1}
  Tasks = {t1, t2}
  Requests = {"reconcile", "revert"}
  Sources = {s1}
  Retentions = {10}
  NotCreated = NotCreated
  Removed = Removed
  Faults = {"reload", "meta_fails", "save_lost", "load_fails",
            "readback_denied"}
INVARIANTS
  ClosedIsQuiet
  GateBacked
PROPERTIES
  WritesFollowSavedRule
  ActionReturns
  CloseCompletes
