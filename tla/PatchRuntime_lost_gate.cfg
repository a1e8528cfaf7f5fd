\* A failed Revert bookkeeping, a watch denial or source refresh, a reload.
SPECIFICATION Spec
CONSTANTS
  Patches = {p1}
  Tasks = {t1}
  Requests = {"reconcile", "revert", "refresh_source"}
  Sources = {s1}
  Retentions = {10}
  NotCreated = NotCreated
  Removed = Removed
  Faults = {"meta_fails", "reload"}
PROPERTY
  RevertNotUndone
