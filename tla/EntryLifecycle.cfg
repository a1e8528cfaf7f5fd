SPECIFICATION Spec
CONSTANTS
  changing = changing
  old = old
  Rules = {changing, old}
  Choices <- MCChoices
  Ids = {1, 2}
  Faults = {}
INVARIANTS
  OnlyPublishedWorks
  RepairsBelong
PROPERTIES
  SavedTakenUp
\* A user may remove the entry, and a failed unload is final.
CHECK_DEADLOCK FALSE
