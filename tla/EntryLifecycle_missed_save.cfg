\* A rule is saved between the constructor and the update listener.
SPECIFICATION Spec
CONSTANTS
  changing = changing
  old = old
  Rules = {changing, old}
  Choices <- MCChoices
  Ids = {1, 2}
  Faults = {"edit_in_setup"}
PROPERTY
  SavedTakenUp
CHECK_DEADLOCK FALSE
