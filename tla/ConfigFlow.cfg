SPECIFICATION Spec
CONSTANTS
  m1 = m1
  m2 = m2
  l1 = l1
  a = a
  b = b
  Managed = {m1, m2}
  Linked = {l1}
  TargetOf <- Headers
  Rules = {r1, r2}
  Flows = {f1, f2}
  NoText = NoText
  MaxEvents = 3
  Autos = {TRUE}
  NotCreated = NotCreated
  Removed = Removed
  NoRule = NoRule
  NoTarget = NoTarget
  Faults = {"io_error", "killed", "power_loss", "lost_revision"}
SYMMETRY Symmetry
INVARIANTS
  OneRulePerTarget
  SavedIsReadable
  LockIsOwned
PROPERTIES
  PatchKeepsItsRule
  NoLostUpdate
  EditOfShownBytes
\* Events are bounded, and a user may leave a form open.
CHECK_DEADLOCK FALSE
