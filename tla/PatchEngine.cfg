SPECIFICATION Spec
CONSTANTS
  Glyphs = {a, b}
  NL = NL
  MaxLines = 5
  MaxPatchLines = 5
  MaxScript = 5
  MaxTarget = 10
  FirstContext = 1
INVARIANTS
  OnlyReading
  RevertRestores
  EditReverts
  RefusedForCause
\* A rule whose target is neither applicable nor applied is left alone.
CHECK_DEADLOCK FALSE
