\* A hunk whose result the same hunk matches again.
SPECIFICATION Spec
CONSTANTS
  Glyphs = {a, b}
  NL = NL
  MaxLines = 4
  MaxPatchLines = 3
  MaxScript = 2
  MaxTarget = 10
  FirstContext = 1
INVARIANT
  ReconcileIdempotent
CHECK_DEADLOCK FALSE
