\* One rule with a check at startup: its own watched check and an action asked
\* for by somebody else already contend for the operation lock.
SPECIFICATION LiveSpec
CONSTANTS
  Rules = {r1}
  Startup = {r1}
  MaxEvents = 3
  Faults = {"schedule_fails"}
INVARIANTS
  OneOwner
  NoLostWakeup
PROPERTIES
  ChangeChecked
  BlindnessReported
  Settles
\* The events are bounded: the watcher comes to rest.
CHECK_DEADLOCK FALSE
