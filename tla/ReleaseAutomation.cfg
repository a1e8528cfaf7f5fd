SPECIFICATION Spec
CONSTANTS
  MaxMain = 4
  MaxMishaps = 1
  \* Main stands from its second reading on, a head once auto-merge is enabled.
  Faults = {}
INVARIANTS
  AutoMergedAsDecided
  PublishedVerified
PROPERTIES
  DraftResumable
\* The history is bounded.
CHECK_DEADLOCK FALSE
