SPECIFICATION Spec
CONSTANTS
  Built = p1
  Started = p2
  None = None
  Cancels = FALSE
  Forgets = TRUE
  MaxCrashes = 0
INVARIANTS DataOutlivesJob
CHECK_DEADLOCK FALSE
