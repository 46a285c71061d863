SPECIFICATION Spec
CONSTANTS
  Built = p1
  Started = p2
  None = None
  Cancels = TRUE
  Forgets = FALSE
  MaxCrashes = 0
PROPERTIES RetireBeforeStop
CHECK_DEADLOCK FALSE
