SPECIFICATION FairSpec
CONSTANTS
  Steps = 1
  Versions = {1, 2}
  Kind = "lb"
  Edits = FALSE
  Cancels = TRUE
  Deletes = TRUE
  MaxCrashes = 1
  Nothing = Nothing
PROPERTIES JobEnds DeleteReturns
CHECK_DEADLOCK FALSE
