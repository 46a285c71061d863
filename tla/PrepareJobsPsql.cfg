SPECIFICATION Spec
CONSTANTS
  Steps = 2
  Versions = {1, 2}
  Kind = "psql"
  Edits = TRUE
  Cancels = FALSE
  Deletes = FALSE
  MaxCrashes = 1
  Nothing = Nothing
INVARIANTS SealTruthful SucceededWhole TasksInOrder
CHECK_DEADLOCK FALSE
