SPECIFICATION Spec
CONSTANTS
  Tasks = 1
  Beaters = {g1, g2}
  Runner = runner
  MaxBeats = 1
  MaxFaults = 1
  MaxBroken = 1
  Deletes = TRUE
INVARIANTS NoLostWakeup OneHeartbeat
PROPERTIES WatchExits
CHECK_DEADLOCK FALSE
