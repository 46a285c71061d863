SPECIFICATION FairSpec
CONSTANTS
  Built = p1
  Started = p2
  None = None
  Cancels = TRUE
  Forgets = TRUE
  MaxCrashes = 1
INVARIANTS SecretBeforeIntent IntentBeforeMutation PublishedVerified UseProtected RetiredIsGone LifecycleInv
PROPERTIES RetirementFinal RunnerFinishes
CHECK_DEADLOCK FALSE
