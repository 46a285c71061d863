SPECIFICATION Spec
CONSTANTS
  Builders = {b1, b2, b3}
  Inheritors = {b1}
  Warm = {b2}
  Removers = {r1}
  Kind = "copy"
  MaxCrashes = 1
  None = None
INVARIANTS BuildInv SealMatchesRow PublishExclusive
PROPERTIES ImplementsSealed
CHECK_DEADLOCK FALSE
