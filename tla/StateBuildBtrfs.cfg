SPECIFICATION FairSpec
CONSTANTS
  Builders = {b1, b2, b3}
  Inheritors = {b1}
  Warm = {b2}
  Removers = {}
  Kind = "btrfs"
  MaxCrashes = 0
  None = None
INVARIANTS Serialized RowHasSnapshot SuccessMeansPublished
PROPERTIES BuildersFinish
CHECK_DEADLOCK FALSE
