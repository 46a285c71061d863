SPECIFICATION FairSpec
CONSTANTS
  Callers = {c1, c2, c3}
  Refs = {r1, r2}
  Objects = {o1, o2, o3}
  None = None
INVARIANTS FenceInv Exclusive RegistryExact
PROPERTIES WaitersLeave ImplementsLock
