SPECIFICATION Spec
CONSTANTS
  EvictJobs = {j1, j2}
  EvictStates = {1, 2, 3}
  EvictParent <- Parents
  EvictEntries <- Entries
  EvictTotal = 10
  EvictOther = 2
  EvictConfigs <- Configs
  MinReserve = 2
  MaxEvictCrashes = 1
  BaseJobs = {j1, j2, j3}
  NoJob = NoJob
  MaxBaseRestarts = 1
  MaxBaseLosses = 2
  DirJobs = {j1, j2, j3}
  MaxDirKills = 1
  Deleters = {d1, d2}
  TreeStates = {1, 2, 3}
  TreeParent <- TreeParents
  TreeInstances = {a}
  InstanceOf <- InstanceStates
  LateStates = {3}
  LateInstances = {a}
  MaxDeletes = 2
  Clis = {c1, c2}
  Engines = {e1, e2}
  Ports = {p1, p2}
  NoEngine = NoEngine
  MaxKills = 1
  MaxConnects = 2
  MaxJobEvents = 2
  MaxSignals = 2
  MaxStreamDrops = 1
  SyncFiles = {"a", "b"}
  SyncDirs = {"d"}
  SyncRoot = "a"
  Contents = {1, 2}
  SyncIncludes <- Includes
  MaxRounds = 4
  MaxEdits = 2
  MaxDrops = 1
INVARIANTS BasesSafe RemovalSafe ServiceSafe
PROPERTIES PartialBaseKept ConnectedIsServed WaitsEnd
CHECK_DEADLOCK FALSE
