SPECIFICATION Spec
CONSTANTS
  Preferences = {"auto"}
  MaxStateBoots = 2
  MaxDirt = 1
  Runtimes = {r1, r2}
  ManagedRuntimes = {r1}
  MaxEngineRestarts = 1
  AuthClis = {p1, p2}
  Users = {u1, u2}
  NoSession = NoSession
  MaxLogins = 1
  MaxRefreshes = 1
  Factories = {"f"}
  Transforms = {"x"}
  Witnesses = {1, 2, 3, 6}
  MaxTransforms = 2
  MatIds = {1, 2}
  MatSizes = {3}
  MaxMaterialBytes = 3
  RecordBytes <- RowBytes
  MaxSemanticBytes = 3
  MaxPageBytes = 3
  PageLimit = 2
  MaxDepth = 3
  MaxObs = 3
  Resolvers = {r1, r2}
  Acquirers = {r1, r2}
  Halves = {1, 2}
  Replacements <- Replaced
  StrongFS = TRUE
  FineStamps = TRUE
  MaxFileEdits = 1
  MaxDamages = 1
  MaxInits = 3
  MaxReboots = 1
  MaxWslInits = 3
  MaxShutdowns = 1
  Creators = {c1, c2}
  CreateRequests <- CreateCases
  Inspections <- InspectCases
  AliasRoot <- Workspace
  AliasLinks <- LinkTargets
  AliasTree <- Files
  MaxAliasKills = 1
  MaxRefMoves = 1
INVARIANTS StoresSafe SetupSafe CommandSafe
CHECK_DEADLOCK FALSE
