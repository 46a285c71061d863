SPECIFICATION Spec
CONSTANTS
  PsqlRequests <- PsqlCases
  PsqlEdits <- PsqlEditCases
  LbRequests <- LbCases
  Creators = {c1}
  CreateRequests <- CreateCases
  Inspections = {}
  AliasRoot <- Workspace
  AliasLinks <- NoLinks
  AliasTree <- Files
  MaxAliasKills = 0
  FileMarks <- MarksOf
  FileIncludes <- Includes
  FileOrder <- Order
  DiscoverDirs <- Directories
  Artifacts <- Coverage
  SettingsKinds = {"other"}
  MaxDiscoveries = 2
  AliasNames <- RecipeNames
  AliasDocuments <- DocumentPairs
  MaxExpanded = 4
  MaxExpandedBytes = 8
  CanonicalTrees <- Values
  CellValues = {0, 1, 2, 3, 4}
  MaxValueDepth = 3
  MaxValueNodes = 5
  MaxMembers = 2
  MaxStringCells = 2
  MaxKeyCells = 1
  MaxValueCells = 20
  IdentitySchemas <- Schemas
  ExtensionInputs <- Extensions
  FieldValues = {1, 2}
  MaxBuilderCalls = 4
  ExecInputs <- Environments
  MaxExecMembers = 3
  MaxLiteral = 2
  MaxExecText = 6
  Marks = {9, 10, 11}
  DefaultHigh = 9
  DefaultLow = 8
  MaxConfigStops = 1
INVARIANTS InputsSafe ContractSafe
CHECK_DEADLOCK FALSE
