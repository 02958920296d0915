SPECIFICATION MCSpec
CONSTANTS
  ScCharts <- MCCharts
  ScBirths <- MCBirths
  ScEvents <- MCEvents
  ScEnd = 5
  BlScalars = {"schema", "service", "shadow", "wrap"}
  BlLists = {"native", "quirks"}
  BlMaps = {"resources", "errors", "missing_input_messages"}
  BlDocs <- MCDocs
  EoBundles <- MCBundles
  LcFloatBits = 5
  LcSlotBits = 3
  LcMost = 4
  LcLimits = {1, 2}
  LcInstants <- MCInstants
  LcFirst <- MCFirst
  LcSince <- MCSince
  RcRequests <- MCSent
  RcOps <- MCOps
  RcMaxOps = 3
  ElKeys = {1, 2, 3, 4}
  ElTies = {"t", "u"}
  ElLimits = {1, 2}
  ElMaxChanges = 2
  ElMaxPages = 5
  GmPatterns <- MCPatterns
  GmSubjects <- MCSubjects
  ImValues = {1, 2, 3}
  IaGroups = {"g"}
  IaPolicies = {"p"}
  IaUnits = {"ou", "up"}
  IaMaxChanges = 2
  IaTrees <- MCUnits
  KmIds = {"k1", "k2"}
  KmAliases = {"a1"}
  KmMaxSteps = 5
  StNames = {"s", "t"}
  StTemplates <- MCTemplates
  StMaxOps = 4
  EqNames = {"n1", "n2"}
  EqDraws <- MCDraws
  EqIssued <- MCIssued
  EqQuirks = {"none", "drop", "wrap", "reuse", "swap", "lenient"}
  EqMaxSteps = 3
  HuAddresses <- MCAddresses
  HuConstraints <- MCConstraints
  HuPaths <- MCUriPaths
  HuQueries <- MCQueries
  EdBundles <- MCListings
  EdFips <- MCFips
  EdAccounts = {"000"}
  EdSent <- MCEdSent
  EdServed <- MCServed
  CpClients = {"c1", "c2"}
  CpRequests <- MCProxied
  CpAnswers <- MCHeard
  CpSecrets = {"S"}
  CpModes = {"off", "passthrough", "record", "replay", "hybrid"}
  CpMaxRequests = 3
  CpMaxRestarts = 1
  RpBuckets = {"b1", "b2"}
  RpTags = {"t", "u"}
  RpRules <- MCRules
  RpMaxOps = 5
  TxKeys = {"k", "j"}
  TxValues = {1, 2}
  TxShapes <- MCShapes
INVARIANTS BundlesHold RecordsHold  EdgeHolds  
PROPERTY EngineSteps
CHECK_DEADLOCK FALSE
