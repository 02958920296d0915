SPECIFICATION MCSpec
CONSTANTS
  S3Reqs = {r1, r2}
  S3Ops = 4
  S3MaxTime = 1
  MpReqs = {m1, m2}
  MpParts = 2
  MpOps = 4
  PgNames = {1, 2, 3, 4, 6, 7}
  PgFolded <- MCFolded
  PgChanges = 2
  RgMax = 4
  RgSizes <- MCSizes
  DdKeys = {"a", "b"}
  DdReqs = {1, 2}
  DdInit <- Tabs0
  DdMenus <- MCDdMenus
  DdOps = 3
  DdTokenLife = 1
  DdHome <- MCDdHome
  ExTrees <- MCTrees
  ExItems <- MCItems
  ExUpdates <- MCUpdates
  PgKeys = {1, 2, 3}
  PgViews = {"ALL", "KEYS_ONLY"}
  PgLimits = {1, 2}
  PgWrites = 1
  DfUnits = {2}
  DfIndexes = {"i", "j"}
  DfOps = 3
  GcData <- MCGcData
  GcOther <- MCGcOther
  GcReqs = {"w"}
  GcOps = 3
  GcChunks = {1, 2}
  GlNames = {1, 2, 3, 4}
  GlFolders <- MCGlFolders
SYMMETRY Symmetries
   
PROPERTIES  UploadsHold
CHECK_DEADLOCK FALSE
