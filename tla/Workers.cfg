SPECIFICATION MCSpec
CONSTANTS
  ScMaxTime = 3
  ScMaxWrites = 2
  ScEvery = 2
  ScRetries = 1
  ScAge = 2
  ScRequests <- MCRequests
  PpRecords = 2
  PpBatch = 2
  PpRetries = 1
  PpPipes = 2
  PpClients = {"c"}
  EvEvents = {e1}
  EvMaxTime = 3
  EvRetries = 2
  EvAge = 3
  EvEvery = 2
  EvRate = 2
  EvPuts = 1
  CrMinutes = 2
  CrHours = 2
  CrYears = 2
  CrMonths <- MCMonths
  CrExprs <- MCExprs
  CrStarts <- MCStarts
  LaMessages = {"m1", "m2"}
  LaPasses = {"p", "q"}
  LaBatch = 2
  LaAttempts = 2
  LaMaxReceives = {0, 2}
INVARIANTS WorkersSettle CronFindsFirst
PROPERTIES ClientWritesStand WorkersProgress
CHECK_DEADLOCK FALSE
