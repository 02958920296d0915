SPECIFICATION MCSpec
CONSTANTS
  FhRecords = 2
  FhConfigs <- MCFhConfigs
  FhSizeLimit = 2
  FhMaxLag = 1
  PrInputs <- MCPrInputs
  PrPlans <- MCPrPlans
  PrSubRecords = 2
  FcCreates <- MCFcCreates
  FcPatches <- MCFcPatches
  FcTags = {"a", "b"}
  FcTagLimit = 1
  FcMaxVersion = 3
  SnPublishers = {"p1", "p2"}
  SnBatches <- MCSnBatches
  SnEndpoints <- MCSnEndpoints
  SnWindow = 1
  SnClients = {1, 2}
  SnFilters <- MCSnFilters
  SnBudget = 5
  FlPolicies <- MCFlPolicies
  FlMessages <- MCFlMessages
  FlKeys = 5
  FlLimit = 6
  PlTokens = {1, 2}
  PlUsers = {1}
  PlReqs = {r1, r2}
  PlOps = 5
  KsProducers = {k1, k2}
  KsRecords = 3
  KsLimits = {1, 2}
INVARIANTS DeliveriesHold StreamsHold PublishesHold
PROPERTY DeliveryProgress
CHECK_DEADLOCK FALSE
