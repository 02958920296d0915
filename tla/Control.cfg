SPECIFICATION MCSpec
CONSTANTS
  JcCallers = {"p", "q"}
  JcKeys = {"", "k", "l"}
  JcMaxCalls = 7
  CpPipelines <- MCPipelines
  CpMaxStarts = 2
  BrSpecs <- MCBuilds
  ChKinds = {"process", "miniflare"}
  ChClosers = {"a", "b"}
  XbKeys = {"a"}
  XbNames = {"n", "m"}
  XbCallers = {"p", "q"}
  XbMaxTime = 3
  PdCases <- MCCases
  PdTrees <- MCTrees
  DpKinds = {"inplace", "render", "netlify", "cfbuilds", "gcpdeploy"}
  DpMaxDeploys = 4
  ErRequests <- MCRequests
  ErTimed = {"y"}
INVARIANTS  BackendsHold AnsweredIsDone
 
CHECK_DEADLOCK FALSE
