SPECIFICATION MCSpec
CONSTANTS
  Execs = {e1}
  Callers = {c1}
  MaxTokens = 2
  MaxTime = 2
  WaitFor = 1
  TaskTimeout = 2
  Heartbeat = 1
  ExecTimeout = 2
  Machines <- MCMachines
  MaxHops = 4
  SMNames = {m1}
  Aliases = {a1}
  Definitions = {d1, d2}
  RgClients = {1, 2}
  MaxRevision = 2
  MaxVersion = 2
  RgBudget = 4
  ItemSizes = {1, 2, 5}
  MaxItems = 4
  Letters <- MCLetters
INVARIANT SuccessLeavesNoChild
CHECK_DEADLOCK FALSE
