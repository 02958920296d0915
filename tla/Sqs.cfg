SPECIFICATION MCSpec
CONSTANTS
  q1 = q1
  dlq = dlq
  f1 = f1
  g1 = g1
  g2 = g2
  d1 = d1
  d2 = d2
  r1 = r1
  r2 = r2
  NoDedup = NoDedup
  NoQueue = NoQueue
  Queues = {q1, dlq, f1}
  FifoQueues = {f1}
  PerGroup = {f1}
  Redrive <- RedriveOnce
  Groups = {g1, g2}
  DedupIds = {d1, d2}
  Timeouts = {1}
  Delays = {0, 1}
  Batches = {2}
  Receivers = {r1}
  Overlap = FALSE
  Minute = 1
  DedupWindow = 1
  Retention <- Retained
  MaxTime = 2
  MaxSends = 3
  MaxMinted = 4
SYMMETRY Symmetries
INVARIANTS MessagesReachable LimitsHold
PROPERTY FifoInOrder
CHECK_DEADLOCK FALSE
