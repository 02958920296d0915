SPECIFICATION MCSpec
CONSTANTS
  q1 = q1
  dlq = dlq
  f1 = f1
  g1 = g1
  g2 = g2
  d1 = d1
  d2 = d2
  r1 = r1
  r2 = r2
  NoDedup = NoDedup
  NoQueue = NoQueue
  Queues = {q1, dlq}
  FifoQueues = {}
  PerGroup = {}
  Redrive <- RedriveOnce
  Groups = {g1}
  DedupIds = {}
  Timeouts = {1}
  Delays = {0, 1}
  Batches = {2}
  Receivers = {r1, r2}
  Overlap = TRUE
  Minute = 1
  DedupWindow = 2
  Retention <- Retained
  MaxTime = 2
  MaxSends = 1
  MaxMinted = 4
INVARIANT ArrivesOnceInDlq
CHECK_DEADLOCK FALSE
