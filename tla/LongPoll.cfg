SPECIFICATION MCFairSpec
CONSTANTS
  w1 = w1
  w2 = w2
  w3 = w3
  m1 = m1
  m2 = m2
  NoTimer = NoTimer
  Waiters = {w1, w2}
  Subscribers = {w1, w2}
  Messages = {m1, m2}
  Delays = {0, 1}
  WaitTime = 2
  Visibility = 1
  MaxTime = 3
INVARIANTS WaitsHold ReceivesHold
PROPERTY ReceiveReturns
CHECK_DEADLOCK FALSE
