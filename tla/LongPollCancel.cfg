SPECIFICATION MCSpec
CONSTANTS
  w1 = w1
  w2 = w2
  w3 = w3
  m1 = m1
  m2 = m2
  NoTimer = NoTimer
  Waiters = {w1, w2, w3}
  Subscribers = {w1, w2, w3}
  Messages = {m1}
  Delays = {0, 1}
  WaitTime = 2
  Visibility = 1
  MaxTime = 3
INVARIANT ParkedIsReached
CHECK_DEADLOCK FALSE
