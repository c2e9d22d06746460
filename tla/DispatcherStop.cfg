SPECIFICATION Spec
CONSTANTS
  w1 = w1
  w2 = w2
  Producer <- Producers
  Worker = {w1, w2}
  PerProducer = 2
  Capacities <- NoBound
INVARIANT NothingLost
CHECK_DEADLOCK FALSE
