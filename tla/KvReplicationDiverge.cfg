SPECIFICATION Spec
CONSTANTS
  a = a
  b = b
  c = c
  w1 = w1
  w2 = w2
  w3 = w3
  None = None
  Node = {a, b, c}
  Replicas <- TwoReplicas
  WriteQuorum = 2
  Write = {w1, w2}
  EntryOf <- Anywhere
  MaxCrashes = 0
  MaxTimeouts = 0
CHECK_DEADLOCK FALSE
INVARIANTS
  ReplicasConverge
