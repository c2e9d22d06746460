SPECIFICATION Spec
CONSTANTS
  a = a  b = b  c = c  x = x  y = y
  Node = {a, b, c}
  Replicas <- MCReplicas
  Client = {x, y}
  At <- MCAt
  OpsOf <- MCOpsOf
  OpTimeout = 2
  WriteQuorum = 2
  MaxCalls = 2
  Stored <- MCStored
  MaxServed = 6
  Prompt = TRUE
INVARIANT PutsAcked
CHECK_DEADLOCK FALSE
