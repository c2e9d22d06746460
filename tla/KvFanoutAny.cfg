SPECIFICATION FairSpec
CONSTANTS
  a = a  b = b  c = c  x = x  y = y
  Node = {a, b, c}
  Replicas <- MCReplicas
  Client = {x, y}
  At <- MCAt
  OpsOf <- MCOpsOf
  OpTimeout = 1
  WriteQuorum = 2
  MaxCalls = 1
  Stored <- MCStored
  MaxServed = 3
  Prompt = FALSE
INVARIANTS TypeOK AnsweredInTime RequestsDoNotMultiply RightUntilTimeout
PROPERTY ClientsAnswered
CHECK_DEADLOCK FALSE
