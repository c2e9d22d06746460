SPECIFICATION Spec
CONSTANTS
  a = a
  b = b
  c = c
  w1 = w1
  w2 = w2
  w3 = w3
  None = None
  Node = {a, b, c}
  Replicas <- TwoReplicas
  WriteQuorum = 2
  Write = {w1, w2}
  EntryOf <- Anywhere
  MaxCrashes = 1
  MaxTimeouts = 1
SYMMETRY AnyOrder
CHECK_DEADLOCK FALSE
INVARIANTS
  TypeOK
  AckedOnQuorum
  LaterWriteIsNewer
  VersionNamesWrite
  PrimaryConverges
  AckedSurvivesCrash
PROPERTIES
  RegisterWhileOrderly
