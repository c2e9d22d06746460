SPECIFICATION Spec
CONSTANTS
  Nodes = 3
  MaxTerm = 2
  MaxLog = 3
CHECK_DEADLOCK FALSE
INVARIANT CommittedAgree
