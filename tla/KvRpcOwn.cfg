SPECIFICATION Spec
CONSTANTS
  r = r
  g = g
  h = h
  p = p
  NoCaller = NoCaller
  Caller = {r, p}
  KindOf <- Kinds
  CallDur <- Durations
  Guarded <- GuardedKinds
  OuterDur = 1
  MaxCalls = 2
  MaxConn = 1
  MaxCloses = 0
CHECK_DEADLOCK FALSE
INVARIANTS
  OwnResponse
