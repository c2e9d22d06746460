SPECIFICATION SceneSpec
CONSTANTS
  t1 = t1
  t2 = t2
  k1 = k1
  k2 = k2
  None = None
  Thread = {t1, t2}
  Key = {k1}
  OpsOf <- AllOps
  KeysOf <- AllKeys
  RemoteVersions <- TwoVersions
  Ttls <- ShortTtls
  MaxCalls = 3
  MaxTime = 1
  Owner = t1
  SharedCalls = 2
  ChCaller <- Callers
  ChKindOf <- KindOfCaller
  ChCallDur <- Durations
  ChOuterDur = 1
  ChGuarded <- GuardedKinds
  ChMaxCalls = 1
  ChMaxConn = 2
  ChMaxCloses = 1
  ChNoCaller = "nobody"
CHECK_DEADLOCK FALSE
INVARIANTS
  TypeOK
  VersionsBounded
  PutAboveSeen
  IssuedOnce
  GetsAccounted
  ChannelTypeOK
  SkewIsAbandoned
  OwnResponseUntilTimeout
PROPERTIES
  CallsReturn
  OwnVersionsNeverRegress
  LiveRemovedOnlyIfRewritten
  CallsEnd
