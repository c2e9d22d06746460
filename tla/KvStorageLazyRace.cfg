SPECIFICATION Spec
CONSTANTS
  t1 = t1
  t2 = t2
  k1 = k1
  k2 = k2
  None = None
  Thread = {t1, t2}
  Key = {k1}
  OpsOf <- PutAndGet
  KeysOf <- AllKeys
  RemoteVersions <- TwoVersions
  Ttls <- ShortTtls
  MaxCalls = 2
  MaxTime = 1
CHECK_DEADLOCK FALSE
PROPERTIES
  OnlyDeleteRemovesLive
