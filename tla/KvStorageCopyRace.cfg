SPECIFICATION Spec
CONSTANTS
  t1 = t1
  t2 = t2
  k1 = k1
  k2 = k2
  None = None
  Thread = {t1, t2}
  Key = {k1}
  OpsOf <- OnlyReplicate
  KeysOf <- AllKeys
  RemoteVersions <- TwoVersions
  Ttls <- NoTtls
  MaxCalls = 1
  MaxTime = 0
CHECK_DEADLOCK FALSE
PROPERTIES
  KeyVersionsNeverRegress
