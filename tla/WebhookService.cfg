CONSTANTS
  t1 = t1
  t2 = t2
  k1 = k1
  a1 = a1
  a2 = a2
  Servers = {t1, t2}
  App = app
  KeyIds = {k1}
  Requests <- SomeRequests
  NoRequest = norequest
  OwnValue = a1
  AppCalls <- ReadOwn
  AppIds = {a1, a2}
  NoId = noid
  PerSecond = 1
  MaxClockSkew = 1
  KeyCacheTtl = 2
  MaxClock = 2
  MaxIssues = 2
  MaxFaults = 1
SPECIFICATION ServiceSpec
CHECK_DEADLOCK FALSE
SYMMETRY ServerSymmetry
INVARIANT ReplacedKeyExpires
INVARIANT OnlyVouchedIds
PROPERTY StorageKeepsContract
