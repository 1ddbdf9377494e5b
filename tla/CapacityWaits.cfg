CONSTANTS
  acc = acc
  t1 = t1
  t2 = t2
  k1 = k1
  k2 = k2
  None = None
  Requests = {r1, r2}
  Targets = {t1, t2}
  Keys = {k1}
  Accounts <- MCAccounts
  Account <- MCAccount
  KeysOf <- MCKeysOf
  Limit <- SharedLimit
  RateBound = {}
  Plans <- EveryTarget
  Bindings = {None, k1}
  QueueCapacity = 2
SPECIFICATION DrainSpec
PROPERTIES ShutdownEndsWaits WaitsServed
