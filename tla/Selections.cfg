CONSTANTS
  r1 = r1
  r2 = r2
  None = None
  MaxArrivals = 3
  SessionKeys = {k1}
  Targets = {t1, t2}
  Pair = {r1, r2}
  TTL = 2
  ColdAfter = 0
  Cooldown = 1
  MaxBindings = 1
  EvictBatch = 1
  Sizes = {1, 3}
  MaxTime = 2
  MaxRestarts = 1
  Keys = {k1, k2, k3}
  MaxChanges = 3
  Latencies = {1, 4}
  Hits = {0}
  MinSamples = 1
  Unit = 8
  Faded = 4
  MaxHalfLives = 4
  MaxSamples = 2
SPECIFICATION SelSpec
INVARIANTS BindingKept DrawsFromTheFree GatesHold
PROPERTIES MovedForCause DeadTargetsForgotten FadedIsRetried
CHECK_DEADLOCK FALSE
