SPECIFICATION RequestSpec
CONSTANTS
  t1 = t1
  t2 = t2
  t3 = t3
  k1 = k1
  k2 = k2
  k3 = k3
  k4 = k4
  None = None
  Targets = {t1, t2, t3}
  KeysOf <- PoolOfTwo
  Plans <- BothPlans
  MaxAttempts = 3
  MaxSwitches = 1
  MaxRejections = 1
  Paths = {"same", "responses", "cross"}
  Interval = 1
  Idle = 2
  Grace = 1
  Deadline = 2
  Attempts = {1, 2}
  MaxFrames = 3
CHECK_DEADLOCK FALSE
INVARIANTS Typed Ordered OneVoice NothingLost
PROPERTIES Ends
