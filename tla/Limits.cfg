CONSTANTS
  acc = acc
  t1 = t1
  k1 = k1
  k2 = k2
  None = None
  Callers = {c1, c2, c3}
  Slots = {s1, s2}
  CapacityChoices = {0, 2, Unlimited}
  Unlimited = Unlimited
  MaxEdits = 1
  Requests = {r1, r2, r3}
  Span = 2
  RpmLimit = 1
  TpmLimit = 2
  Tokens = {1, 2}
  MaxTime = 4
  MaxLag = 1
  Pair = {q1, q2}
  Accounts <- OneAccount
  Targets <- OneTarget
  TargetAccount <- OfTarget
  Keys <- OneKey
  KeyAccount <- OfKey
  LimitChoices <- AccountMoves
  Most = 4
  RateLimited <- OneAccount
  Confirmations = 1
  Reported = {"neutral"}
  ConsecutiveTrip = 1
  RatioMinSamples = 1
  MaxLevel = 1
  MaxSamples = 1
  PoolKeys <- TwoKeys
  KeysOf <- BothKeys
  Limit <- KeysOfOne
  RateBound = {k2}
  Plans <- OnePlan
  Bindings = {None, k1}
  QueueCapacity = 2
SPECIFICATION LimitsSpec
SYMMETRY Alike
CHECK_DEADLOCK FALSE
INVARIANTS PlacesNeverLost SpreadAtBoundary PermitsConserved
PROPERTIES RefusedOnlyWhenFull ShrinkLeavesNoIdle LimitsHold
