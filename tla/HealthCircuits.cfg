CONSTANTS
  acc = acc
  None = None
  Requests = {r1, r2}
  Accounts <- MCAccounts
  Keys = {k1}
  Targets = {t1}
  KeyAccount <- MCKeyAccount
  TargetAccount <- MCTargetAccount
  LimitChoices <- NoLimitChoices
  Unlimited = 4
  RateBound = {t1}
  Confirmations = 1
  Reported <- AllOutcomes
  ConsecutiveTrip = 1
  RatioMinSamples = 1
  MaxLevel = 1
  MaxSamples = 1
SPECIFICATION CircuitsSpec
SYMMETRY Symmetric
INVARIANTS TypeOK NoOrphanTrial

