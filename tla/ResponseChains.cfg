SPECIFICATION JobsSpec
CONSTANTS
  None = None
  Tasks = {t1}
  Handlers = {h1, h2}
  MaxFaults = 1
  MaxCrashes = 1
  Accounts = {a1}
  Modes = {"sub2api", "manual"}
  Prices = {9}
  Peaks = {FALSE}
  Initial = 5
  Peak = 12
  PeakHours = {3}
  Interval = 1
  Backoff <- Ladder
  LowGrace = 2
  MediumGrace = 1
  SystemicGrace = 2
  SystemicWindow = 2
  SystemicMin = 1
  Slow = 1
  MaxTime = 3
  MaxEvents = 1
  Hosts = {native, other, chat}
  Keys = {k1}
  KeysOf <- OneKey
  Native = {native, other}
  Deleters = {d1}
  MaxTurns = 2
  StreamModes = {TRUE, FALSE}
  Areas = {"chains"}
PROPERTIES BrokenIsGone
INVARIANTS NeverAsNew HomeOnly RecordedFirst

CHECK_DEADLOCK FALSE
