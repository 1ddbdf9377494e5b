SPECIFICATION Spec
CONSTANTS
  None = None
  native = native
  chat = chat
  other = other
  d1 = d1
  k1 = k1
  k2 = k2
  Keys = {k1}
  KeysOf <- OneKey
  MaxTurns = 3
  Accounts = {native, chat}
  Native = {native}
  Modes = {FALSE}
  Deleters = {}
  MaxFaults = 0
INVARIANTS WholeHistory
CHECK_DEADLOCK FALSE
