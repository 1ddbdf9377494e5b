SPECIFICATION MCSpec
CONSTANTS
  Roads <- AllRoads
  MaxPieces = 4
  MaxItems = 3
  MaxEntries = 5
  MaxCalls = 2
INVARIANTS FragmentsKept WellFormed BodiesKept
CHECK_DEADLOCK FALSE
