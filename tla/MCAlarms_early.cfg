SPECIFICATION Spec
CONSTANTS
  Ids = {a1}
  MaxTime = 3
  MaxSets = 1
  MaxCancels = 0
  MaxMoves = 0
  MaxStarts = 0
  MaxAlarm = 3
  TimerLimit = 1
INVARIANT NeverEarly
CHECK_DEADLOCK FALSE
