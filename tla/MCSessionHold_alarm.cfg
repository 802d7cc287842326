SPECIFICATION Spec
CONSTANTS
  Shells = {}
  Alarms = {a1, a2}
  Producers = {}
  MaxSources = 1
  MaxQueued = 1
  MaxMail = 1
INVARIANT HoldEndsOnEvent
CHECK_DEADLOCK FALSE
