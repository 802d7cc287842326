SPECIFICATION MCSpec
CONSTANTS
  Shells = {b1}
  Alarms = {h1}
  Producers = {p1, p2}
  MaxSources = 2
  MaxQueued = 1
  MaxMail = 1
  MaxSession = 3
  MaxProbes = 5
  MaxTurns = 2
  MaxCommands = 3
  MaxUnkept = 1
  BgShells = {s1, s2}
  MaxCrashes = 1
  MaxLeaves = 1
  MaxReloads = 1
  Ids = {a1, a2}
  MaxTime = 2
  MaxSets = 2
  MaxCancels = 1
  MaxMoves = 1
  MaxStarts = 1
  MaxAlarm = 2
  TimerLimit = 2
INVARIANTS TypesOK HoldSafe LoopsSafe ToldExactly AlarmSafe
PROPERTIES AnswerIsAboutGoal SuppressedIsQuiet WaitsEnd
CHECK_DEADLOCK FALSE
