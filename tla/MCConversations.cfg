SPECIFICATION Spec
CONSTANTS
  Editors = {e1, e2}
  Defaults <- MCDefaults
  MaxColumns = 3
  MaxTasks = 2
  Nil = Nil
  MaxPosition = 1
  Clients = {c1, c2}
  Cards = {d1, d2}
  Topics = {p1}
  Messages = {1}
  Media = {a1}
  Blobs = {b1}
  launch = launch
  lib = lib
  systemFile = systemFile
  libFile = libFile
  Dirs = {launch, lib}
  Launch = launch
  Files = {systemFile, libFile}
  Above <- MCAbove
  Trusted = TRUE
  MaxEntries = 4
  MaxTroubles = 1
  Sessions = {t1, t2}
  Runs = {r1}
  Sub = r9
  Old = t1
  MaxAnswers = 3
  MaxUsed = 2
  MaxForks = 1
  MaxStarts = 3
  MaxFaults = 1
INVARIANTS TypesOK BoardsSafe SummaryFits CostsSafe
PROPERTIES BoardsKeep CompactionKeeps CostsArrive
CHECK_DEADLOCK FALSE
