SPECIFICATION MCSpec
CONSTANTS
  Clients = {c1, c2}
  Servers = {s1, s2, s3}
  None = None
  Followers = {f1}
  LogMonitors = {m1}
  MaxOutput = 4
  MaxLog = 3
  Ring = 2
  Chunk = 2
  Ready = 2
  Backlog = 3
  Nil = Nil
INVARIANTS TypesOK StartupSafe OutputWhole NothingLeftBehind
PROPERTIES NobodyIsHeldUp
CHECK_DEADLOCK FALSE
