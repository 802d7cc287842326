SPECIFICATION MCSpec
CONSTANTS
  t1 = t1
  t2 = t2
  t3 = t3
  h1 = h1
  h2 = h2
  Hosts = {h1, h2}
  Tasks = {t1, t2, t3}
  HostOf <- HostOfDef
  c1 = c1
  c2 = c2
  c3 = c3
  Calls = {c1, c2, c3}
  ThreadOf <- ThreadOfDef
  KindsOf <- KindsDef
  MaxCorrections = 1
  MaxOutside = 2
  MaxFaults = 2
  Sources <- SourcesDef
  Hunks <- HunksDef
  Alike <- AlikeDef
  p = p
  q = q
  Ids = {d1, d2}
  MaxSlots = 1
  None = None
SYMMETRY TaskSymmetry
INVARIANTS TypesOK DirectoriesAccounted LostOnlyByFailure ErrorChangesNothing PatchIsMeant
PROPERTIES ImplementsPool EditsSurvive Answered
CHECK_DEADLOCK FALSE
