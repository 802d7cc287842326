SPECIFICATION FairSpec
CONSTANTS
  w1 = w1
  w2 = w2
  p1 = p1
  p2 = p2
  Owners = {w1}
  Ops = {o1, o2}
  Paths = {p1}
  PathOwner <- PathOwnerDef
  MaxOperations = 2
  MaxRecoveries = 1
  MaxRounds = 1
  NoOp = NoOp
  NoOwner = NoOwner
INVARIANTS ScratchOutlivesChildren FinishAbortsEverything
PROPERTY FinishEnds
CHECK_DEADLOCK FALSE
