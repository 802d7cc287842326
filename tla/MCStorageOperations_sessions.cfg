SPECIFICATION Spec
CONSTANTS
  w1 = w1
  w2 = w2
  p1 = p1
  p2 = p2
  Owners = {w1, w2}
  Ops = {o1}
  Paths = {p1, p2}
  PathOwner <- PathOwnerDef
  MaxOperations = 1
  MaxRecoveries = 1
  MaxRounds = 2
  NoOp = NoOp
  NoOwner = NoOwner
SYMMETRY PathSymmetry
INVARIANTS TypeOK CleaningIsQuiet DeletedStaysQuiet ExitLeavesNothing
CHECK_DEADLOCK FALSE
