SPECIFICATION Spec
CONSTANTS
  l = l
  a = a
  fl = fl
  fa = fa
  Dirs = {l, a}
  Launch = l
  Files = {fl, fa}
  Above <- MCAbove
  Trusted = TRUE
  MaxEntries = 1
  MaxTroubles = 1
INVARIANT InstructionsHere
CHECK_DEADLOCK FALSE
