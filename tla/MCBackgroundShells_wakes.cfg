SPECIFICATION Spec
CONSTANTS
  Shells = {s1}
  MaxCrashes = 0
  MaxLeaves = 0
  MaxReloads = 1
INVARIANT CompletionWakes
CHECK_DEADLOCK FALSE
