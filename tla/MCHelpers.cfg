SPECIFICATION MCSpec
CONSTANTS
  s1 = s1
  s2 = s2
  h1 = h1
  h2 = h2
  Scopes = {s1, s2}
  Hosts = {h1, h2}
  HostOf <- HostOfDef
  Keep = {s2}
  MaxCalls <- MaxCallsDef
  MaxFaults = 1
  None = None
  i1 = i1
  c1 = c1
  c2 = c2
  c3 = c3
  Ids = {i1}
  Callers = {c1, c2, c3}
  Asks <- AsksDef
  MaxSessions = 2
  Owners = {o1, o2}
  Commands = {cmd}
  InHost = {probe}
  MaxActive = 2
  MaxEndpoints = 2
  Credits = 1
INVARIANTS TypesOK GuardianSafe ServersSafe RunsSafe
PROPERTIES HelpersEnd
CHECK_DEADLOCK FALSE
