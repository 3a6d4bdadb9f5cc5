SPECIFICATION SafetySpec
CONSTANTS
  s1 = s1
  s2 = s2
  s3 = s3
  c1 = c1
  c2 = c2
  w1 = w1
  w2 = w2
  None = None
  Servers = {s1, s2, s3}
  Conns = {c1, c2}
  Writes = {w1, w2}
  Ids <- MCIds
  AcceptMayFail = TRUE
  MaxCalls = 2
  MaxHeard = 2
SYMMETRY Symmetry
CONSTRAINT ServersOrConns
CHECK_DEADLOCK FALSE
INVARIANTS
  OnlyWalkedClosedTwice
  OnlyCutDoHarm
  EndIsLast
  AnsweredInTheEnd
PROPERTIES
  WritesKeepPromise
