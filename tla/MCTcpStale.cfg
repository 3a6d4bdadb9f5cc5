SPECIFICATION SafetySpec
CONSTANTS
  s1 = s1
  s2 = s2
  s3 = s3
  c1 = c1
  c2 = c2
  w1 = w1
  w2 = w2
  None = None
  Servers = {s1}
  Conns = {c1, c2}
  Writes = {w1}
  Ids <- MCIds
  AcceptMayFail = FALSE
  MaxCalls = 2
  MaxHeard = 2
SYMMETRY Symmetry
CHECK_DEADLOCK FALSE
INVARIANTS
  WritesOwnPeer
