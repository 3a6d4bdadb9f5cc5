SPECIFICATION SafetySpec
CONSTANTS
  s1 = s1
  s2 = s2
  s3 = s3
  c1 = c1
  c2 = c2
  w1 = w1
  w2 = w2
  None = None
  Servers = {s1}
  Conns = {c1}
  Writes = {}
  Ids <- MCIds
  AcceptMayFail = FALSE
  MaxCalls = 0
  MaxHeard = 0
CHECK_DEADLOCK FALSE
INVARIANTS
  HandleOutlivesClose
