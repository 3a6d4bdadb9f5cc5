SPECIFICATION SpecWithPeer
CONSTANTS
  w1 = w1
  w2 = w2
  Requests = {w1, w2}
  Sizes = {2}
  WriteBurst = 0
  ReadBurst = 1
CHECK_DEADLOCK FALSE
INVARIANTS
  RequestsKept
PROPERTIES
  HonoursFlags
  KeepsPromise
  RequestsAnswered
